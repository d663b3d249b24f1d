-------------------------------- MODULE Lookups --------------------------------
(***************************************************************************)
(* The lookups other services use to find a member by one of its names,    *)
(* and the table of provider usernames.                                    *)
(*                                                                         *)
(* A lookup answers from Redis, without ttl, or builds the answer from     *)
(* `_memberRepo_`, the members row, `_web_Domain_` and the website row.    *)
(* `_member_` is keyed by the name as it was asked for: the username or    *)
(* four letters and the username.  PUT member, the PATCHes and ClearCache  *)
(* delete two of these keys, Reset flushes Redis; the answers kept under a *)
(* provider username or a phone nobody deletes.  POST Realusername asks    *)
(* the provider for a member's username there and saves it.                *)
(*                                                                         *)
(* What a lookup shows of a member or a website is the number of the write *)
(* that produced it.  An action is one awaited call.                       *)
(***************************************************************************)
EXTENDS Naturals, FiniteSets

CONSTANTS
    Requests,   \* the HTTP requests
    Offered,    \* the handlers they call, a subset of Kinds
    Users,      \* the usernames of the members
    Names,      \* the names lookups ask for, and those generateSeamlessUsername makes
    Lower,      \* toLocaleLowerCase: a name in lower case
    Tail,       \* decodeSeamlessUsername: a name without its first four letters
    Seamless,   \* generateSeamlessUsername: company, agent and username with the
                \* letters of the row, cut to 16
    None,       \* a key that is not in Redis
    InFlight,   \* bound: how many requests the server works on at a time
    MaxMoves,   \* bound: how often the website gets another domain
    Faults      \* TRUE: calls may fail or lose their answer, the process may die

ByName == {"ByUsername", "ByDisplayname"}
Changes == {"PutMember", "Patch", "ClearCache"}
Kinds == ByName \cup Changes \cup {"ByProvider", "ByPhone", "Reset", "RealUsername"}
\* The spelling of a Realusername call: the lookups use the lower-case username
\* and the upper-case provider, the row is saved as it was typed.
Spellings == {"exact", "mixed_username", "lower_provider"}

ASSUME KindsAssumption == Offered \subseteq Kinds
ASSUME NamesAssumption ==
    /\ Users \subseteq Names /\ None \notin Names
    /\ Tail \in [Names -> Names] /\ Seamless \in [Users -> Names]
    /\ Lower \in [Names -> Names] /\ \A u \in Users : Lower[u] = u
ASSUME BoundAssumption == InFlight \in Nat /\ MaxMoves \in Nat /\ Faults \in BOOLEAN

VARIABLES
    job,         \* each request: where its handler is, what it was asked, the member
                 \* and the domain it has read, the loop of saveRealUsername
    row,         \* the members rows
    site,        \* the website row
    config,      \* the member_config rows
    repo,        \* `_memberRepo_${username}`
    view,        \* `_member_${name}`
    pview,       \* `_provider_username_${provider username}_${provider}`
    phones,      \* `_memberRepo_${phone}_${company}_${agent}` for the phone of each member
    domain,      \* `_web_Domain_${hash}`
    flag,        \* `_realusername_${USERNAME}_${provider}`
    latest,      \* history: the number of changes of each member
    overlapped,  \* history: the requests that ran beside another one
    settled,     \* history: the row a change or ClearCache that ran alone left
    flushed,     \* history: the rows at the last Reset that ran alone
    refused      \* history: the members the provider denied twice in one call

tableVars == <<row, site, config>>
cacheVars == <<repo, view, pview, phones, domain, flag>>
historyVars == <<latest, overlapped, settled, flushed, refused>>
vars == <<job, tableVars, cacheVars, historyVars>>

\* Every call there is.  The lookups by name lower-case the name they are asked for;
\* where a handler takes a username it is the one of a member.
Calls ==
    [kind : Offered \cap ByName, name : {Lower[n] : n \in Names}, spelt : {"exact"}]
      \cup [kind : Offered \cap (Changes \cup {"ByProvider", "ByPhone"}), name : Users, spelt : {"exact"}]
      \cup [kind : Offered \cap {"Reset"}, name : {None}, spelt : {"exact"}]
      \cup [kind : Offered \cap {"RealUsername"}, name : Users, spelt : Spellings]
NoCall == [kind |-> None, name |-> None, spelt |-> "exact"]

\* The username a call is about.
Owner(c) == IF c.kind = "ByUsername" THEN Tail[c.name] ELSE c.name
User(r) == Owner(job[r].call)

Steps == {"view", "pview", "phone", "config", "repo", "row", "fill", "domain", "site", "setdomain",
          "setview", "setpview", "setphone", "save", "resave", "delrepo", "delagain", "delview", "delseamless",
          "reset", "flag", "find", "check", "prepare", "insert", "setflag"}
Job == [at : Steps \cup {"idle", "done"}, call : Calls \cup {NoCall},
        ver : Nat, url : Nat, tries : 0..2]
Before == [at |-> "idle", call |-> NoCall, ver |-> 0, url |-> 0, tries |-> 0]
After == [Before EXCEPT !.at = "done"]

At(r, label) == job[r].at = label
Active(r) == job[r].at \in Steps
Does(r, k) == job[r].call.kind = k
Goto(r, label) == job' = [job EXCEPT ![r].at = label] /\ UNCHANGED <<settled, flushed>>
Take(r, data, label) ==
    /\ job' = [job EXCEPT ![r] = [data EXCEPT !.at = label]]
    /\ UNCHANGED <<settled, flushed>>
Finish(r) == job' = [job EXCEPT ![r] = After] /\ UNCHANGED <<settled, flushed>>

\* A change or a clearing that no other request overlapped is one to rely on.
Succeed(r) ==
    /\ job' = [job EXCEPT ![r] = After]
    /\ settled' = IF r \in overlapped THEN settled
                  ELSE [settled EXCEPT ![User(r)] = row[User(r)]]
    /\ UNCHANGED flushed
-------------------------------------------------------------------------------
(* Loading the member.                                                     *)

FirstStep(k) ==
    CASE k \in ByName -> "view"
      [] k = "ByProvider" -> "pview"
      [] k = "ByPhone" -> "phone"
      [] k \in {"PutMember", "ClearCache"} -> "repo"
      [] k = "Patch" -> "row"
      [] k = "Reset" -> "reset"
      [] k = "RealUsername" -> "flag"

Arrive(r) ==
    /\ At(r, "idle")
    /\ Cardinality({q \in Requests : Active(q)}) < InFlight
    /\ \E c \in Calls : Take(r, [job[r] EXCEPT !.call = c], FirstStep(c.kind))
    /\ overlapped' = IF \E q \in Requests : Active(q)
                     THEN overlapped \cup {r} \cup {q \in Requests : Active(q)}
                     ELSE overlapped
    /\ UNCHANGED <<tableVars, cacheVars, latest, refused>>

\* The answer under the name asked for; a name no member has is not found.
ReadView(r) ==
    /\ At(r, "view")
    /\ IF view[job[r].call.name] = None /\ User(r) \in Users THEN Goto(r, "repo") ELSE Finish(r)
    /\ UNCHANGED <<tableVars, cacheVars, latest, overlapped, refused>>

ReadProviderView(r) ==
    /\ At(r, "pview")
    /\ IF pview[job[r].call.name] = None THEN Goto(r, "config") ELSE Finish(r)
    /\ UNCHANGED <<tableVars, cacheVars, latest, overlapped, refused>>

\* The row whose provider is in upper case, if there is one.
ReadConfig(r) ==
    /\ At(r, "config")
    /\ IF \E c \in config : c.user = job[r].call.name /\ c.spelt # "lower_provider"
       THEN Goto(r, "repo") ELSE Finish(r)
    /\ UNCHANGED <<tableVars, cacheVars, latest, overlapped, refused>>

\* getMemberByPhone (VerifyTRUE) keeps an answer of its own.
ReadPhone(r) ==
    /\ At(r, "phone")
    /\ IF phones[job[r].call.name] = None THEN Goto(r, "row") ELSE Finish(r)
    /\ UNCHANGED <<tableVars, cacheVars, latest, overlapped, refused>>

AfterLoad(k) ==
    CASE k \in ByName -> "domain"
      [] k = "ByProvider" -> "setpview"
      [] k \in {"PutMember", "Patch"} -> "save"
      [] k = "ClearCache" -> "delview"

\* getMember: the cached copy, or the row and then the cache.
ReadRepo(r) ==
    /\ At(r, "repo")
    /\ \/ repo[User(r)] = None /\ Goto(r, "row")
       \/ /\ repo[User(r)] # None
          /\ Take(r, [job[r] EXCEPT !.ver = repo[User(r)]], AfterLoad(job[r].call.kind))
    /\ UNCHANGED <<tableVars, cacheVars, latest, overlapped, refused>>

\* The PATCHes find the member by id, VerifyTRUE by phone; the rest fill the cache.
AfterRow(k) == CASE k = "Patch" -> "save" [] k = "ByPhone" -> "setphone" [] OTHER -> "fill"

LoadRow(r) ==
    /\ At(r, "row")
    /\ Take(r, [job[r] EXCEPT !.ver = row[User(r)]], AfterRow(job[r].call.kind))
    /\ UNCHANGED <<tableVars, cacheVars, latest, overlapped, refused>>

FillRepo(r) ==
    /\ At(r, "fill")
    /\ repo' = [repo EXCEPT ![User(r)] = job[r].ver]
    /\ Goto(r, AfterLoad(job[r].call.kind))
    /\ UNCHANGED <<tableVars, view, pview, phones, domain, flag, latest, overlapped, refused>>
-------------------------------------------------------------------------------
(* Answering a lookup.                                                     *)

\* getMemberUrl: the cached domain, or the website row and then the cache.
ReadDomain(r) ==
    /\ At(r, "domain")
    /\ \/ domain = None /\ Goto(r, "site")
       \/ domain # None /\ Take(r, [job[r] EXCEPT !.url = domain], "setview")
    /\ UNCHANGED <<tableVars, cacheVars, latest, overlapped, refused>>

ReadSite(r) ==
    /\ At(r, "site")
    /\ Take(r, [job[r] EXCEPT !.url = site], "setdomain") \/ (Faults /\ Finish(r))
    /\ UNCHANGED <<tableVars, cacheVars, latest, overlapped, refused>>

SetDomain(r) ==
    /\ At(r, "setdomain")
    /\ domain' = job[r].url
    /\ Goto(r, "setview")
    /\ UNCHANGED <<tableVars, repo, view, pview, phones, flag, latest, overlapped, refused>>

SetView(r) ==
    /\ At(r, "setview")
    /\ view' = [view EXCEPT ![job[r].call.name] =
                   [user |-> User(r), ver |-> job[r].ver, url |-> job[r].url]]
    /\ Finish(r)
    /\ UNCHANGED <<tableVars, repo, pview, phones, domain, flag, latest, overlapped, refused>>

SetProviderView(r) ==
    /\ At(r, "setpview")
    /\ pview' = [pview EXCEPT ![job[r].call.name] = job[r].ver]
    /\ Finish(r)
    /\ UNCHANGED <<tableVars, repo, view, phones, domain, flag, latest, overlapped, refused>>

SetPhone(r) ==
    /\ At(r, "setphone")
    /\ phones' = [phones EXCEPT ![job[r].call.name] = job[r].ver]
    /\ Finish(r)
    /\ UNCHANGED <<tableVars, repo, view, pview, domain, flag, latest, overlapped, refused>>
-------------------------------------------------------------------------------
(* Changing and clearing.                                                  *)

\* PUT saves new data, a PATCH saves the rest of the entity as it loaded it.
Save(r) ==
    /\ At(r, "save") \/ At(r, "resave")
    /\ \/ /\ IF Does(r, "Patch")
             THEN row' = [row EXCEPT ![User(r)] = job[r].ver] /\ UNCHANGED latest
             ELSE /\ latest' = [latest EXCEPT ![User(r)] = @ + 1]
                  /\ row' = [row EXCEPT ![User(r)] = latest[User(r)] + 1]
          /\ \/ Goto(r, IF At(r, "save") THEN "delrepo" ELSE "delagain")
             \/ Faults /\ Finish(r)
       \/ Faults /\ Finish(r) /\ UNCHANGED <<row, latest>>
    /\ UNCHANGED <<site, config, cacheVars, overlapped, refused>>

\* PUT member deletes `_memberRepo_` a second time, the agent's PUT does not.  The
\* PATCH of a password saves the entity again where it synchronises the member; a
\* PATCH may also fail on the other server.
DeleteRepo(r) ==
    /\ At(r, "delrepo") \/ At(r, "delagain")
    /\ repo' = [repo EXCEPT ![User(r)] = None]
    /\ \/ Does(r, "PutMember") /\ At(r, "delrepo") /\ Goto(r, "delagain")
       \/ Does(r, "Patch") /\ At(r, "delrepo") /\ Goto(r, "resave")
       \/ job[r].call.kind \in {"PutMember", "Patch"} /\ Goto(r, "delview")
       \/ Does(r, "ClearCache") /\ Goto(r, "delseamless")
       \/ Faults /\ Finish(r)
    /\ UNCHANGED <<tableVars, view, pview, phones, domain, flag, latest, overlapped, refused>>

\* The answer kept under the username.
DeleteView(r) ==
    /\ At(r, "delview")
    /\ view' = [view EXCEPT ![User(r)] = None]
    /\ \/ Goto(r, IF Does(r, "ClearCache") THEN "delrepo" ELSE "delseamless")
       \/ Faults /\ Finish(r)
    /\ UNCHANGED <<tableVars, repo, pview, phones, domain, flag, latest, overlapped, refused>>

\* Mutation: the key is made of the username alone.
SeamlessKeyShort(u) == u

\* The name company, agent and username make, with the letters of the row: where the
\* row has a capital no lookup has kept an answer under it.
SeamlessKey(u) == Seamless[u]

\* The answer kept under that name.
DeleteSeamless(r) ==
    /\ At(r, "delseamless")
    /\ view' = [view EXCEPT ![SeamlessKey(User(r))] = None]
    /\ Succeed(r) \/ (Faults /\ Finish(r))
    /\ UNCHANGED <<tableVars, repo, pview, phones, domain, flag, latest, overlapped, refused>>

\* Mutation: the flush leaves the keys it has not been told of.
FlushNothing(cache) == cache

Flush(cache) == [k \in DOMAIN cache |-> None]

\* GET Reset flushes Redis, `_realusername_` with the rest.
Reset(r) ==
    /\ At(r, "reset")
    /\ repo' = Flush(repo) /\ view' = Flush(view) /\ pview' = Flush(pview)
    /\ phones' = Flush(phones)
    /\ domain' = None /\ flag' = {}
    /\ job' = [job EXCEPT ![r] = After]
    /\ IF r \in overlapped THEN UNCHANGED <<settled, flushed>>
       ELSE settled' = row /\ flushed' = [row |-> row, site |-> site]
    /\ UNCHANGED <<tableVars, latest, overlapped, refused>>
-------------------------------------------------------------------------------
(* POST Realusername.                                                      *)

\* The key holds the username in upper case and the provider as it was typed.
FlagKey(c) == <<c.name, c.spelt = "lower_provider">>

ReadFlag(r) ==
    /\ At(r, "flag")
    /\ IF FlagKey(job[r].call) \in flag THEN Finish(r) ELSE Goto(r, "find")
    /\ UNCHANGED <<tableVars, cacheVars, latest, overlapped, refused>>

\* Mutation: the row is looked for with the username as typed.
FindsTyped(c, u) == c.user = u /\ c.spelt = "mixed_username"

\* getByUsername finds a row saved under the exact spelling only.
Finds(c, u) == c.user = u /\ c.spelt = "exact"

FindConfig(r) ==
    /\ At(r, "find")
    /\ IF \E c \in config : Finds(c, User(r)) THEN Finish(r) ELSE Goto(r, "check")
    /\ UNCHANGED <<tableVars, cacheVars, latest, overlapped, refused>>

\* The provider knows the member, denies it, or the call fails and the handler
\* answers 400.
Check(r) ==
    /\ At(r, "check")
    /\ \/ Goto(r, "insert") /\ UNCHANGED refused
       \/ /\ Take(r, [job[r] EXCEPT !.tries = job[r].tries + 1], "prepare")
          /\ refused' = IF job[r].tries = 1 THEN refused \cup {User(r)} ELSE refused
       \/ Faults /\ Finish(r) /\ UNCHANGED refused
    /\ UNCHANGED <<tableVars, cacheVars, latest, overlapped>>

\* Mutation: the loop ends after one round.
LastRoundEarly(n) == n > 0
\* Mutation: the loop runs once more.
LastRoundLate(n) == n > 2

\* The third round of saveRealUsername returns at once.
LastRound(n) == n > 1

\* createUserGSC and goLunchGame swallow their errors.
Prepare(r) ==
    /\ At(r, "prepare")
    /\ Goto(r, IF LastRound(job[r].tries) THEN "setflag" ELSE "check")
    /\ UNCHANGED <<tableVars, cacheVars, latest, overlapped, refused>>

\* No index keeps a second row out.
InsertConfig(r) ==
    /\ At(r, "insert")
    /\ \/ /\ config' = config \cup {[user |-> job[r].call.name, spelt |-> job[r].call.spelt, by |-> r]}
          /\ Goto(r, "setflag") \/ (Faults /\ Finish(r))
       \/ Faults /\ Finish(r) /\ UNCHANGED config
    /\ UNCHANGED <<row, site, cacheVars, latest, overlapped, refused>>

SetFlag(r) ==
    /\ At(r, "setflag")
    /\ flag' = flag \cup {FlagKey(job[r].call)}
    /\ Finish(r)
    /\ UNCHANGED <<tableVars, repo, view, pview, phones, domain,
                   latest, overlapped, refused>>
-------------------------------------------------------------------------------
(* The surroundings.                                                       *)

\* Somebody gives the website another domain in the support database.
Move ==
    /\ site < MaxMoves
    /\ site' = site + 1
    /\ UNCHANGED <<job, row, config, cacheVars, historyVars>>

\* The process dies; the tables and Redis keep what they have.
Crash ==
    /\ Faults
    /\ \E r \in Requests : Active(r)
    /\ job' = [r \in Requests |-> IF Active(r) THEN After ELSE job[r]]
    /\ UNCHANGED <<tableVars, cacheVars, historyVars>>

Rest == (\A r \in Requests : At(r, "done")) /\ UNCHANGED vars
-------------------------------------------------------------------------------
Init ==
    /\ job = [r \in Requests |-> Before]
    /\ row = [u \in Users |-> 0] /\ site = 0 /\ config = {}
    /\ repo = [u \in Users |-> None] /\ view = [n \in Names |-> None]
    /\ pview = [u \in Users |-> None] /\ phones = [u \in Users |-> None] /\ domain = None /\ flag = {}
    /\ latest = [u \in Users |-> 0]
    /\ overlapped = {}
    /\ settled = [u \in Users |-> 0]
    /\ flushed = [row |-> [u \in Users |-> 0], site |-> 0]
    /\ refused = {}

Load(r) == \/ Arrive(r) \/ ReadView(r) \/ ReadProviderView(r) \/ ReadConfig(r) \/ ReadPhone(r)
           \/ ReadRepo(r) \/ LoadRow(r) \/ FillRepo(r)
Answer(r) == \/ ReadDomain(r) \/ ReadSite(r) \/ SetDomain(r) \/ SetView(r)
             \/ SetProviderView(r) \/ SetPhone(r)
Change(r) == Save(r) \/ DeleteRepo(r) \/ DeleteView(r) \/ DeleteSeamless(r) \/ Reset(r)
RealUsername(r) == \/ ReadFlag(r) \/ FindConfig(r) \/ Check(r) \/ Prepare(r)
                   \/ InsertConfig(r) \/ SetFlag(r)

Next == \/ \E r \in Requests : Load(r) \/ Answer(r) \/ Change(r) \/ RealUsername(r)
        \/ Move \/ Crash \/ Rest
Spec == Init /\ [][Next]_vars
-------------------------------------------------------------------------------
(* Properties.                                                             *)

Views == [user : Users, ver : Nat, url : Nat]

\* Every variable keeps its type.
TypeOK ==
    /\ job \in [Requests -> Job]
    /\ row \in [Users -> Nat] /\ site \in Nat
    /\ config \subseteq [user : Users, spelt : Spellings, by : Requests]
    /\ repo \in [Users -> Nat \cup {None}] /\ view \in [Names -> Views \cup {None}]
    /\ {pview, phones} \subseteq [Users -> Nat \cup {None}] /\ domain \in Nat \cup {None}
    /\ flag \subseteq Users \X BOOLEAN
    /\ latest \in [Users -> Nat] /\ overlapped \subseteq Requests
    /\ settled \in [Users -> Nat] /\ refused \subseteq Users
    /\ flushed \in [row : [Users -> Nat], site : Nat]

\* A change of a member or a ClearCache that ran alone and was answered with
\* success is not undone, and is seen by whoever asks for the member by its
\* username or by its name of company, agent and username, however the requests
\* after it overlap (member.agent.controller.ts:174-176, 202-204, 225-227).  The
\* name has the letters of the row: if company or agent have a capital, the lookups
\* keep their answer under the name in lower case, which no change deletes.
SettledSeen ==
    \A u \in Users :
        /\ row[u] >= settled[u]
        /\ repo[u] # None => repo[u] >= settled[u]
        /\ \A n \in {u, Seamless[u]} :
              view[n] # None /\ view[n].user = u => view[n].ver >= settled[u]

\* After a Reset that ran alone nothing Redis holds, under any key, is older than
\* what the tables held then (member.controller.ts:92-96).
FlushedSeen ==
    /\ domain # None => domain >= flushed.site
    /\ \A u \in Users : /\ pview[u] # None => pview[u] >= flushed.row[u]
                        /\ phones[u] # None => phones[u] >= flushed.row[u]
    /\ \A n \in Names : view[n] # None => /\ view[n].ver >= flushed.row[view[n].user]
                                          /\ view[n].url >= flushed.site

\* Calls that do not overlap save one row for a member, as long as the spelling
\* is the one the lookup uses (member.controller.ts:344-353); no unique index
\* keeps a second one out.
OneConfigRow ==
    \A u \in Users :
        Cardinality({c \in config : c.user = u /\ c.spelt = "exact" /\ c.by \notin overlapped}) <= 1

\* The flag that stops later calls is set only when a row was saved or the
\* provider denied the member twice; a failed call leaves it unset
\* (member.controller.ts:349-359).
FlagEarned ==
    \A k \in flag : k[1] \in refused \/ \E c \in config : c.user = k[1]
===============================================================================
