# Verification of all-member-frontend-api

This directory holds TLA+ models of the NestJS service under `src/src`, the TLC runs that check
them on small instances and TLAPS proofs of theorems about them. The service keeps the members of
gambling sites: it registers them, logs them in, remembers how much they have to bet before a
withdrawal (the *turn*), and carries out withdrawals and purchases against money kept by other services.
The repository's tests and its README are the framework's stock files, so the reference is the code; what it
promises in words are the messages it answers with.

## 1. Inventory

State kept by the service, and by the services it calls:

| where | state | written by |
|---|---|---|
| Postgres `members` (username unique) | one row per member, with `sync`, `wd_count`, `status`, `password`, `member_token` | registration, back office, login, withdrawal, synchronisation |
| Postgres `member_turn` (username unique) | the demanded turnover per game type, `min_turn`, `limitwithdraw` | createTurnV2, WdCheck, Sync, SetMinturn, PUT turn |
| Postgres `member_config` | provider user names | RealUsername |
| Redis | `_memberRepo_`, `_member_info_`, `_member_`, `_provider_username_`, `_memberRepo_${phone}_…`, `_web_Domain_`, `_turn_`, `_member_with_turn_`, `_realusername_` (no ttl); `_withdraw_member_…`, `_turn_auto` (5 s), `_SSID_` (1 h) | the handlers |
| SMART_V2, ALL_DEPOSIT, ALL_WITHDRAW, ALL_WHEEL, ALL_WINLOSE, ALL_SETTING, ALL_CRIMINAL, ALL_SUPPORT | balance, affiliate income, list of payouts, purchases, reported bets, site settings, black list, notices | HTTP calls |

Components:

| component | operations | what makes it correct | module |
|---|---|---|---|
| Withdrawals and purchases (`member.turn.controller.ts`) | Withdraw, CutCreditV2, WheelBuy, WithdrawAff | nothing is paid that was not taken; a retry takes nothing; success is true; a withdrawal alone keeps the daily limits; the handlers end | `Withdrawal`, `CreditPayout` |
| Member row and its copies (`member.service.ts`, the member controllers, `auth.service.ts`) | getMember, PUT, PUT/PATCH password, PATCH status, POST Member, imports, login, member page, credit lookups, ClearCache, withdrawal | a confirmed change is not put back by an old copy and not hidden by a cache | `MemberStore` |
| Member lookups and provider user names (`member.service.ts`, `member.config.service.ts`) | ByUsername, ByDisplayname, ByProviderUsername, VerifyTRUE, PUT, PATCH, ClearCache, Reset, Realusername | no answer kept in Redis outlives a settled change or a flush; one row per provider name; the flag that stops later calls is earned | `Lookups` |
| Registration (`member.service.ts`, `member.controller.ts`) | POST Frontend, FrontendAffiliate, Auto, agent POST | registrations apart from each other are of distinct people; a success answer means a member with a turn; names are used up before anyone is refused | `Registration` |
| Turn record (`member.turn.service.ts`) | WdCheck, Sync, GET, WithTurn, Auto, SetMinturn, PUT | an answered turn stays, in the row and in every answer; WdCheck passes only what was bet or waived | `TurnRecord` |
| Turn arithmetic (`calculateTurnDiff`) | WdCheck, Sync over the seven game types | nobody passes who met no type; a refusal names what is lacking, and betting that is enough | `TurnDiff`, `TurnVerdict` |
| The agent's list of members (`getMemberPaginate`, `PageMetaDto`) | GET SubScribe, SubScribeOption | a walk to the last page shows everyone who stayed in place; a search by option shows the newest | `Paging` |
| Login (`auth`) | Login, tokens | only its save of the member is modelled (`MemberStore`) | partly |
| Smart API (`Website/smart.*`), setting module | — | registered by no module, so unreachable | not modelled |
| Rico and support proxies, agent top-up, imports of turns and provider names | — | no state here, or rows saved as given | not modelled |

Interaction. A handler is an `async` function: it runs alone between two `await`s, and everything it
awaits (Redis, Postgres, HTTP) lets other requests of the same process, or of another process of the same
deployment, run in between. There is no lock and no transaction; handlers meet in the rows, in the
cache and in the other services. HTTP calls have no timeout, and most `catch` blocks dereference
`error.response.data`, which throws again when the connection broke: the client then gets a 500 whatever was
done.

Hard behaviours: check-then-act over several awaits (guard, daily limit, uniqueness at
registration); entities loaded early and saved whole late; cached copies without expiry that must be
deleted by every writer; answers lost after the effect; several effects without compensation; process
death between any two of them. `PROJECT.json` lists them one by one under `hazards`, each at its line.

## 2. How the models are built

Each module describes one member, because every row, key and balance the handlers touch belongs to one;
`Registration` and `Paging` describe one site, and `Lookups` two members, as a name may lead to either. `Requests` are processes; `pc[r]` is the call that request `r` is about to
await; one action is that call and the synchronous code up to the next one. `reply[r]` is what the client
was told. Constants common to the modules:

* `Offered`: the handlers that the requests call, so that a run can be about some of them;
* `Faults`: when TRUE a call may fail before or after its effect, and the process may die (`Crash`), which
  ends all handlers and leaves rows, caches and other services as they are.

Requests overlap freely in every module. What the code can promise only to a request that no other ran beside is said so by
the property, with the history variable `overlapped`: the requests that were in flight together with another one.

Variables marked *history* in a module are read by its properties only. A definition whose comment begins with
"Mutation:" is not part of the model: it is a faulty variant of the definition after it, and shows that
the properties can fail.

## 3. The modules

### Withdrawal (core) and CreditPayout

`Withdrawal` models the four handlers await by await: `Arrive` (validation of the amount), `Validate`
(affiliate report), `GuardGet`/`GuardSet` (the Redis guard with a ttl of 5 s and a key of username as typed and amount),
`Load` (member and setting), `CheckLimits`, `ReadTurn`/`CreateTurn`/`InsertTurn`,
`ReadBalance`, `CutCredit` or `CutAffiliate`, `PostList` or `RecordWheel`, `SaveMember`, `Notify`, and
`SyncTopup`/`SyncCut`/`SyncSave` for a member that was never synchronised. Around them: `Expire` (the ttl),
`Play`, `ChangeTurn`, `Midnight`, `Crash`. `syncCopies` is the set of values that the flag `sync` has in the row or
a cached copy, as a handler may load any of them. Credit is in whole units, `Satang` being the trial transfer
of the synchronisation.

`CreditPayout` is the promise without the steps: per request, credit is taken at most once, then at
most that much is paid once, then success may be confirmed; failure may come at any point, because the code
has no compensation. `Withdrawal!ImplementsPromise` is the refinement, with `cut`, `listed` and the
answers as its mapping.

| property | says |
|---|---|
| `PayoutCovered` | listed for payment ≤ credit taken, with caps and balances changing between the reads |
| `RetryTakesNothing` | while a guard lives, an identical request that arrived after it was set takes no credit |
| `OkMeansPaid` | success implies credit taken and, unless it is a purchase, a listed payout |
| `TakenIsListed` | without faults no handler refuses after the cut |
| `AloneKeepsLimits` | a withdrawal that no request ran beside leaves the day's amount within its limit, also on a day on which requests that overlapped had passed it, and breaks no announced limit that still held |
| `DailyLimit` | the announced limits per day, without that condition (violation run) |
| `SyncGivesTurn` | the member is marked synchronised only when the turn row exists |
| `EveryRequestEnds` | liveness: every handler in flight ends |
| `ImplementsPromise` | the refinement |

### MemberStore

The row, `_memberRepo_` and `_member_info_`. A field is represented by the number of the write that produced it,
which is all a comparison of copies needs; `wd_count` and `sync` have values of their own. `Save` writes the whole
entity that the handler holds (TypeORM's `save` updates every column in which the entity differs from
the row). `Upsert` is POST Member and the imports, which overwrite every column without looking. `AfterSave` and `AfterDelete`
say which keys a handler deletes afterwards. `AfterLoad` is where the handlers part: GET :displayname, Withdraw, WheelBuy and the turn
handlers (`GetTurn`: WithTurn, Auto, AutoV2 and PUT turn) synchronise a member that is not (`SyncSave`, `SyncDelete`: the entity saved whole by
syncMember), after which Withdraw and WheelBuy refuse; WithdrawAff saves without asking; CutCreditV2 refuses. `Answer` is the rest of a
handler that does not change the entity: credit lookups, the turn, the cut of WheelBuy. Requests overlap freely.

A change counts as *confirmed* when it was answered with success, its request ran alone, and it is one of the `Settings`, the changes that delete
cached copies (PUT Password deletes none: its answer is `answered`, and `PutPasswordKept` fails, section 4): one that
overlaps another may be put back or hidden by an entity loaded before it, which `hazards` lists. `ConfirmedKept` and
`ConfirmedSeen` compare the row and the caches with the last confirmed write of a field, and say that whatever comes *after*
a confirmed change, overlapping or not, does not lose it. `CountNeverDrops` is about the counter that a withdrawal increments in whatever copy
it loaded; `torn` records that a failure came between the save and the delete of a withdrawal, or that a
withdrawal was overlapped, after which nothing is promised about it.

### Lookups

The answers that other services get when they look for a member: under the username or the name of company,
agent and username (`view`), the provider's name for it (`pview`), the phone (`phones`); with `repo`, the row and the domain of the site
(`domain`) from which an answer is put together. An answer shows a version of the member and of the site. `Seamless` and `Tail` are
`generateSeamlessUsername`, which cuts to 16 characters, and its inverse, which drops four letters: constants, so that two members may be
called alike. `Lower` is the lower case in which lookups ask and keep their answers, while a change deletes the name in the letters of the row.
The company of a member does not change within a behaviour. PUT and PATCH save and then delete two or three of the keys, ClearCache only deletes, `Reset` flushes Redis; nobody
deletes the answers kept by provider name and phone. Realusername looks at the flag, then for a row under the
lower-case spelling, asks the provider, prepares at most twice, inserts the row as it was typed and sets the flag.

| property | says |
|---|---|
| `SettledSeen` | a change that ran alone is not undone or hidden under username and name, however later requests overlap |
| `FlushedSeen` | after a Reset that ran alone nothing in Redis is older than the tables were |
| `OneConfigRow` | calls that do not overlap save one row per member, under the spelling the lookup uses |
| `FlagEarned` | the flag stands only for a saved row or a member the provider denied twice |

What does not hold, and why the properties do not say it: a lookup in flight during a change puts the old answer back after the delete;
an answer by provider name or phone survives every change; a member whose name equals another's
company, agent and username is answered in its place (so `SettledSeen` asks whose answer it is); where company or agent
have a capital letter, the answer under that name is kept in lower case and no change deletes it (so `SettledSeen` is about the name
in the letters of the row, and the second member of the run is such a one); overlapping calls, and calls that spell the name in another case, save a second row.

### Registration

Validation (`CheckTable` three times, `CheckOutside` for the two outside lists, which pass when they fail), the
username loop (`TryUsername`; `index` and `cut` are its two counters), the insert (`SaveMember`), the turn, the
token and the notice; and the agent's find-then-upsert. A phone is four groups of digits, and `blanks` are the fields, phone
or account, that somebody typed with blanks: they are compared and make the username as typed (`Typed`), and are stored trimmed (`Trimmed`) except by
the agent's POST. `Present` are the tables a run may start from, whose members belong to `Old`. `met` remembers which
registrations were in flight together, `earlier` which had ended when one arrived.

`ApartMeansDistinct`: who registers after another has ended shares no name with that member, nor a phone or an account, unless
the later one typed it with blanks: 777-788 look for what was typed, 836-837 store it trimmed, and so such a person does get in. Blanks of the earlier
one do not matter. It is what is left of the validation messages once they run side by side. `SelfServedIsComplete`: success means that the member is there, with a turn when it is synchronised, unless the agent's
upsert, which overwrites what it meets, ran beside it. `TakenOnlyWhenFull`: a registration that met no other fails on a
taken username only when all slices of its phone are taken.

### TurnRecord

The `member_turn` row and the three keys with copies of it: `_turn_`, `_member_with_turn_` (`with`), and `_turn_auto` (`auto`), which keeps the answer of
Auto and AutoV2 for 5 s (`ExpireAuto`). A turn carries the number of the PUT that wrote it, its demand and `min_turn`; one game
type stands for the seven (they are in `TurnDiff`). A PUT may send demand and `min_turn` or leave either out (`Merged`), and a sent
`min_turn` of 0 waives the demand. Bets count since the last deposit (`bet`, `Deposit`); a report that does not find the deposit counts the day
(`today`), one of Sync perhaps nothing (`Reports`). A behaviour lies within one day. `UseTurn` is what each handler does with the turn it has found; `Found` is the same
after the synchronisation that PUT does first. WdCheck and SetMinturn save with `saveMemberTurn` (delete both keys, then save), Sync and PUT with
`updateMemberTurn` (save, delete, set, errors swallowed). `Gather` stands for the address, balance and bets that Auto asks for.
Requests overlap freely. A turn is *confirmed* (`confirmed`) when its PUT was answered with it and no other request was in flight beside that
PUT (`overlapped`); a PUT that overlaps may be undone, or hidden, by a handler that loaded the turn before it, which is the finding of `turn_race`.
`ConfirmedTurnKept` relates the row and both keys to the turn confirmed last; `PassMeansMet` says that while that is the
turn in force, WdCheck passes only when what it demanded has been bet since that PUT or was waived (`DemandMet`; `most` is the most that was counted); `AnswersAreConfirmed` says that no lookup
shows an older one, except an Auto answered from its copy of five seconds. Whatever comes after the confirmed PUT may overlap, fail or die.

### Paging

One client that walks through the list: `Select` reads a page, `Count` counts in a second query and
computes the metadata, `Retry` asks again after a lost answer; members `Join` and `Leave` at any point. A bulk insert gives many members one
`created_at`, and the query orders by nothing else, so which of them a page shows is open (`IsPage`). `due` are the members
that the walk must show: listed since it began, at a time of their own, with no newer one moved away. `WalkComplete` says that the metadata does not
end the walk before they are seen. A search by a known option ignores the page and takes the first rows each time; `KeywordShowsNewest` says so
of every page: who is left out of it has a page of newer matches, who is on it has less than a page of them among those that stayed in place. So later
matches are shown by no page, and `WalkComplete` asks for them only when one page was enough.

### TurnDiff

What `TurnRecord` abstracts to one number: the seven columns, the report of ALL_WINLOSE as a list, and the loop of
`calculateTurnDiff` over it, one entry per step. `Written(type)` are the keys that an entry writes (SL writes FH too), `Shown` is the first
key after the stable sort, `Finish` saves the minimum and answers. `AskFails` is the list of zeros that Sync makes up
when ALL_WINLOSE fails. A behaviour has one `order`: the service lists the types in the same order each time. `TurnVerdict` is the promise without loop
and sort: `Lacking(t)` is what the last entry that counts for a type leaves of its demand, the least of it is kept as
`min_turn`, and a refusal names a type together with what is lacking in that very type. `ImplementsVerdict` is the refinement; the loop is a
stutter there and `Finish` is `Judge`. `PassIsEarned` and
`RefusalIsJust` compare the answer with the bets; `PaidUpPasses` relates two checks: who bets the announced sum in the announced type is
not refused again. What does not hold: a member who met FH alone is refused when SL is listed after FH, as the
SL entry overwrites it; hence `RefusalIsJust` excepts FH.

## 4. The runs

Passing runs (all properties hold; sizes are distinct states):

| run | instance | shows | why the bound is enough |
|---|---|---|---|
| `withdraw_safety` | any two of the four handlers on one amount, caps 1 and 3 around it, balances 0 and 3, faults; 2.1 million | `TypeOK`, `PayoutCovered`, `RetryTakesNothing`, `OkMeansPaid`, `SyncGivesTurn`, `ImplementsPromise` | guard and cap involve at most two requests and the order of amount and cap; the theorems remove the bound |
| `withdraw_live` | any two of the three handlers that pay, amounts 0 and 2, no faults, fairness; 0.2 million | `TakenIsListed`, `EveryRequestEnds` | the refusals to look for are those of the code itself; two requests block each other only at the guard and at the insert |
| `withdraw_limits` | three withdrawals of 2 in any overlap, balance 6, 5 baht and one withdrawal a day, one midnight, no faults; 1.5 million | `AloneKeepsLimits` | two that overlap pass the count, and a third alone would pass the amount; one alone is stopped by the count; the theorem covers faults, other amounts and the second check of the count |
| `store_back_office` | three requests of fifteen kinds of handlers in any overlap, faults; 7.1 million | `TypeOK`, `ConfirmedKept`, `ConfirmedSeen`, `CountNeverDrops` | a change that ran alone, and two requests that overlap after it with a copy of its member; the theorems remove the bound |
| `reg_overlap` | three registrations through all endpoints in any overlap, people sharing phone, account or name, with and without blanks, an empty site and one with two of three slices taken, faults; 6.6 million | `TypeOK`, `ApartMeansDistinct`, `SelfServedIsComplete`, `TakenOnlyWhenFull` | the properties relate two registrations; a third comes in between; the crowded site leaves one free slice |
| `turn_overlap` | three requests of seven handlers in any overlap, a bet and a deposit in between, PUTs with and without each field, faults; 8.6 million | `TypeOK`, `ConfirmedTurnKept`, `PassMeansMet`, `AnswersAreConfirmed` | a turn is cached or loaded, put alone, and two requests that overlap save, cache or show what they hold; the theorems remove the bound |
| `turn_diff` | bets up to 2 in three types, demands 0 to 2, reports listing the three or fewer of them in any order before the other four, failures; 2.6 million | `TypeOK`, `PassIsEarned`, `RefusalIsJust`, `PaidUpPasses`, `ImplementsVerdict` | SL, FH and one independent type are all the loop distinguishes; two bets allow a partial step and a full one; the theorems remove the bound |
| `lookups` | three requests, two at a time, of nine handlers about two members, one called like the other's company, agent and username and with a company in capitals, one new domain, faults; 3.2 million | `TypeOK`, `SettledSeen`, `FlushedSeen`, `OneConfigRow`, `FlagEarned` | an answer is filled, a change runs alone, another request looks, and two may overlap; the theorems remove the bound |
| `paging` | five members, three times, pages of two, any number of moves and retries; 0.29 million | `TypeOK`, `WalkComplete`, `KeywordShowsNewest` | three pages, the last one partial, with ties inside and across pages; the theorems remove the bound |

Violation runs, each a disagreement between the code and what it tells its callers:

| run | property | what happens |
|---|---|---|
| `withdraw_concurrent_limit` | `DailyLimit` | a request for 4 arrives when one for 2 has been cut and not yet listed: its guard is another one, its check reads an empty day, and 6 are listed against the announced 5 |
| `store_put_password` | `PutPasswordKept` | after PUT Password answered "saved", the next withdrawal saves the cached member with the old password: a synchronised one in `saveMemberEntity` when it counts the withdrawal, any other in `saveMember` when it synchronises it |
| `turn_race` | `AnsweredMeansMet` | a WdCheck reads the row; a PUT saves, deletes and sets the key and is answered; the WdCheck now caches the row it read, whose `min_turn` is 0; a WdCheck that arrives after the answer passes on it although the row demands more |

Bounds are constants of the configurations, and `MaxDay` (midnights), `MaxBet` (bets), `InFlight` (requests at a time in `Lookups`) and
`MaxMoves` (changes of a site's domain) the only ones that appear in guards; the number of requests bounds everything else. Symmetry is over the interchangeable requests and used only where no liveness
property is checked. `CHECK_DEADLOCK FALSE` is set where the run looks for a violation and the end of the requests is
not of interest; elsewhere `Rest` marks the states in which nothing is left to do, and any other state without
a step would be reported.

### Fairness

Only `withdraw_live` assumes fairness: weak fairness of `Handle(r)`, the next step of a handler in flight. It says that an awaited call settles, one way or the other: Redis and Postgres clients
and axios reject when a connection breaks, and the event loop runs every continuation. A peer that accepts a connection
and stays silent for ever would contradict it, since no timeout is set; this is the assumption. Arrivals, the end of a ttl, bets, midnights and crashes are not assumed to happen.

## 5. The proofs

`WithdrawalProofs` proves, for every set of requests, every setting and every other constant:

| theorem | statement |
|---|---|
| `TypeCorrect` | `Spec => []TypeOK` |
| `PayoutsAreCovered`, `SuccessIsTrue` | `[]PayoutCovered`, `[]OkMeansPaid` |
| `RetriesTakeNothing` | `[]RetryTakesNothing` |
| `AloneWithinLimits` | `Spec => AloneKeepsLimits` |
| `HandlersImplementPromise` | `Spec => ImplementsPromise` |
| `TakenAreListed` | `[]TakenIsListed` |
| `FlagNeedsTurn` | `Spec => SyncGivesTurn` |

Assumptions: the named `ASSUME`s of `Withdrawal` (types of the constants, the report counts at least Withdraw, the trial transfer is
positive). Argument:

* `TypeOK` is inductive; `ControlStep` treats the labels and `DataStep` the data, one step per action.
* `PayoutCovered` is not inductive: that a listed amount is covered depends on what was read before the cut.
  `MoneyInvariant` says for each label what has been taken and what is still due: nothing before the cut, a balance read that is
  at least the amount before `cut`, a positive amount due not above what was cut at `list`, a covered listing afterwards.
* `RetryTakesNothing` needs `GuardInvariant`: a mark is set once, so one that was alive at the arrival
  of a request and is alive now was alive when the request looked, and the request has ended or not yet looked.
* `AloneKeepsLimits` needs `LimitInvariant`: requests in flight together are in `overlapped`, and from the check to the list
  there is room for a request that is not (`RoomLeft`: its check read the report that its entry will be added to). The count is
  compared with `==`, so room is only that the limit is not the number reached: a count that a race has carried past the limit
  stays past it, and the property says no more than the code does. A limit of no withdrawals at all (`Closed`) lets nobody
  through, overlapping or not; without that part the step from "no limit broken" would not be inductive.
* The refinement maps `Init` to `Init` and every step to a step of `CreditPayout` or a stutter (`StepRefines`, `EnvironmentRefines`),
  using both invariants.
* `TakenIsListed` needs to know that, without faults, whoever is past the list entry with credit taken has listed the amount due (`DueListed`).
* `SyncGivesTurn` needs `TurnBehindFlag`: whoever may save the flag has seen the turn row or inserted it.

`TurnDiffProofs` proves, for every demand and every list of the seven game types (also with a type missing or listed twice):

| theorem | statement |
|---|---|
| `TypeCorrect` | `Spec => []TypeOK` |
| `EarnedPass` | `[]PassIsEarned` |
| `JustRefusal` | `[]RefusalIsJust` |
| `PaidUpMembersPass` | `Spec => PaidUpPasses` |
| `LoopImplementsVerdict` | `Spec => ImplementsVerdict` |

They follow from `TurnInvariant`. Its core is the invariant of the loop, `DiffCorrect`: a difference is what is owed in some entry already looked at that
counts for its type, or it is still 0 and no such entry has been looked at. When the loop has ended (`ListExhausted`), a complete report has left no
difference at 0, which gives `EarnedPass` (`SmallestIsEarned`); `MinTurnEarned` carries it to later checks that pass on the saved
`min_turn`. A difference that FH has from SL ties with SL, which the sort puts first, so the shown type is always named with its own difference
(`ShownOwnDifference`), which gives `JustRefusal`. The two others need more, `VerdictInvariant`: the loop writes a key once more with each
entry that counts for it, so a difference is what the *last* such entry looked at says (`LastEntryCounts`), with SL before or after FH
(`FishingLast`). When the list is exhausted this is `Lacking` of the whole report (`LoopComputesLacking`), and `Finish` is a step `Judge` of
`TurnVerdict` (`FinishJudges`, `StepRefines`). And what was announced stays true of the next check (`AnnouncedSound`): with the same order,
the same entry decides, and the bets made since have covered what it lacked, which is `PaidUpPasses`.

`MemberStoreProofs` proves, for any number of overlapping requests:

| theorem | statement |
|---|---|
| `TypeCorrect` | `Spec => []TypeOK` |
| `BackOfficeKept`, `BackOfficeSeen` | `[]ConfirmedKept`, `[]ConfirmedSeen` |
| `CounterKept` | `Spec => CountNeverDrops` |

PUT Password is among the handlers: it puts nothing back behind what the others confirmed, although its own password may be put back
(`store_put_password`). `KeptInv` says that the row, both keys and every entity a
handler holds are at least as new as what is confirmed (`AllCurrent`). It is kept when a change is confirmed because that change ran alone
(`Apart`: two requests in flight know of each other), has its value in the row and has deleted both keys (`AloneKeeps`). `CountInv` says that until something is
torn, at most one withdrawal is in flight, and its copy and `_memberRepo_` have the counter of the row.

`LookupsProofs` proves, for any number of requests and members, and any names:

| theorem | statement |
|---|---|
| `TypeCorrect` | `Spec => []TypeOK` |
| `SettledStaysSeen`, `FlushReachesAll` | `[]SettledSeen`, `[]FlushedSeen` |
| `OneRowEach`, `FlagIsEarned` | `[]OneConfigRow`, `[]FlagEarned` |

What a handler has read is never older than what was settled or flushed (`RowsInv`, `ReadInv`), because a change is settled only if nobody was in flight beside it
(`AloneInv`); and what a change that runs alone has deleted stays deleted until it ends (`DeletedInv`). `LookedInv` says that a Realusername that runs
alone still finds no row where it found none, `EarnedInv` what the handler knows when it sets the flag.

`RegistrationProofs` proves, for every table there may be before (assuming that it holds different people, `PresentAssumption`), any applications and any overlap:

| theorem | statement |
|---|---|
| `TypeCorrect` | `Spec => []TypeOK` |
| `ApartAreDistinct` | `[]ApartMeansDistinct` |
| `SuccessIsComplete` | `[]SelfServedIsComplete` |
| `SlicesAreUsed` | `[]TakenOnlyWhenFull` |

`MetInv`, `ControlInv` and `RowInv` are the common base: who met whom, which labels belong to which endpoint, one row per username. On top of it,
`ChecksHold` says that who has passed a check does not share what it typed with the members of registrations it has not met,
and `EarlierInv` that those which had ended when it arrived are among these; what is stored is what was typed, unless with blanks; `NamesHeld`
that who was saved keeps its username; and usernames never become free again (`TakenStays`), so a slice that was tried stays taken.

`TurnRecordProofs` proves, for any bodies of PUT and any number of requests:

| theorem | statement |
|---|---|
| `TypeCorrect` | `Spec => []TypeOK`, in any overlap |
| `TurnKept`, `AnswersHold` | `[]ConfirmedTurnKept`, `AnswersAreConfirmed` |
| `PassIsMet` | `PassMeansMet` |

`RecordInv` has four parts. Two requests in flight know of each other (`Apart`). The row, the first key and the turn a handler holds are not older than
the confirmed one, carry the demand of the last PUT if they are of that PUT (`Demands`), and have `min_turn` 0 only if that demand is met or waived,
as soon as the last PUT is the confirmed one (`Settled`); `Stored` says it of what is stored, `Holds` of what is held, by step. `PutHolds` says that a
PUT that runs alone still has its turn in the row, and the second key deleted, when it is about to answer. A step that confirms nothing and at
most adds a PUT leaves all turns as good as they were (`Carried`, `CarriedTurn`); the one step that confirms is of a request that ran alone, so
nobody holds an older turn (`Frame`, `SetNewKeeps`).

`PagingProofs` proves, for every page size and any finite set of members:

| theorem | statement |
|---|---|
| `TypeCorrect` | `Spec => []TypeOK` |
| `WalkIsComplete`, `KeywordIsNewest` | `[]WalkComplete`, `[]KeywordShowsNewest` |

`WalkComplete` follows from `Behind`: whoever is due and not yet seen has at least as many newer members as the pages read have rows. A member
that joins can only push it back; a newer one that leaves makes it no longer due. When the metadata shows no next page, the count leaves
no room behind the last page. `KeywordShowsNewest` follows from `KeywordRows`: a page of such a search holds at most `Take` rows, and with each row
every match due that is newer than it.

Model-checked only: `EveryRequestEnds`, as liveness is out of reach of the prover.

## 6. What is not modelled

* `searchMemberByUsernameV2` never awaits its query builder and answers with no rows; the `getMemberPaginateBy…` variants, `generateAffid`,
  `updateSyncedMember` and the Rico synchronisation functions (`syncTurnV2`, `syncMemberCreditToV2`, `getPromotionV2ByRicoId`) have no callers.
* The Smart API controllers and the setting module are registered by no module: they never run.
* The agent's top-up and the Rico and support proxies pass a call on; they keep nothing and promise nothing about a retry.
* The imports of turns and provider names save rows as given, once, when a site moves. The imports of members are in `MemberStore`.
* `_SSID_` is written by the login and read by no code here; the JWT strategy keeps no state.
* Notices other than their failure, the wording of messages, dates other than the day, and money below the unit (amounts are whole).

External services are modelled by what the code relies on: SMART_V2 refuses a withdrawal above the balance, ALL_WITHDRAW adds up
what it was sent, ALL_WINLOSE reports bets, the provider answers whether it knows a name.

## 7. Plan

All modules of the inventory exist with their proofs. What would add to them:

1. A composition of `Withdrawal` with the turn of `TurnRecord`, in place of `ChangeTurn`, so that a turn put beside a withdrawal is followed through
   its caches.
2. Counterparts of the properties that hold only for requests that ran alone, should the code get a lock or a transaction.
