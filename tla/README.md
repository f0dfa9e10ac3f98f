# vacancies-scrapper: specification, model checking and proofs

The program collects vacancies from job sites that are described by YAML,
keeps them in one SQLite file and serves a local HTML/JSON interface over it.
This directory holds TLA+ modules of its core, the TLC runs that check them on
small instances and theorems about them that TLAPS checks for every value of
the constants. Paths below are relative to `src/`.

## 1. Inventory of the system

| Part | State it keeps | Operations | Talks to | What makes it hard |
|---|---|---|---|---|
| Store (`internal/storage`) | `sources`, `scraping_runs`, `vacancies`, `scraping_run_vacancies`, `vacancy_history` | `CreateSource`, `UpdateSource`, `StartRun`, `StartExclusiveRun`, `ApplyObservedVacancies`, `CompleteRun` (archives), `RecoverInterruptedRuns`, `UpdateVacancyUserStatus`, reads | SQLite, one connection per process | runs that overlap, late completions, archival that is destructive, recovery, rows read back after the commit |
| Run lifecycle (`executeSourceRunWithQuery`, `internal/runlog`) | a goroutine's locals | start, count, scrape, apply, complete, fail | store, scraper | five transactions and a scrape of up to 30 minutes in between; crashes; failing calls; a second process |
| Revisit plan (`internal/revisit`) | none | `Build` | lifecycle | off-by-one decides when vacancies may be archived |
| Scraper (`internal/scraper`) | a browser tab | `ScrapeWithQuery`, `loadAll`, `parseHTML`, `enrichDetails` | the site, the deadline | late cards, stop rules, partial failure of detail pages |
| Dry run (`internal/dryrun`) | token table in memory, behind a mutex | `Test`, `ConsumeToken` | scraper, HTTP handlers | a token is spent in one step and the row written in another |
| Source administration (`createSource`, `updateSource`, the HTML builder) | none of its own | POST, PATCH | dry run, store | read, change in memory, write back a whole row |
| Vacancy identity (`CanonicalizeLink`, `vacancyIdentity`) | none | link or fields to key | store | the same vacancy must keep its key |
| Migrations (`storage.Open`) | `schema_migrations`, a connection pragma | `applyMigrations` | SQLite | a crash between a migration and its check |
| Configuration (`internal/config`) | none | `Parse`, `Validate` | everything | rules that relate several fields |
| Dashboard, lists, routing | none | rendering, filtering | store | page and total are two reads |
| `internal/runner`, `cmd/vacancy-scraper` | none | `Service.Start`; one scrape to stdout | store; scraper | `Service.Start` is used by tests only, and the command persists nothing |

What makes each part correct:

* Store: a run ends once; a vacancy is archived only on the evidence of a
  complete success that did not see it; `last_run_id`, the composition of runs
  and the history agree; exclusive starts make `sources.status` a lock. (That
  collecting keeps the user's mark is said by `ObservedRow` and `ArchivedRow`
  alone, so it has no property.)
* Lifecycle: one collector per source, no run left open, answers that agree
  with the run log, counters that agree with the composition, archival only of
  what the site no longer lists.
* Scraper: the loop ends by one of its rules; every card's detail page is
  accounted for; every scrape ends; a deadline is a failure.
* Dry run and administration: only tested texts are stored, a token lets one
  write through, a PATCH never changes the operational status, a name that was
  not given follows the text.
* Identity: a link key names one posting, and a posting has one link key per
  host; a complete run leaves the rows the site shows, by the text the run
  began with.
* Migrations: the ledger agrees with the schema at every moment, an opened
  store enforces its keys, an identity is given once, and no crash or race
  leaves a file that cannot be opened again.
* Lists: a page agrees with the total it is answered with, the dashboard knows
  the source of every vacancy it shows, the latest runs are the newest.

`PROJECT.json` lists every hazard with its line and the properties that cover it.

## 2. The modules

| Module | Models | Extends / instantiates |
|---|---|---|
| `SourceLock` | the abstract promise of the run log: a lock per source, an attempt is over once | – |
| `VacancyStore` | `internal/storage`: the five tables, one action per transaction | `Lock == INSTANCE SourceLock WITH phase <- phase, owner <- owner` |
| `RevisitPlan` | `internal/revisit` | – |
| `RunLifecycle` | `executeSourceRunWithQuery`, `runlog.Finish`, `runlog.Fail`, `main` | `VacancyStore`, `RevisitPlan` |
| `StoreReads` | `internal/storage/read.go`, `LatestRuns`, `ListSources` and the limits of `internal/httpapi` | `VacancyStore` |
| `SourceConfig` | `internal/config`: the rules of `Parse` and `Validate` (pure) | – |
| `VacancyIdentity` | `CanonicalizeLink`, `vacancyIdentity`, the reading of a card (pure) | `SourceConfig` |
| `Collection` | runs with the text they have read, on a site, while PATCH replaces the text | `VacancyStore`, `RevisitPlan`, `VacancyIdentity` |
| `Migrations` | `storage.Open`, `applyMigrations`, both migration files | – |
| `SourceAdmin` | `internal/dryrun`, POST and PATCH of a source | – |
| `PageScrape` | `ScrapeWithQuery`, `runUISearch`, `loadAll`, `parseHTML`, `enrichDetails` | – |
| `SourceLock_proofs`, `VacancyStore_proofs`, `Migrations_proofs`, `SourceAdmin_proofs`, `PageScrape_proofs` | theorems | the module each is about |
| `RunLifecycle_proofs`, `StoreReads_proofs`, `Collection_proofs` | theorems | the module each is about and `VacancyStore_proofs` |
| `MC…` | constants for TLC | the modules they instantiate |

**VacancyStore.** One variable per table. A transaction is one step, because
the pool has one connection and SQLite serialises writers; an operation that
returns an error rolls back and is no step. `StartRun` and `CompleteRun` read
like the SQL: `CompleteAccepts` is `WHERE status = 'running'` together with the
primary key of `scraping_run_vacancies`, which makes a completion fail when it
would archive a vacancy the run has already observed (possible only when runs
overlap). `Firsts` is the map that skips repeated cards. A content stands for
title, company, salary and description; `Tracked` forgets the description,
which has no history. One history entry stands for the entries of all fields
that changed in one observation. Timestamps are left out here; `StoreReads`
has the one that decides an order.

**RunLifecycle.** A handler's `pc` names its next call; `job` holds the locals
that are used later. Each call is one step and has up to four outcomes: it
works; it is refused; it fails before the commit; or it commits and fails to
read the row back, which the code cannot tell from the former ("unread").
`Crash` forgets the handlers of a process; `Boot` is `RecoverInterruptedRuns`
followed by listening. Recovery does not look at who owns a run, so one process
recovers the live runs of another. `Scrape` is one step here: `site` may change
before it, and what the loop of pages does is `PageScrape`. A paginated source
yields any prefix of its listing that its plan allows. `listed` is a history
variable: what the site listed at the moment of the scrape. `pagination` is
chosen once per source and never changes; `Collection` has texts that change.
Whether `Parse` accepts a text (422) is a choice here, for the same reason.

**StoreReads.** A request is a list of statements (`Statements`), each one
step; `Written` is any step of the store's `ExclusiveNext` and comes between
any two of them. `Latest` orders runs by the text of `started_at` (`TextOf`:
RFC 3339 with a fraction that loses its trailing zeros). `quiet` is a history
variable: nothing a filter looks at was written since the count.

**SourceConfig, VacancyIdentity, Collection.** A text is the record of what
its rules and its runs look at; a selector is empty, of spaces, valid or
invalid. A link is a host with its case, a path, its query parameters in their
order and a fragment. `Encode` sorts what is left of a query by name, equal
names in the order they had (`Place`); the sort is written out, because what the
community modules have for it is recursive or `SelectSeq`, and neither can be
proved about. `Collection` leaves failing calls and crashes to
`RunLifecycle`; it gives each handler the text it has read, resolves links
against the page that was opened, overwrites what detail pages complete, and
names the rows of `VacancyStore` by `IdentityOf`. So `Keys` are identities here
and `Contents` what a card shows; `ReadingAssumption` says that the two sets
hold all that can be read of the postings (`ItemsOf`), but for a posting to
which the site gives no identity (`NoIdentity`). A site shows a set of
`Postings` in any order, the first perhaps twice, each with any of its `Hrefs`.
`SiteAssumption` says what the data model expects of a site: on one host the
links of a posting lead to one place and those of two postings to two
(`SameTarget`: same path, same parameters but for tracking ones). `sighted` is
a history variable.

**Migrations.** One step per statement of `Open`; a migration with its ledger
row is one step because it is one transaction. What belongs to the connection
(`enforced`, `rebuilt`) is lost with it. The file is new or one that the
release before the second migration has used, and may hold references to
vacancies that are gone, since foreign keys are a matter of each connection.

**SourceAdmin.** A request takes its steps separately: look up and delete the
token; insert. Or: read the row; look up and delete the token; write the row
back. A body gives or omits each field, and `NewRow` and `Patched` fill in what
is omitted as the handlers do. Runs change the status of rows in between.
`running`, `tested` and `writes` are history variables.

**PageScrape.** A step per browser call: navigation, a search by URL or by the
form on the page, the wait for the list, the rounds, the detail pages up to
their limit. `Listing` and `Found` are what the page and the site's own search
have to show, of any length; a parsed card is its place and what stands there.
Cards that a pagination asked for and results that a form asked
for arrive at any moment; the deadline passes at any moment. `quiet`, `cutOff`
and `stopSeen` are history variables.

Operators whose comment says `Mutant` are deliberate faults. Nothing in the
specifications uses them: they show for each property a plausible bug of the
code which the property detects (listed in `PROJECT.json`).

## 3. What the runs check

| Run | Question | Bounds |
|---|---|---|
| `store_overlap` | what callers cannot break, with overlapping runs | 1 source, 3 runs, 1 vacancy, 3 contents (two differ in the description only), listings of at most 1 card; 134 thousand states |
| `store_reads` | exclusive starts: lock, ownership, refinement of `SourceLock`; requests read in several statements | 2 sources, 2 runs, 1 key, started at 0.99 s or 1.00 s; limits 0, 2 and 3, offsets -1 and 1, with a default of 1, at most 2 per page and 1 latest run; 1.2 million states |
| `runs_one_server` | handlers against each other, the site, crashes, a failing database | 2 handlers, 3 runs, 2 vacancies, 4 listings, among them one vacancy on two cards that differ and a card without an identity, paginated or not, 2 failures; 533 thousand states |
| `runs_two_servers` | two processes on one file; the store's protocol (`StoreSpec`); liveness | 2 runs, 2 handlers, 1 vacancy, listings with and without a card that has no identity; 31 thousand states |
| `admin_races` | tokens and read-modify-write, field by field | 2 requests, 2 tokens, 2 sources, 2 slugs, 2 texts, 1 expiry; 451 thousand states |
| `page_loads` | search, stop rules, detail pages, deadline | 7 cards, pages of 2, 4 rounds, 2 quiet rounds, detail limit none or 4; 621 thousand states |
| `open_file` | migrations with crashes and a second process; liveness | 2 processes, 2 rows, 2 stops; 27 thousand states |
| `collects` | identity, stale text, what a complete run leaves | 2 handlers, 2 runs, 3 postings, texts with and without identity, search and pagination; 181 thousand states |

Why these bounds are enough for the interesting cases: three runs are needed
for one that has ended, one that is late and one that takes over; two handlers
for every race on one source (a third adds no new pair); two contents that
differ in the description only and one that differs in a tracked field reach
every branch of `applyObservedVacancy`; listings of two cards reach repeated
cards and a listing that lost one of two vacancies. `DefaultHeadMaxIterations`
and `DefaultFullEvery` are 0 and 2 instead of 3 and 5, so that a head pass
shows one card, a full pass two, and a full pass, a head pass and a full pass
again fit in three runs. Run ids are used once, as the UUIDs are; a request is
accepted only while an id is left (`IdLeft`), which bounds the behaviours and
hides nothing but a longer history. In `store_reads` two runs are enough: the
properties compare two runs, and whether the handover between three works is
`runs_one_server`'s question. `Instants` are the two whose order as text and
whose difference in seconds matter: the longer text is the earlier time. The
limits stand for none, one within the maximum and one above it, as 1, 2 and 1
stand for 50, 100 and 100. A token lives for the instant it was made in (`TTL` 0) and
the clock moves once (`MaxTime` 1), which is one expiry; `is_active` is never
given in `admin_races`, because it is copied like the schedule, and is given in
`find_config_reverts`. `MaxStops` is 2: one crash to leave a state behind and
one on the way back. `MaxFaults` is 2 in `runs_one_server` for the same reason:
one failing call that stops a run, one that should have recorded it. `Counts` and
`MaxCards` are bounds of the same kind. `collects` and `page_loads` do not check for deadlock: the first
ends when its run ids are used up, the second when the scrape has ended.
Symmetry is used for ids, keys, tokens and handlers of one process, never in a
run with a liveness property.

### Fairness

`FairLifecycleSpec` assumes that a handler that can take a step takes one and
that a stopped process is started again; `PageSpec` assumes that a browser call
returns; `MigrationsSpec` that a process goes on with `Open` and that one that
failed is started again. The first is what goroutines give: no call of a
handler waits for another handler except for the one connection, which is released after every
statement or transaction, and the scrape is bounded by `-run-timeout`. The
second is what the shared deadline gives. That a process is restarted is an
assumption about its operator, and it is needed: after a crash only `Boot`
frees the source. The liveness properties are checked without database
failures; with one they are false, see below.

### Where code and text disagree

Each of these runs states what a comment or a document of the repository says
and ends with TLC's counterexample:

* `find_search_archives`: a manual run with a search phrase, of a source
  without pagination, is completed as `complete`, so every vacancy that the
  phrase does not match is archived although the site lists it.
* `find_config_reverts`: a PATCH of the name that overlaps a PATCH of the YAML
  writes the old YAML back, without a token.
* `find_second_server`: a second `vacancy-server` on the same file fails the
  live runs of the first. `main` recovers before it binds its port, so this
  happens even when the second process then stops because the port is taken.
* `find_late_deadline`: a deadline that passes during the detail pages becomes
  a list of detail errors, and the run ends as `partial` with `200`.

Smaller ones met while modelling, stated here only:

* A run can be left open by a failing call. `StartExclusiveRun` commits, and the
  read of the row after it fails: the handler answers 500 and has no run to fail
  (`httpapi.go:516-518` says "leaving a source marked running after a failure"
  cannot happen). Or the failure of the site cannot be stored, which the code
  knows (`httpapi.go:585-587`). The source then stays `running` until a restart.
  `NoOrphanRun` says how far this goes: such a run has nothing on record, and it
  takes two failing calls to leave one open that has. `EveryRunEnds` needs
  `MaxFaults = 0` for this reason.
* `ArchivesOnlyDelisted` speaks of sources without pagination. A full pass calls
  itself complete also when it stopped at `max_iterations` or after quiet
  rounds, and then archives what lies beyond.
* `seen_count` is the number of cards, not of vacancies (`runlog.go:54`), while
  the other counters skip repeated cards.
* `parseHTML` keeps a link without a host (mail, script), which then aborts the
  observations of the whole run, as the card has no identity. `Collection` has
  such a posting, and `RefusedForDataOnly` shows that nothing else refuses one.
* `_docs/implementation/2026-09-05-fallback-identity.md:43-44` says that keys are
  checked after the table was rebuilt. After a failed check, or a crash that
  follows the commit, the ledger has the version and opening again skips the
  check; `RebuiltIsChecked` is only true of the process that rebuilt.
* Runs that start within one second are listed by their texts. A dot comes
  before a digit and a digit before `Z`, so the text of 1.51 s comes before the
  one of 1.5 s, and the one of 1 s after both: not "по времени начала"
  (`_docs/implementation/2026-09-06-backend-read-api.md:48`).
  `LatestRunsAreNewest` is therefore about seconds.
* A run that ends between the two statements of a listing makes its total and
  its page differ. `PageMatchesTotal` is about listings without one in between.
* The dashboard reads the runs after the sources, so a run may stand there
  without a name. `DashboardNamesVacancies` is about vacancies.
* A search template on another host gives relative links that host, so a
  posting collected with and without a phrase has two rows.
* A form search waits for the list selector, which the list from before the
  search satisfies: the old list may be collected.
* A detail selector of spaces counts as a field to read in `ValidateDetailPage`
  and reads nothing.
* A PATCH with `schedule_value` and without `schedule_type` changes nothing and
  is answered with 200; a token is spent before a body is refused with 422.

## 4. What is proved

`SourceLock_proofs`: `LockExcludes`, mutual exclusion of the abstract lock.

`VacancyStore_proofs`, for any finite sets of sources and keys and any sets of
runs, contents and marks (`ConstantsAssumption`, `NoRowAssumption`):

* `TypeCorrect`: `TypeOK` is invariant under arbitrary callers. One lemma per
  operation. Finiteness is needed because `archived` is a cardinality.
* `TerminalRunsAreFinal`: no step changes the row or the composition of a run
  that has ended. The guards of `CompleteRun` and `ApplyObservedVacancies` and
  the condition of recovery exclude each action in turn.
* `ArchivalIsWitnessed`: `TypeOK /\ ArchivedHasWitness` is inductive. A step
  that archives creates its own witness (`CompletedRunRow`); a witness that is
  there is terminal, so `TerminalStep` preserves it. This is why the run log's
  finality is proved first.
* `LockIsExact`: under exclusive starts `sources.status = 'running'` exactly
  while the source has a running run, and it has at most one. Neither half is
  inductive alone: uniqueness is kept by `MayStart` only because the status is
  set whenever a run is running, and the status may be cleared by a completion
  only because no second run exists.
* `StoreImplementsLock`: `ExclusiveSpec => Lock!Spec` with `phase` and `owner`
  read off the run rows. `LockMatchesRun` is the invariant the simulation
  needs: `MayStart` looks at the status, `Acquire` at the holders.
* `LastRunIsRecorded` and `StatusIsNeverStranded`: under arbitrary callers, so
  also where runs of one source overlap, `LastRunSawVacancy` and
  `SourceRunningHasRun` are each inductive together with `TypeOK`. The first
  holds because an observation stamps the row and the record in one step and
  archival writes records of other runs than the row's (`LastRunStep`); the
  second because each completion and recovery writes the sources of exactly the
  runs it closes (`StrandedStep`).
* `ActiveRowsStayOwned`: under exclusive starts `RunOwnsItsRows`. Not inductive
  alone: a second open run of the source could archive or restamp the row, which
  `LockMatchesRun` excludes, and a run could begin with records left over, which
  the strengthening `RecordsAreOfTheSource` excludes.

`Migrations_proofs`, for any number of processes, rows, links and stops
(`MigrationsAssumption`, `MigrationsNoRow`):

* `LedgerNeverLies`, `HandedOutReady`, `RebuilderChecks` and
  `IdentityIsGivenOnce` state the four safety properties of `open_file`. All
  follow from one inductive invariant, `MigrationsInv`
  (`MigrationsTypeCorrect`). Its part `Knows` says what a process may rely on at
  its place in `Open`: the versions before the one it looks at are recorded, its
  connection enforces keys except around the second migration, and what it
  rebuilt is whole once it has been checked. What a process has seen is never
  undone by another, because the ledger only grows and rows are never lost
  (`OthersKnow`); that the second look is not needed follows from the primary
  key of the ledger (`AppliedFile`: version 2 is missing and version 1 is
  recorded, so the schema is 1 and no row has a key yet).

`VacancyStore_proofs`, of what is on record, all under arbitrary callers:

* `ArchivedCountIsExact`: the number a run reports as archived is the number of
  records it has of them. Archival writes both in one step, and no later step
  writes records of a run that has ended.
* `VacanciesAreAddedOnce`: the strengthening is that a row whose vacancy is
  nowhere on record as new does not exist yet.
* `HistoryIsReplayable`: each entry begins with the value the one before it
  ended with, and the last ends at the row. An entry is written only by an
  observation that changes the row in the same step.
* `CompleteSuccessIsThorough`: a step property, from the guards of
  `CompleteRun` and `TypeOK`.

`RunLifecycle_proofs`, for any number of servers, handlers and failures and any
listings (`LifecycleAssumption`):

* `LifecycleImplementsStore`: every step of a handler, of recovery and of a
  crash is a step of `ExclusiveSpec` or leaves the tables alone. The inductive
  invariant is `LifecycleTypeOK` (`LifecycleTypeCorrect`). All theorems about
  `ExclusiveSpec` carry over with it.
* `OneServerKeepsRunsOpen`, `OneServerCollectsAlone`, `OneServerLeavesNoOrphan`
  have the hypothesis `OneServer`, without which they are false:
  `find_second_server` is the counterexample. Recovery is the reason. It happens
  only while the one process is down and has no handlers, so a handler's run is
  open until the handler ends it; `LockMatchesRun` then gives one collector.
  `RunsHaveOneHandler` (no two handlers carry the same run) holds for any number
  of servers, since run ids are used once. For `OneServerLeavesNoOrphan` the
  strengthening is `FailIsExplained`: a handler that is about to record a failure
  has nothing on record or has met a failing call, because the completion of an
  open run is never refused (`OpenRunCompletes`, from `RunOwnsItsRows` and
  `ArchivedCountIsRecorded`).
* `AnswersAreOnRecord` (`AnswersAreSound`): a success that was answered is on
  record as one, whatever fails and whoever recovers; a failure is, while no
  call has failed. `AnswersAreExact` is the property of the run: it follows when
  `MaxFaults = 0`, and with a failing database it is not what the code does.
* `ReportsAreOnRecord`: the counters a handler carries from one transaction to
  another are, at the time it stores them, still what the run has on record
  (`CountsAreSound`), because nobody else writes records of its run.
* `ArchivalKeepsRhythm`: the plan of an open run is the plan that would be made
  now (`PlansAreCurrent`), since the count it was made from can only move when a
  run of the source ends, and the source is taken. The rhythm then follows from
  the arithmetic of `Build`.
* `ArchivalMeansDelisted`: with `Narrowings` without TRUE, since
  `find_search_archives` shows that a phrase breaks it. `ListedIsOnRecord` says
  what a run has on record of the listing at each place.

`StoreReads_proofs` (`ReadsAssumption`): `ReadsImplementStore` carries
`LockIsExact`, `ActiveRowsStayOwned` and `StoreImplementsLock` over.
`PageFitsItsTotal` and `VacanciesAreNamed` follow from `ReaderInv`
(`ReadersAreConsistent`): what a request has read in an earlier statement and
still may rely on: the total while nothing was written, and that the sources of
a page exist, which holds because no row of `sources` is ever deleted.
`LatestAreNewestToTheSecond` is for any instants: two instants of different
seconds are ordered alike by their texts.

`SourceAdmin_proofs`, for any requests, tokens, texts and times
(`AdminAssumption`, `AdminNoRow`): `OnlyTestedIsStored`, `OneWritePerToken`,
`NameIsOfTheText` and `StatusStaysTheRuns` follow from `AdminInv`
(`AdminCorrect`). Its core is `SpendingIsExclusive`: between the look into the
token table and the write only one request holds the token, which is out of the
table and has let nothing through; and `JobIsSound`, what a request carries over
that gap. `RunsHaveRows` is needed because a POST gives a new row the status
idle.

`PageScrape_proofs`, for listings of any length, any plan and detail limit
(`PageAssumption`): `PageTypeCorrect`, `LoopEndsByRule`, `EveryDetailIsAccounted`
and `TemplateDecides` follow from `PageInv` (`PageInvariant`). `LoopCounts` ties
the counter of the loop to the observed quiet rounds and keeps it below its limit
as long as the loop goes on; `UrlShowsFound` says that nothing replaces a list
that was opened by its phrase.

`Collection_proofs`, for any texts, postings, links and orders
(`CollectionAssumption`, `ReadingAssumption`, `NamesAssumption`, and for the two
about the site's links `SiteAssumption`):

* `CollectionImplementsStore`: handlers with stale texts use the store only as
  `ExclusiveSpec` allows; `CollectionsAreThorough` states what follows.
* `OnlyDataIsRefused`: a handler with items is refused only for a posting
  without an identity. It needs that the run is open (`RunsAreHeld`) and has
  nothing on record before (`NothingRecordedEarly`), or the store would refuse
  for another reason.
* `CanonicalLinksAgree`: `CanonicalizeLink` of two links is the same exactly
  when they lead to one place (`SameTarget`), for queries of any length. Kept
  parameters are in one order (`BeforeIsOrder`), so their places are the numbers
  up to how many there are (`PlacesAreOrdered`, `PlacesAreTaken`, by counting);
  queries that match parameter by parameter have them at the same places
  (`MatchesEncodeAlike`), and queries that are encoded alike match place by place
  (`EncodedAlikeMatch`).
* `LinksNamePostings` is that theorem on the links of the site
  (`SiteAssumption`, from which `LinksTellThemApart` follows), with the invariant
  that a key on record is of a link of its posting (`SightedAreLinks`). A site
  that tells postings apart only by a parameter that is dropped as tracking does
  not satisfy the assumption, and on such a site the code confuses them.
* `CompleteRunsMirrorTheSite` is the strongest statement about the whole: a run
  that ends as a complete success leaves one active row for each posting it was
  shown, or one for each host of its links, and no other. The argument:
  while a run is open nobody else touches its record or the rows of its source
  (`OthersLeaveStored`, from `LockMatchesRun` and `RunsAreHeld`); so what it has
  applied is stored until it ends (`CompleteIsStored`); completion archives
  everything it has not on record, so its cards and the active rows are the
  same (`CompletionLeavesCards`, from `RunOwnsItsRows` and `LastRunSawVacancy`);
  and without a failed detail page cards name postings (`RowsMirrorItems`), by a
  bijection of rows and hosts in the case of links.

TLC checks each of these properties as well, on the instances above.

Only model-checked: the liveness properties `EveryRunEnds`, `EveryRequestEnds`,
`ScrapeEnds` and `EventuallyOpens`, since liveness under fairness and `ENABLED`
are out of the prover's reach; and the value of recursive definitions for all
inputs, which would be induction over data (`CanonicalizeLink` is not one: its
order is stated by counting). No module that has a theorem declares a RECURSIVE operator. Every
invariant and every action property of the passing runs is stated by a theorem.
`LifecycleTypeOK`, `AdminTypeOK`, `PageTypeOK` and `CollectionTypeOK` are the type
parts of the inductive invariants; no run lists them.

## 5. What is not modelled

* YAML decoding and the syntax of CSS selectors: one value each of a text
  (`known`, `"invalid"`). `Load` reads a file for the command only.
* HTML, templates, styles, logging, error messages, JSON and the routing table:
  no property is about them. Export and import of a text keep no state.
* The sort columns and the free-text filter of the lists: a page is any set of
  the selected rows of the right size.
* `LastRun` and `GetSourceBySlug`: called by tests only.
* `internal/runner`: neither command starts it. It opens runs with `StartRun`,
  which `VacancyStore` has and the theorems about arbitrary callers cover.
* `cmd/vacancy-scraper`: one scrape printed as JSON, which is `PageScrape` with
  a detail limit.
* The constructors that set a timeout, and the listener: `Boot` stands for them.

## 6. Plan

Done: the store, its abstract lock, migrations and their theorems; the lifecycle with
failures, crashes and a second process; administration; the scrape with its
search; identity and configuration composed with the store (`Collection`, which
also covers the text that is stale when a run uses it); lists and the order of
runs.

Theorems for every safety and action property of the runs and for the
refinements (`StoreSpec`, `LockSpec`).

Left:

1. `RevisitPlan`: `Build` stated against a reference definition, and from it that
   one of any `DefaultFullEvery` finishing runs is a full pass.
2. `Migrations`: with no stops left, what `EventuallyOpens` rests on as an
   invariant (no process is ever refused by what another has left).
3. The liveness properties stay with TLC.
