---------------------------- MODULE VacancyStore ----------------------------
(***************************************************************************)
(* The SQLite database behind the scraper (internal/storage): sources,     *)
(* scraping_runs, vacancies, scraping_run_vacancies and vacancy_history.   *)
(* Every operation of the store is one transaction on the one connection   *)
(* the pool has, so it is one action here; an operation that returns an    *)
(* error rolls its transaction back and is not a step.                     *)
(*                                                                         *)
(* Spec lets callers use the whole interface in any order, StartRun        *)
(* included.  ExclusiveSpec is the part the server uses: it opens runs     *)
(* with StartExclusiveRun only.                                            *)
(***************************************************************************)
EXTENDS Integers, Sequences, FiniteSets

CONSTANTS
  Sources,       \* source ids
  RunIds,        \* run ids (fresh UUIDs: a run id is used at most once)
  Keys,          \* identity keys of vacancies within one source
  Contents,      \* what a card shows: title, company, salary, description
  Tracked,       \* the part of a content that has a history (no description)
  UserStatuses,  \* "new", "viewed", "hidden"
  Counts,        \* the counters a caller may report for a run
  MaxCards,      \* bound on the cards of one listing
  NoRow,         \* a row that does not exist
  NoKey          \* the key of a card whose identity cannot be computed

ASSUME ConstantsAssumption ==
  /\ IsFiniteSet(Sources) /\ IsFiniteSet(Keys)
  /\ "new" \in UserStatuses
  /\ Counts \subseteq Nat /\ 0 \in Counts
  /\ MaxCards \in Nat
  /\ NoKey \notin Keys

Vacancies == Sources \X Keys
Terminal  == {"success", "partial", "failed"}
Completions == {"complete", "incomplete", "unknown"}
SourceStatuses == {"idle", "running"} \cup Terminal
Observations == {"added", "updated", "unchanged"}

RunRow == [source : Sources, status : {"running"} \cup Terminal,
           completion : Completions, added : Nat, updated : Nat,
           archived : Nat, seen : Nat]
VacancyRow == [content : Contents, listing : {"active", "archived"},
               user : UserStatuses, lastRun : RunIds]

(* The old and new value of one change of the tracked fields.               *)
Values == {Tracked[c] : c \in Contents}
HistoryRow == [run : RunIds, old : Values, new : Values]

ASSUME NoRowAssumption ==
  NoRow \notin SourceStatuses \cup RunRow \cup VacancyRow

(* The cards of one scraped listing, in document order. *)
Card  == [key : Keys \cup {NoKey}, content : Contents]
Cards == UNION {[1..n -> Card] : n \in 0..MaxCards}

VARIABLES
  sources,      \* table sources: the status of each source
  runs,         \* table scraping_runs
  vacancies,    \* table vacancies
  composition,  \* table scraping_run_vacancies: run, vacancy -> disposition
  history       \* table vacancy_history: per vacancy, oldest change first

storeVars == <<sources, runs, vacancies, composition, history>>

-----------------------------------------------------------------------------
(* Reading the tables *)

RunIs(r, status) == runs[r] # NoRow /\ runs[r].status = status

Recorded(r, dispositions) == {v \in Vacancies : composition[r][v] \in dispositions}

(* The number of runs that count towards the revisit rhythm. *)
CountTerminalNonFailedRuns(s) ==
  Cardinality({r \in RunIds : runs[r] # NoRow /\ runs[r].source = s
                              /\ runs[r].status \in {"success", "partial"}})

-----------------------------------------------------------------------------
(* Sources and the start of a run *)

CreateSource(s) ==
  /\ sources[s] = NoRow
  /\ sources' = [sources EXCEPT ![s] = "idle"]
  /\ UNCHANGED <<runs, vacancies, composition, history>>

OpenedRun(s) == [source |-> s, status |-> "running", completion |-> "unknown",
                 added |-> 0, updated |-> 0, archived |-> 0, seen |-> 0]

StartRun(s, r) ==
  /\ sources[s] # NoRow
  /\ runs[r] = NoRow
  /\ sources' = [sources EXCEPT ![s] = "running"]
  /\ runs' = [runs EXCEPT ![r] = OpenedRun(s)]
  /\ UNCHANGED <<vacancies, composition, history>>

(* Mutant: the UPDATE has lost its "AND status != running".                 *)
MayStartAlways(s) == sources[s] # NoRow

(* The exclusive start takes the source only when no run already has it. *)
MayStart(s) == sources[s] \notin {NoRow, "running"}

StartExclusiveRun(s, r) == MayStart(s) /\ StartRun(s, r)

-----------------------------------------------------------------------------
(* The observations of a run *)

(* A listing may show one vacancy on several cards: the first card counts. *)
Firsts(cards) ==
  {i \in DOMAIN cards : \A j \in 1..(i - 1) : cards[j].key # cards[i].key}

Observed(r, cards) == {<<runs[r].source, cards[i].key>> : i \in Firsts(cards)}

ContentOf(cards, v) ==
  cards[CHOOSE i \in Firsts(cards) : cards[i].key = v[2]].content

(* Mutant: a vacancy that was archived counts as a new one.                 *)
DispositionReAdds(v, content) ==
  IF vacancies[v] = NoRow \/ vacancies[v].listing # "active" THEN "added"
  ELSE IF content # vacancies[v].content THEN "updated" ELSE "unchanged"

Disposition(v, content) ==
  IF vacancies[v] = NoRow THEN "added"
  ELSE IF content # vacancies[v].content \/ vacancies[v].listing # "active"
       THEN "updated" ELSE "unchanged"

(* Mutant: every card is counted, the repeated ones too.                    *)
DeltaOfCards(r, cards, d) ==
  Cardinality({i \in DOMAIN cards :
    Disposition(<<runs[r].source, cards[i].key>>, cards[i].content) = d})

(* How many of the observed vacancies get the disposition d. *)
Delta(r, cards, d) ==
  Cardinality({v \in Observed(r, cards) : Disposition(v, ContentOf(cards, v)) = d})

(* One card without an identity aborts the transaction, and so does a       *)
(* second row for one run and vacancy (the table's primary key).            *)
ApplyAccepts(r, cards) ==
  /\ RunIs(r, "running")
  /\ \A i \in DOMAIN cards : cards[i].key # NoKey
  /\ \A v \in Observed(r, cards) : composition[r][v] = "none"

(* Mutants: the row is inserted without a mark; an unchanged vacancy keeps  *)
(* the run that saw it before.                                              *)
ObservedRowUnmarked(r, v, content) ==
  [content |-> content, listing |-> "active",
   user |-> IF vacancies[v] = NoRow THEN NoRow ELSE vacancies[v].user,
   lastRun |-> r]

ObservedRowKeepsRun(r, v, content) ==
  [content |-> content, listing |-> "active",
   user |-> IF vacancies[v] = NoRow THEN "new" ELSE vacancies[v].user,
   lastRun |-> IF vacancies[v] # NoRow /\ vacancies[v].content = content
               THEN vacancies[v].lastRun ELSE r]

(* The row an observed vacancy has after the run: the user's mark is kept. *)
ObservedRow(r, v, content) ==
  [content |-> content, listing |-> "active",
   user |-> IF vacancies[v] = NoRow THEN "new" ELSE vacancies[v].user,
   lastRun |-> r]

(* Mutant: every update has a history, a new description too.               *)
ChangeOfAnything(r, v, content) ==
  IF vacancies[v] # NoRow /\ vacancies[v].content # content
  THEN <<[run |-> r, old |-> Tracked[vacancies[v].content], new |-> Tracked[content]]>>
  ELSE <<>>

Change(r, v, content) ==
  IF vacancies[v] # NoRow /\ Tracked[vacancies[v].content] # Tracked[content]
  THEN <<[run |-> r, old |-> Tracked[vacancies[v].content], new |-> Tracked[content]]>>
  ELSE <<>>

ApplyObservedVacancies(r, cards) ==
  /\ ApplyAccepts(r, cards)
  /\ LET seen == Observed(r, cards)
     IN /\ vacancies' = [v \in Vacancies |->
             IF v \in seen THEN ObservedRow(r, v, ContentOf(cards, v)) ELSE vacancies[v]]
        /\ composition' = [composition EXCEPT ![r] = [v \in Vacancies |->
             IF v \in seen THEN Disposition(v, ContentOf(cards, v)) ELSE @[v]]]
        /\ history' = [v \in Vacancies |->
             IF v \in seen THEN history[v] \o Change(r, v, ContentOf(cards, v)) ELSE history[v]]
  /\ UNCHANGED <<sources, runs>>

-----------------------------------------------------------------------------
(* The end of a run *)

(* Mutants: a success is enough; anything not known to be incomplete is.    *)
ArchivesOnSuccess(status, completion) == status = "success"

ArchivesUnlessIncomplete(status, completion) == completion # "incomplete"

(* Only a complete success proves that an unseen vacancy is gone. *)
Archives(status, completion) == status = "success" /\ completion = "complete"

(* Mutant: what a run that is still open has seen is left alone.            *)
UnseenByAnyOpenRun(r) == {v \in Vacancies :
  /\ v[1] = runs[r].source
  /\ vacancies[v] # NoRow
  /\ vacancies[v].listing = "active"
  /\ ~RunIs(vacancies[v].lastRun, "running")}

Unseen(r) == {v \in Vacancies : /\ v[1] = runs[r].source
                                /\ vacancies[v] # NoRow
                                /\ vacancies[v].listing = "active"
                                /\ vacancies[v].lastRun # r}

ToArchive(r, status, completion) ==
  IF Archives(status, completion) THEN Unseen(r) ELSE {}

(* Mutant: the UPDATE has lost its "AND status = running".                  *)
CompleteAcceptsAgain(r, status, completion) ==
  /\ runs[r] # NoRow
  /\ \A v \in ToArchive(r, status, completion) : composition[r][v] = "none"

CompleteAccepts(r, status, completion) ==
  /\ RunIs(r, "running")
  /\ \A v \in ToArchive(r, status, completion) : composition[r][v] = "none"

(* Mutant: the number of unseen vacancies is stored whatever was archived.  *)
CompletedRunCountsUnseen(r, status, completion, counts) ==
  [runs[r] EXCEPT !.status = status, !.completion = completion,
     !.added = counts.added, !.updated = counts.updated, !.seen = counts.seen,
     !.archived = Cardinality(Unseen(r))]

CompletedRun(r, status, completion, counts) ==
  [runs[r] EXCEPT !.status = status, !.completion = completion,
     !.added = counts.added, !.updated = counts.updated, !.seen = counts.seen,
     !.archived = Cardinality(ToArchive(r, status, completion))]

(* Mutant: archiving stamps the run on the row as an observation does.      *)
ArchivedRowOf(r, v) == [vacancies[v] EXCEPT !.listing = "archived", !.lastRun = r]

ArchivedRow(r, v) == [vacancies[v] EXCEPT !.listing = "archived"]

CompleteRun(r, status, completion, counts) ==
  /\ CompleteAccepts(r, status, completion)
  /\ LET gone == ToArchive(r, status, completion)
     IN /\ vacancies' = [v \in Vacancies |->
             IF v \in gone THEN ArchivedRow(r, v) ELSE vacancies[v]]
        /\ composition' = [composition EXCEPT ![r] = [v \in Vacancies |->
             IF v \in gone THEN "archived" ELSE @[v]]]
        /\ runs' = [runs EXCEPT ![r] = CompletedRun(r, status, completion, counts)]
  /\ sources' = [sources EXCEPT ![runs[r].source] = status]
  /\ UNCHANGED history

CountsGiven == [added : Counts, updated : Counts, seen : Counts]

(* Mutant: the sources are selected after the runs have been closed.        *)
InterruptedNone == {}

(* The sources of the runs that are still running, read before the runs     *)
(* are closed in the same transaction.                                      *)
Interrupted == {runs[r].source : r \in {q \in RunIds : RunIs(q, "running")}}

RecoverInterruptedRuns ==
  /\ sources' = [s \in Sources |-> IF s \in Interrupted THEN "failed" ELSE sources[s]]
  /\ runs' = [r \in RunIds |->
       IF RunIs(r, "running")
       THEN [runs[r] EXCEPT !.status = "failed", !.completion = "unknown"]
       ELSE runs[r]]
  /\ UNCHANGED <<vacancies, composition, history>>

-----------------------------------------------------------------------------
(* The user's own mark on a vacancy *)

UpdateVacancyUserStatus(v, status) ==
  /\ vacancies[v] # NoRow
  /\ vacancies' = [vacancies EXCEPT ![v].user = status]
  /\ UNCHANGED <<sources, runs, composition, history>>

-----------------------------------------------------------------------------
Init ==
  /\ sources = [s \in Sources |-> NoRow]
  /\ runs = [r \in RunIds |-> NoRow]
  /\ vacancies = [v \in Vacancies |-> NoRow]
  /\ composition = [r \in RunIds |-> [v \in Vacancies |-> "none"]]
  /\ history = [v \in Vacancies |-> <<>>]

ExclusiveNext ==
  \/ \E s \in Sources : CreateSource(s)
  \/ \E s \in Sources, r \in RunIds : StartExclusiveRun(s, r)
  \/ \E r \in RunIds, cards \in Cards : ApplyObservedVacancies(r, cards)
  \/ \E r \in RunIds, status \in Terminal, completion \in Completions,
        counts \in CountsGiven : CompleteRun(r, status, completion, counts)
  \/ RecoverInterruptedRuns
  \/ \E v \in Vacancies, status \in UserStatuses : UpdateVacancyUserStatus(v, status)

Next ==
  \/ ExclusiveNext
  \/ \E s \in Sources, r \in RunIds : StartRun(s, r)

Spec == Init /\ [][Next]_storeVars
ExclusiveSpec == Init /\ [][ExclusiveNext]_storeVars

-----------------------------------------------------------------------------
(* Every table holds rows of its own shape, and every counter is a number.  *)
TypeOK ==
  /\ sources \in [Sources -> SourceStatuses \cup {NoRow}]
  /\ runs \in [RunIds -> RunRow \cup {NoRow}]
  /\ vacancies \in [Vacancies -> VacancyRow \cup {NoRow}]
  /\ composition \in [RunIds -> [Vacancies -> Observations \cup {"none", "archived"}]]
  /\ history \in [Vacancies -> Seq(HistoryRow)]

(* A vacancy is archived only on the evidence of a complete, successful run *)
(* of its own source that recorded it as archived (archiveUnseenVacancies   *)
(* called from CompleteRun), whatever the callers do before and after.      *)
ArchivedHasWitness ==
  \A v \in Vacancies :
    vacancies[v] # NoRow /\ vacancies[v].listing = "archived" =>
      \E r \in RunIds : /\ RunIs(r, "success")
                        /\ runs[r].completion = "complete"
                        /\ runs[r].source = v[1]
                        /\ composition[r][v] = "archived"

(* The archived_count a run reports is the number of archived rows in its   *)
(* composition, and a run that is running, partial or failed has none:      *)
(* CompleteRun overwrites whatever the caller claims.                       *)
ArchivedCountIsRecorded ==
  \A r \in RunIds :
    runs[r] # NoRow =>
      /\ runs[r].archived = Cardinality(Recorded(r, {"archived"}))
      /\ Recorded(r, {"archived"}) # {} => Archives(runs[r].status, runs[r].completion)

(* last_run_id always names a run of the vacancy's own source that has an   *)
(* observation of it on record, so archival never compares with a run that  *)
(* did not see it.                                                          *)
LastRunSawVacancy ==
  \A v \in Vacancies :
    vacancies[v] # NoRow =>
      /\ runs[vacancies[v].lastRun] # NoRow
      /\ runs[vacancies[v].lastRun].source = v[1]
      /\ composition[vacancies[v].lastRun][v] \in Observations

(* A vacancy enters the log exactly once: it exists if and only if exactly  *)
(* one run recorded it as added; being archived and shown again is an       *)
(* update, not a second addition (applyObservedVacancy).                    *)
AddedOnce ==
  \A v \in Vacancies :
    Cardinality({r \in RunIds : composition[r][v] = "added"})
      = IF vacancies[v] = NoRow THEN 0 ELSE 1

(* The history of a vacancy can be replayed: each change starts where the   *)
(* one before it ended, the last one ends at what the row holds now, each   *)
(* belongs to a run that recorded an update, and no run has two (the row id *)
(* is a digest of run, vacancy and field, so a second one would collide).   *)
HistoryChain ==
  \A v \in Vacancies :
    LET h == history[v] IN
      /\ \A i \in DOMAIN h : h[i].old # h[i].new
      /\ \A i \in 1..(Len(h) - 1) : h[i].new = h[i + 1].old
      /\ h # <<>> => /\ vacancies[v] # NoRow
                     /\ h[Len(h)].new = Tracked[vacancies[v].content]
      /\ \A i \in DOMAIN h : composition[h[i].run][v] = "updated"
      /\ \A i, j \in DOMAIN h : h[i].run = h[j].run => i = j

(* A source that says it is running has a run that can still end it: no     *)
(* order of starts, completions and recoveries strands the status.          *)
SourceRunningHasRun ==
  \A s \in Sources :
    sources[s] = "running" => \E r \in RunIds : RunIs(r, "running") /\ runs[r].source = s

(* A run ends once: after its terminal update nothing changes its row or    *)
(* its composition, neither a late completion nor late observations nor a   *)
(* recovery (the status guards of CompleteRun and ApplyObservedVacancies).  *)
TerminalIsFinal ==
  [][\A r \in RunIds : runs[r] # NoRow /\ runs[r].status \in Terminal =>
       runs'[r] = runs[r] /\ composition'[r] = composition[r]]_storeVars

(* When a run ends as a complete success, every vacancy of its source that  *)
(* stays active is one it saw, even if another run of that source was open  *)
(* at the same time.                                                        *)
CompleteSuccessLeavesOnlySeen ==
  [][\A r \in RunIds :
       /\ RunIs(r, "running")
       /\ Archives(runs'[r].status, runs'[r].completion)
       => \A v \in Vacancies :
            /\ v[1] = runs[r].source
            /\ vacancies'[v] # NoRow
            /\ vacancies'[v].listing = "active"
            => vacancies'[v].lastRun = r]_storeVars

-----------------------------------------------------------------------------
(* Under exclusive starts the status column of a source is exactly a lock   *)
(* that its one running run holds.                                          *)
LockMatchesRun ==
  /\ \A s \in Sources :
       sources[s] = "running" <=> \E r \in RunIds : RunIs(r, "running") /\ runs[r].source = s
  /\ \A r, q \in RunIds :
       RunIs(r, "running") /\ RunIs(q, "running") /\ runs[r].source = runs[q].source => r = q

(* Under exclusive starts what a running run has observed stays active and  *)
(* stays its own until it ends, so no completion can fail on a row the run  *)
(* already has in its composition.                                          *)
RunOwnsItsRows ==
  \A r \in RunIds :
    RunIs(r, "running") =>
      \A v \in Recorded(r, Observations) :
        vacancies[v] # NoRow /\ vacancies[v].lastRun = r /\ vacancies[v].listing = "active"

(* The run log implements the abstract lock, with the run rows as its state. *)
phase == [r \in RunIds |-> IF runs[r] = NoRow THEN "new" ELSE runs[r].status]
owner == [r \in RunIds |-> IF runs[r] = NoRow THEN NoRow ELSE runs[r].source]

Lock == INSTANCE SourceLock WITH phase <- phase, owner <- owner
LockSpec == Lock!Spec
=============================================================================
