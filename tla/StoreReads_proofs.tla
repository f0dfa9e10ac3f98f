-------------------------- MODULE StoreReads_proofs --------------------------
(***************************************************************************)
(* Theorems about what is read from the store while runs write to it, for  *)
(* any filters, limits, offsets and instants: the writes are those of      *)
(* ExclusiveSpec, so what VacancyStore_proofs shows of it holds here too;  *)
(* and what two statements of one answer say fits together.                *)
(***************************************************************************)
EXTENDS StoreReads, VacancyStore_proofs

-----------------------------------------------------------------------------
(* Readers change nothing *)

LEMMA ReadsUseStore ==
  ASSUME [ReadsNext]_readVars
  PROVE  [ExclusiveNext]_storeVars
BY DEF ReadsNext, readVars, Ask, Read, CountRows, SelectPage, SelectSources, SelectRuns,
       Answer, Written, storeVars

(* The store under its readers is the store of ExclusiveSpec.               *)
LEMMA ReadsImplementStore == ReadsSpec => ExclusiveSpec
<1>1. ReadsInit => Init
  BY DEF ReadsInit
<1>2. [ReadsNext]_readVars => [ExclusiveNext]_storeVars
  BY ReadsUseStore
<1> QED BY <1>1, <1>2, PTL DEF ReadsSpec, ExclusiveSpec

(* Under readers, the status of a source is still the lock its run holds,   *)
THEOREM ReadersKeepLockExact == ReadsSpec => []LockMatchesRun
BY ReadsImplementStore, LockIsExact

(* a run still owns what it has seen,                                       *)
THEOREM ReadersKeepOwnership == ReadsSpec => []RunOwnsItsRows
BY ReadsImplementStore, ActiveRowsStayOwned

(* and the run log still implements the lock.                               *)
THEOREM ReadersKeepLock == ReadsSpec => LockSpec
BY ReadsImplementStore, StoreImplementsLock

-----------------------------------------------------------------------------
(* Sources stay *)

(* A source that exists does not go, whatever the step.                     *)
LEMMA SourcesStay ==
  ASSUME TypeOK, [Next]_storeVars, NEW s \in Sources, sources[s] # NoRow
  PROVE  sources'[s] # NoRow
<1>1. \A status \in SourceStatuses : status # NoRow
  BY NoRowAssumption
<1>2. /\ {"idle", "running", "failed"} \subseteq SourceStatuses
      /\ Terminal \subseteq SourceStatuses
  BY DEF SourceStatuses, Terminal
<1>3. ASSUME NEW t \in Sources, NEW r \in RunIds, StartRun(t, r) PROVE sources'[s] # NoRow
  BY <1>1, <1>2, <1>3 DEF StartRun, TypeOK
<1>4. ASSUME NEW r \in RunIds, NEW status \in Terminal, NEW completion \in Completions,
             NEW counts \in CountsGiven, CompleteRun(r, status, completion, counts)
      PROVE  sources'[s] # NoRow
  BY <1>1, <1>2, <1>4 DEF CompleteRun, TypeOK
<1>5. CASE RecoverInterruptedRuns
  BY <1>1, <1>2, <1>5 DEF RecoverInterruptedRuns
<1>6. ASSUME NEW t \in Sources, CreateSource(t) PROVE sources'[s] # NoRow
  BY <1>6 DEF CreateSource, TypeOK
<1>7. CASE sources' = sources
  BY <1>7
<1> QED BY <1>3, <1>4, <1>5, <1>6, <1>7
        DEF Next, ExclusiveNext, StartExclusiveRun, ApplyObservedVacancies,
            UpdateVacancyUserStatus, storeVars

(* A run belongs to a source that exists.                                   *)
RunsHaveSources == \A r \in RunIds : runs[r] # NoRow => sources[runs[r].source] # NoRow

LEMMA RunsHaveSourcesStep ==
  ASSUME TypeOK, RunsHaveSources, [Next]_storeVars
  PROVE  RunsHaveSources'
<1> SUFFICES ASSUME NEW r \in RunIds, runs'[r] # NoRow
             PROVE  sources'[runs'[r].source] # NoRow
  BY DEF RunsHaveSources
<1>1. CASE runs[r] # NoRow
  <2>1. runs'[r].source = runs[r].source /\ runs[r].source \in Sources
    BY <1>1, RunsStay, RowShapes DEF RunRow
  <2> QED BY <1>1, <2>1, SourcesStay DEF RunsHaveSources
<1>2. CASE runs[r] = NoRow
  <2>1. ASSUME NEW s \in Sources, NEW q \in RunIds, StartRun(s, q)
        PROVE  sources'[runs'[r].source] # NoRow
    <3>1. q = r /\ runs'[r].source = s
      BY <1>2, <2>1, OpenedRunRow
    <3>2. sources[s] # NoRow
      BY <2>1 DEF StartRun
    <3> QED BY <2>1, <3>1, <3>2, SourcesStay
  <2>2. ASSUME NEW q \in RunIds, NEW status \in Terminal, NEW completion \in Completions,
               NEW counts \in CountsGiven, CompleteRun(q, status, completion, counts)
        PROVE  FALSE
    BY <1>2, <2>2 DEF CompleteRun, CompleteAccepts, RunIs, TypeOK
  <2>3. ~RecoverInterruptedRuns
    BY <1>2, RecoveredRows DEF RunIs
  <2> QED BY <1>2, <2>1, <2>2, <2>3
          DEF Next, ExclusiveNext, StartExclusiveRun, CreateSource, ApplyObservedVacancies,
              UpdateVacancyUserStatus, storeVars
<1> QED BY <1>1, <1>2

(* So does a vacancy.                                                       *)
LEMMA VacanciesHaveSources ==
  ASSUME TypeOK, RunsHaveSources, LastRunSawVacancy, NEW v \in Vacancies, vacancies[v] # NoRow
  PROVE  v[1] \in Sources /\ sources[v[1]] # NoRow
<1>1. vacancies[v].lastRun \in RunIds
  BY RowShapes DEF VacancyRow
<1> QED BY <1>1 DEF RunsHaveSources, LastRunSawVacancy, Vacancies

-----------------------------------------------------------------------------
(* What a request has read *)

DashboardLeft == {<<"count", "page", "sources", "runs">>, <<"page", "sources", "runs">>,
                  <<"sources", "runs">>, <<"runs">>, <<>>}
VacanciesLeft == {<<"count", "page">>, <<"page">>, <<>>}
RunsLeft      == {<<"runs">>, <<>>}

Asked == [kind : {"dashboard", "vacancies", "runs"},
          todo : DashboardLeft \cup VacanciesLeft \cup RunsLeft,
          filter : Filters, limit : 1..MaxLimit, offset : Nat, total : Nat,
          page : SUBSET Vacancies, named : SUBSET Sources, latest : SUBSET RunIds]

(* A request is read for with the statements of its kind, in their order.   *)
ReaderShape ==
  \/ reader = Resting
  \/ /\ reader \in Asked
     /\ reader.kind = "dashboard" => reader.todo \in DashboardLeft
     /\ reader.kind = "vacancies" => reader.todo \in VacanciesLeft
     /\ reader.kind = "runs" => reader.todo \in RunsLeft

PageIsRead  == /\ reader.kind \in {"dashboard", "vacancies"}
               /\ reader.todo \in {<<"sources", "runs">>, <<"runs">>, <<>>}
NamesAreRead == reader.kind = "dashboard" /\ reader.todo \in {<<"runs">>, <<>>}

(* While nothing is written, the total is what the page is cut from; and    *)
(* the page, once it is read, is what total, limit and offset say.          *)
TotalHolds == quiet /\ Reads("page") => reader.total = CountSelected(reader.filter)
PageHolds  == quiet /\ PageIsRead =>
                Cardinality(reader.page) = RowsOfPage(reader.total, reader.limit, reader.offset)

(* The sources of the page exist, before their names are read and after.    *)
SourcesHold == PageIsRead => \A v \in reader.page : sources[v[1]] # NoRow
NamesHold   == NamesAreRead => \A v \in reader.page : v[1] \in reader.named

LatestIsUnread == reader.todo # <<>> => reader.latest = {}

ReaderInv == ReaderShape /\ TotalHolds /\ PageHolds /\ SourcesHold /\ NamesHold /\ LatestIsUnread

(* A run that has started has the instant it started at.                    *)
InstantsHold == startedAt \in [RunIds -> Instants \cup {NoRow}]
                /\ \A r \in Started : startedAt[r] \in Instants

(* The statements of a request, one by one.                                 *)
LEMMA HeadsAndTails ==
  /\ LET todo == <<"count", "page", "sources", "runs">>
     IN todo # <<>> /\ Head(todo) = "count" /\ Tail(todo) = <<"page", "sources", "runs">>
  /\ LET todo == <<"page", "sources", "runs">>
     IN todo # <<>> /\ Head(todo) = "page" /\ Tail(todo) = <<"sources", "runs">>
  /\ LET todo == <<"sources", "runs">>
     IN todo # <<>> /\ Head(todo) = "sources" /\ Tail(todo) = <<"runs">>
  /\ LET todo == <<"count", "page">>
     IN todo # <<>> /\ Head(todo) = "count" /\ Tail(todo) = <<"page">>
  /\ LET todo == <<"page">> IN todo # <<>> /\ Head(todo) = "page" /\ Tail(todo) = <<>>
  /\ LET todo == <<"runs">> IN todo # <<>> /\ Head(todo) = "runs" /\ Tail(todo) = <<>>
OBVIOUS

(* What each statement finds of the request, and what it leaves to read.    *)
LEMMA StatementOf ==
  ASSUME ReaderShape
  PROVE  /\ Reads("count") => /\ reader \in Asked
                              /\ \/ /\ reader.kind = "dashboard"
                                    /\ Rest = <<"page", "sources", "runs">>
                                 \/ reader.kind = "vacancies" /\ Rest = <<"page">>
         /\ Reads("page") => /\ reader \in Asked
                             /\ \/ /\ reader.kind = "dashboard"
                                   /\ Rest = <<"sources", "runs">>
                                \/ reader.kind = "vacancies" /\ Rest = <<>>
         /\ Reads("sources") => /\ reader \in Asked
                                /\ reader.kind = "dashboard"
                                /\ reader.todo = <<"sources", "runs">> /\ Rest = <<"runs">>
         /\ Reads("runs") => /\ reader \in Asked
                             /\ reader.kind \in {"dashboard", "runs"}
                             /\ reader.todo = <<"runs">> /\ Rest = <<>>
<1>1. CASE reader = Resting
  BY <1>1 DEF Resting, Reads
<1>2. CASE reader \in Asked /\ reader.kind = "dashboard" /\ reader.todo \in DashboardLeft
  BY <1>2, HeadsAndTails DEF DashboardLeft, Reads, Rest
<1>3. CASE reader \in Asked /\ reader.kind = "vacancies" /\ reader.todo \in VacanciesLeft
  BY <1>3, HeadsAndTails DEF VacanciesLeft, Reads, Rest
<1>4. CASE reader \in Asked /\ reader.kind = "runs" /\ reader.todo \in RunsLeft
  BY <1>4, HeadsAndTails DEF RunsLeft, Reads, Rest
<1> QED BY <1>1, <1>2, <1>3, <1>4 DEF ReaderShape, Asked

(* A request begins with nothing read.                                      *)
LEMMA AskStep ==
  ASSUME NEW kind \in {"dashboard", "vacancies", "runs"}, NEW filter \in Filters,
         NEW limit \in Int, NEW offset \in Int, Ask(kind, filter, limit, offset)
  PROVE  ReaderInv'
<1>1. NormalizedLimit(limit) \in 1..MaxLimit /\ NormalizedOffset(offset) \in Nat
  BY ReadsAssumption DEF NormalizedLimit, NormalizedOffset, AtLeast
<1>2. /\ kind = "dashboard" => Statements(kind) = <<"count", "page", "sources", "runs">>
      /\ kind = "vacancies" => Statements(kind) = <<"count", "page">>
      /\ kind = "runs" => Statements(kind) = <<"runs">>
  BY DEF Statements
<1>3. /\ reader' \in Asked /\ reader'.kind = kind /\ reader'.todo = Statements(kind)
      /\ reader'.latest = {}
  BY <1>1, <1>2 DEF Ask, Asked, DashboardLeft, VacanciesLeft, RunsLeft
<1>4. ReaderShape'
  BY <1>2, <1>3 DEF ReaderShape, DashboardLeft, VacanciesLeft, RunsLeft
<1>5. ~Reads("page")' /\ ~PageIsRead' /\ ~NamesAreRead'
  BY <1>2, <1>3 DEF Reads, PageIsRead, NamesAreRead
<1> QED BY <1>3, <1>4, <1>5 DEF ReaderInv, TotalHolds, PageHolds, SourcesHold, NamesHold, LatestIsUnread

(* The count is what the page is cut from, until something is written.      *)
LEMMA CountStep ==
  ASSUME ReaderInv, CountRows
  PROVE  ReaderInv'
<1>1. reader \in Asked
  BY StatementOf DEF ReaderInv, CountRows
<1>2. CountSelected(reader.filter) \in Nat
  BY VacanciesFinite DEF CountSelected, Selected
<1>3. /\ reader' \in Asked /\ reader'.kind = reader.kind /\ reader'.todo = Rest
      /\ reader'.filter = reader.filter /\ reader'.total = CountSelected(reader.filter)
      /\ reader'.latest = reader.latest
  BY <1>1, <1>2, StatementOf
     DEF ReaderInv, CountRows, Asked, DashboardLeft, VacanciesLeft
<1>4. CountSelected(reader.filter)' = CountSelected(reader.filter)
  BY <1>3 DEF CountRows, storeVars, CountSelected, Selected
<1>5. /\ ReaderShape' /\ ~PageIsRead' /\ ~NamesAreRead'
      /\ reader.todo # <<>>
  BY <1>3, StatementOf
     DEF ReaderInv, CountRows, ReaderShape, PageIsRead, NamesAreRead, Reads,
         DashboardLeft, VacanciesLeft
<1> QED BY <1>3, <1>4, <1>5
        DEF ReaderInv, TotalHolds, PageHolds, SourcesHold, NamesHold, LatestIsUnread

(* A page is cut from what is selected when it is read, and its rows name   *)
(* sources that exist.                                                      *)
LEMMA PageStep ==
  ASSUME ReaderInv, SelectPage, TypeOK, RunsHaveSources, LastRunSawVacancy
  PROVE  ReaderInv'
<1>1. reader \in Asked /\ Reads("page")
  BY StatementOf DEF ReaderInv, SelectPage
<1>2. PICK page \in SUBSET Selected(reader.filter) :
        /\ Cardinality(page) = RowsOfPage(CountSelected(reader.filter),
                                          QueryLimit(reader.limit), reader.offset)
        /\ reader' = [reader EXCEPT !.todo = Rest, !.page = page]
  BY DEF SelectPage, CountSelected
<1>3. page \subseteq Vacancies /\ \A v \in page : vacancies[v] # NoRow
  BY DEF Selected
<1>4. QueryLimit(reader.limit) = reader.limit
  BY <1>1 DEF QueryLimit, Asked
<1>5. /\ reader' \in Asked /\ reader'.kind = reader.kind /\ reader'.todo = Rest
      /\ reader'.page = page /\ reader'.latest = reader.latest
      /\ reader'.total = reader.total /\ reader'.limit = reader.limit
      /\ reader'.offset = reader.offset /\ reader'.named = reader.named
  BY <1>1, <1>2, <1>3, StatementOf DEF ReaderInv, Asked, DashboardLeft, VacanciesLeft
<1>6. ReaderShape' /\ ~Reads("page")' /\ ~NamesAreRead'
  BY <1>1, <1>5, StatementOf, HeadsAndTails
     DEF ReaderInv, ReaderShape, NamesAreRead, Reads, DashboardLeft, VacanciesLeft
<1>7. PageHolds'
  BY <1>1, <1>2, <1>4, <1>5
     DEF ReaderInv, TotalHolds, PageHolds, SelectPage, RowsOfPage, AtMost, AtLeast
<1>8. SourcesHold'
  BY <1>3, <1>5, VacanciesHaveSources DEF SourcesHold, SelectPage, storeVars
<1>9. LatestIsUnread'
  BY <1>1, <1>5 DEF ReaderInv, LatestIsUnread, Reads
<1> QED BY <1>6, <1>7, <1>8, <1>9 DEF ReaderInv, TotalHolds, NamesHold

(* The sources are read after the page, so none of its names is missing.    *)
LEMMA SourcesStep ==
  ASSUME ReaderInv, SelectSources
  PROVE  ReaderInv'
<1>1. /\ reader \in Asked /\ Rest = <<"runs">> /\ reader.kind = "dashboard"
      /\ reader.todo = <<"sources", "runs">>
  BY StatementOf DEF ReaderInv, SelectSources
<1>2. /\ reader' \in Asked /\ reader'.kind = "dashboard" /\ reader'.todo = <<"runs">>
      /\ reader'.page = reader.page /\ reader'.latest = reader.latest
      /\ reader'.total = reader.total /\ reader'.limit = reader.limit
      /\ reader'.offset = reader.offset
      /\ reader'.named = {s \in Sources : sources[s] # NoRow}
  BY <1>1 DEF SelectSources, Asked, DashboardLeft
<1>3. PageIsRead
  BY <1>1 DEF PageIsRead
<1>4. ReaderShape' /\ ~Reads("page")'
  BY <1>2, HeadsAndTails DEF ReaderShape, Reads, DashboardLeft
<1>5. PageHolds' /\ SourcesHold' /\ LatestIsUnread'
  BY <1>1, <1>2, <1>3, HeadsAndTails
     DEF ReaderInv, PageHolds, SourcesHold, LatestIsUnread, SelectSources, storeVars
<1>6. NamesHold'
  <2>1. \A v \in reader.page : v[1] \in Sources /\ sources[v[1]] # NoRow
    BY <1>1, <1>3 DEF ReaderInv, SourcesHold, Asked, Vacancies
  <2> QED BY <1>2, <2>1 DEF NamesHold
<1> QED BY <1>4, <1>5, <1>6 DEF ReaderInv, TotalHolds

(* The runs are read last, and nothing else changes with them.              *)
LEMMA RunsStep ==
  ASSUME ReaderInv, SelectRuns
  PROVE  ReaderInv'
<1>1. /\ reader \in Asked /\ Rest = <<>> /\ reader.kind \in {"dashboard", "runs"}
      /\ reader.todo = <<"runs">>
  BY StatementOf DEF ReaderInv, SelectRuns
<1>2. PICK latest \in Latest(RunLimit) :
        reader' = [reader EXCEPT !.todo = Rest, !.latest = latest]
  BY DEF SelectRuns
<1>3. latest \subseteq RunIds
  BY DEF Latest, Started
<1>4. /\ reader' \in Asked /\ reader'.kind = reader.kind /\ reader'.todo = <<>>
      /\ reader'.page = reader.page /\ reader'.total = reader.total
      /\ reader'.limit = reader.limit /\ reader'.offset = reader.offset
      /\ reader'.named = reader.named
  BY <1>1, <1>2, <1>3 DEF Asked, DashboardLeft
<1>5. ReaderShape' /\ ~Reads("page")' /\ LatestIsUnread'
  BY <1>1, <1>4 DEF ReaderShape, Reads, LatestIsUnread, DashboardLeft, RunsLeft
<1>6. /\ PageIsRead' => reader.kind = "dashboard" /\ PageIsRead
      /\ NamesAreRead' => NamesAreRead
  BY <1>1, <1>4 DEF PageIsRead, NamesAreRead
<1> QED BY <1>4, <1>5, <1>6
        DEF ReaderInv, TotalHolds, PageHolds, SourcesHold, NamesHold, SelectRuns, storeVars

(* Nobody is read for after the answer.                                     *)
LEMMA AnswerStep ==
  ASSUME ReaderInv, Answer
  PROVE  ReaderInv'
BY DEF Answer, ReaderInv, ReaderShape, TotalHolds, PageHolds, SourcesHold, NamesHold,
       LatestIsUnread, PageIsRead, NamesAreRead, Reads, Resting

(* What is written ends the quiet or leaves what was counted as it is, and  *)
(* takes no source away.                                                    *)
LEMMA WrittenStep ==
  ASSUME ReaderInv, TypeOK, [Next]_storeVars,
         reader' = reader, quiet' = (quiet /\ UNCHANGED <<vacancies, composition>>)
  PROVE  ReaderInv'
<1>1. /\ ReaderShape' /\ LatestIsUnread' /\ NamesHold' /\ PageHolds'
      /\ PageIsRead' = PageIsRead
  BY DEF ReaderInv, ReaderShape, LatestIsUnread, NamesHold, NamesAreRead, PageHolds, PageIsRead
<1>2. TotalHolds'
  <2>1. quiet' => CountSelected(reader.filter)' = CountSelected(reader.filter)
    BY DEF CountSelected, Selected
  <2> QED BY <2>1 DEF ReaderInv, TotalHolds, Reads
<1>3. SourcesHold'
  <2>1. PageIsRead => reader \in Asked
    BY DEF PageIsRead, ReaderInv, ReaderShape, Resting
  <2>2. ASSUME PageIsRead, NEW v \in reader.page
        PROVE  v[1] \in Sources /\ sources[v[1]] # NoRow
    BY <2>1, <2>2 DEF ReaderInv, SourcesHold, Asked, Vacancies
  <2> QED BY <1>1, <2>2, SourcesStay DEF SourcesHold
<1> QED BY <1>1, <1>2, <1>3 DEF ReaderInv

(* Each step of a reader or a writer keeps what the request has read true.  *)
LEMMA ReaderStep ==
  ASSUME ReaderInv, TypeOK, RunsHaveSources, LastRunSawVacancy, [ReadsNext]_readVars
  PROVE  ReaderInv'
<1>1. ASSUME NEW kind \in {"dashboard", "vacancies"}, NEW filter \in Filters,
             NEW limit \in Limits, NEW offset \in Offsets, Ask(kind, filter, limit, offset)
      PROVE  ReaderInv'
  BY <1>1, AskStep, ReadsAssumption
<1>2. ASSUME NEW filter \in Filters, Ask("runs", filter, 0, 0)
      PROVE  ReaderInv'
  BY <1>2, AskStep
<1>3. CASE Read
  BY <1>3, CountStep, PageStep, SourcesStep, RunsStep, AnswerStep DEF Read
<1>4. CASE Written
  BY <1>4, WrittenStep, ExclusiveIsNext DEF Written
<1>5. CASE UNCHANGED readVars
  BY <1>5
     DEF readVars, storeVars, ReaderInv, ReaderShape, TotalHolds, PageHolds, SourcesHold,
         NamesHold, LatestIsUnread, PageIsRead, NamesAreRead, Reads, CountSelected, Selected
<1> QED BY <1>1, <1>2, <1>3, <1>4, <1>5 DEF ReadsNext

(* What a request has read so far is true of the store, with the facts of   *)
(* the store that this rests on.                                            *)
THEOREM ReadersAreConsistent ==
  ReadsSpec => [](TypeOK /\ RunsHaveSources /\ LastRunSawVacancy /\ ReaderInv)
<1> DEFINE Inv == RunsHaveSources /\ ReaderInv
<1>1. ReadsInit => Inv
  BY DEF ReadsInit, Init, RunsHaveSources, ReaderInv, ReaderShape, TotalHolds, PageHolds,
         SourcesHold, NamesHold, LatestIsUnread, PageIsRead, NamesAreRead, Reads, Resting
<1>2. TypeOK /\ LastRunSawVacancy /\ Inv /\ [ReadsNext]_readVars => Inv'
  BY ReaderStep, RunsHaveSourcesStep, ReadsUseStore, ExclusiveIsNext
<1>3. ReadsSpec => [](TypeOK /\ LastRunSawVacancy)
  <2>1. ExclusiveSpec => Spec
    BY ExclusiveIsNext, PTL DEF ExclusiveSpec, Spec
  <2> QED BY <2>1, ReadsImplementStore, TypeCorrect, LastRunIsRecorded, PTL
<1> QED BY <1>1, <1>2, <1>3, PTL DEF ReadsSpec

(* Unless a vacancy was written between the two statements, the page that   *)
(* is answered has as many rows as the total, the limit and the offset of   *)
(* the same answer leave it, for any filter, limit and offset.              *)
THEOREM PageFitsItsTotal == ReadsSpec => []PageMatchesTotal
<1>1. ReaderInv => PageMatchesTotal
  BY DEF ReaderInv, PageHolds, PageIsRead, PageMatchesTotal
<1> QED BY <1>1, ReadersAreConsistent, PTL

(* Every vacancy on the dashboard has the name of its source, whatever was  *)
(* written while the dashboard was read.                                    *)
THEOREM VacanciesAreNamed == ReadsSpec => []DashboardNamesVacancies
<1>1. ReaderInv => DashboardNamesVacancies
  BY DEF ReaderInv, NamesHold, NamesAreRead, DashboardNamesVacancies
<1> QED BY <1>1, ReadersAreConsistent, PTL

-----------------------------------------------------------------------------
(* The latest runs *)

(* A step opens at most one run.                                            *)
LEMMA OneRunIsOpened ==
  ASSUME TypeOK, [Next]_storeVars, NEW r \in Opened, NEW q \in Opened
  PROVE  r = q
<1>1. ASSUME NEW s \in Sources, NEW p \in RunIds, StartRun(s, p)
      PROVE  r = q
  BY <1>1, OpenedRunRow DEF Opened
<1>2. ASSUME NEW p \in RunIds, NEW status \in Terminal, NEW completion \in Completions,
             NEW counts \in CountsGiven, CompleteRun(p, status, completion, counts)
      PROVE  FALSE
    BY <1>2 DEF CompleteRun, CompleteAccepts, RunIs, TypeOK, Opened
<1>3. ~RecoverInterruptedRuns
  BY RecoveredRows DEF RunIs, Opened
<1> QED
  BY <1>1, <1>2, <1>3
  DEF Next, ExclusiveNext, StartExclusiveRun, CreateSource, ApplyObservedVacancies,
      UpdateVacancyUserStatus, storeVars, Opened

(* So a run that starts gets its instant.                                   *)
LEMMA InstantsStep ==
  ASSUME TypeOK, InstantsHold, [ReadsNext]_readVars
  PROVE  InstantsHold'
<1>1. CASE Written
  <2>1. CASE Opened = {}
    BY <1>1, <2>1 DEF Written, InstantsHold, Started, Opened
  <2>2. CASE Opened # {}
    <3>1. PICK r \in Opened, at \in Instants : startedAt' = [startedAt EXCEPT ![r] = at]
      BY <1>1, <2>2 DEF Written
    <3>2. \A q \in Opened : q = r
      BY <1>1, OneRunIsOpened, ExclusiveIsNext DEF Written
    <3> QED BY <3>1, <3>2 DEF InstantsHold, Started, Opened
  <2> QED BY <2>1, <2>2
<1>2. CASE startedAt' = startedAt /\ runs' = runs
  BY <1>2 DEF InstantsHold, Started
<1> QED BY <1>1, <1>2
        DEF ReadsNext, readVars, storeVars, Ask, Read, CountRows, SelectPage, SelectSources,
            SelectRuns, Answer

SecondOf(instant) == instant \div 100

(* The first part of a text is the second, so a text of a later second is   *)
(* the greater one, whatever becomes of the fraction.                       *)
LEMMA LaterSecondIsGreater ==
  \A a, b \in 0..999 :
    ~TextLess(TextOf(a), TextOf(b)) => SecondOf(b) <= SecondOf(a)
<1>1. \A n \in 0..999 : /\ 1 \in DOMAIN TextOf(n) /\ TextOf(n)[1] = SecondOf(n)
                        /\ SecondOf(n) \in Int
  BY DEF TextOf, Zed, Dot, SecondOf
<1> SUFFICES ASSUME NEW a \in 0..999, NEW b \in 0..999, ~TextLess(TextOf(a), TextOf(b))
             PROVE  SecondOf(b) <= SecondOf(a)
  OBVIOUS
<1>2. /\ 1 \in DOMAIN TextOf(a) /\ TextOf(a)[1] = SecondOf(a) /\ SecondOf(a) \in Int
      /\ 1 \in DOMAIN TextOf(b) /\ TextOf(b)[1] = SecondOf(b) /\ SecondOf(b) \in Int
  BY <1>1, Zenon
<1>3. \A j \in 1..(1 - 1) : TextOf(a)[j] = TextOf(b)[j]
  OBVIOUS
<1>4. ~(TextOf(a)[1] < TextOf(b)[1])
  BY <1>2, <1>3 DEF TextLess
<1> QED BY <1>2, <1>4

(* Whatever the instants and however their fractions are cut, a run that is *)
(* left out of the latest started in no later second than one that is not.  *)
THEOREM LatestAreNewestToTheSecond == ReadsSpec => LatestRunsAreNewest
<1>1. ReadsInit => InstantsHold
  BY DEF ReadsInit, Init, InstantsHold, Started
<1>2. TypeOK /\ InstantsHold /\ [ReadsNext]_readVars => InstantsHold'
  BY InstantsStep
<1>3. ASSUME ReaderInv, InstantsHold, [ReadsNext]_readVars, Reads("runs"), reader'.latest # {},
             NEW r \in reader'.latest, NEW q \in Started \ reader'.latest
      PROVE  startedAt[q] \div 100 <= startedAt[r] \div 100
  <2>1. reader # Resting /\ reader.latest = {} /\ reader.todo = <<"runs">>
    BY <1>3, StatementOf DEF ReaderInv, LatestIsUnread, Reads, Resting
  <2>2. SelectRuns
    BY <1>3, <2>1, HeadsAndTails
       DEF ReadsNext, readVars, Ask, Read, CountRows, SelectPage, SelectSources, Answer, Written, Reads
  <2>3. reader \in Asked
    BY <1>3, <2>2, StatementOf DEF SelectRuns, ReaderInv
  <2>4. PICK latest \in Latest(RunLimit) : reader'.latest = latest
    BY <2>2, <2>3 DEF SelectRuns, Asked
  <2>5. r \in Started /\ ~TextLess(TextOf(startedAt[r]), TextOf(startedAt[q]))
    BY <1>3, <2>4 DEF Latest
  <2>6. startedAt[r] \in 0..999 /\ startedAt[q] \in 0..999
    <3>1. Instants \subseteq 0..999
      BY ReadsAssumption
    <3>2. q \in Started /\ \A run \in Started : startedAt[run] \in Instants
      BY <1>3 DEF InstantsHold
    <3> QED BY <2>5, <3>1, <3>2
  <2>7. SecondOf(startedAt[q]) <= SecondOf(startedAt[r])
    BY <2>5, <2>6, LaterSecondIsGreater
  <2> QED BY <2>7 DEF SecondOf
<1>4. ReaderInv /\ InstantsHold /\ [ReadsNext]_readVars =>
        [Reads("runs") /\ reader'.latest # {} =>
           \A r \in reader'.latest, q \in Started \ reader'.latest :
             startedAt[q] \div 100 <= startedAt[r] \div 100]_readVars
  BY <1>3
<1> QED BY <1>1, <1>2, <1>4, ReadersAreConsistent, PTL DEF ReadsSpec, LatestRunsAreNewest
=============================================================================
