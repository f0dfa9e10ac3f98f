----------------------------- MODULE StoreReads -----------------------------
(***************************************************************************)
(* The pages and lists that internal/httpapi reads from the store while    *)
(* runs write to it: the dashboard, /api/vacancies and /api/runs/latest.   *)
(* ListVacancies is two statements, a count and a page, and the dashboard  *)
(* adds ListSources and LatestRuns: anything may be written between two of *)
(* them.  Which rows a page has is left to the sort order, how many is not.*)
(*                                                                         *)
(* Runs are listed by started_at, which is text: RFC 3339 with a fraction  *)
(* that loses its trailing zeros.  An instant is a number of hundredths of *)
(* a second; the handler takes it before it takes the source, so instants  *)
(* and starts are in no order.                                             *)
(***************************************************************************)
EXTENDS VacancyStore

CONSTANTS
  Instants,      \* the hundredths at which runs may start
  Filters,       \* filters a request may give
  Limits,        \* limits a request may ask for
  Offsets,       \* offsets a request may ask for
  DefaultLimit,  \* 50 in the code
  MaxLimit,      \* 100 in the code, of a page of vacancies
  RunLimit,      \* 100 in the code, of the latest runs
  Unset            \* a filter that was not given

ASSUME ReadsAssumption ==
  /\ Instants \subseteq 0..999
  /\ Limits \subseteq Int /\ Offsets \subseteq Int
  /\ MaxLimit \in Nat /\ DefaultLimit \in 1..MaxLimit /\ RunLimit \in Nat
  /\ Unset \notin Sources \cup RunIds \cup UserStatuses \cup {"active", "archived"}
  /\ Filters \subseteq [source : Sources \cup {Unset}, run : RunIds \cup {Unset},
                        listing : {"active", "archived", Unset}, user : UserStatuses \cup {Unset}]

VARIABLES
  startedAt,  \* column started_at of each run
  reader,     \* the request that is read for: what is left to read, what was read
  quiet       \* observed: nothing a filter looks at was written since the count

readVars == <<storeVars, startedAt, reader, quiet>>

AtMost(m, n) == IF m <= n THEN m ELSE n
AtLeast(m, n) == IF m >= n THEN m ELSE n

-----------------------------------------------------------------------------
(* What the queries mean *)

(* Mutant: a limit that is too large is taken as it is.                     *)
NormalizedLimitFromBelow(limit) == IF limit <= 0 THEN DefaultLimit ELSE limit

NormalizedLimit(limit) ==
  IF limit <= 0 \/ limit > MaxLimit THEN DefaultLimit ELSE limit

NormalizedOffset(offset) == AtLeast(offset, 0)

(* ListVacancies bounds the limit again.                                    *)
QueryLimit(limit) == IF limit \in 1..MaxLimit THEN limit ELSE DefaultLimit

Selected(filter) ==
  {v \in Vacancies : /\ vacancies[v] # NoRow
                     /\ filter.source \in {Unset, v[1]}
                     /\ filter.listing \in {Unset, vacancies[v].listing}
                     /\ filter.user \in {Unset, vacancies[v].user}
                     /\ filter.run = Unset \/ composition[filter.run][v] # "none"}

RowsOfPage(count, limit, offset) == AtMost(limit, AtLeast(count - offset, 0))

(* The characters that decide: seconds, then a dot or the Z, in the order   *)
(* they have as text.                                                       *)
Dot == 0
Zed == 10
TextOf(instant) ==
  LET second == instant \div 100
      tenth == (instant \div 10) % 10
      hundredth == instant % 10
  IN IF tenth = 0 /\ hundredth = 0 THEN <<second, Zed>>
     ELSE IF hundredth = 0 THEN <<second, Dot, tenth, Zed>>
     ELSE <<second, Dot, tenth, hundredth, Zed>>

TextLess(a, b) ==
  \E i \in DOMAIN a \cap DOMAIN b :
    a[i] < b[i] /\ \A j \in 1..(i - 1) : a[j] = b[j]

Started == {r \in RunIds : runs[r] # NoRow}

(* Mutant: the order is ascending.                                          *)
LatestAscending(limit) ==
  {latest \in SUBSET Started :
     /\ Cardinality(latest) = AtMost(limit, Cardinality(Started))
     /\ \A r \in latest, q \in Started \ latest :
          ~TextLess(TextOf(startedAt[q]), TextOf(startedAt[r]))}

(* The runs of ORDER BY started_at DESC LIMIT: ties are broken either way.  *)
Latest(limit) ==
  {latest \in SUBSET Started :
     /\ Cardinality(latest) = AtMost(limit, Cardinality(Started))
     /\ \A r \in latest, q \in Started \ latest :
          ~TextLess(TextOf(startedAt[r]), TextOf(startedAt[q]))}

-----------------------------------------------------------------------------
(* The statements of a request *)

(* Mutant: the names are read first.                                        *)
StatementsNamesFirst(kind) ==
  CASE kind = "dashboard" -> <<"sources", "count", "page", "runs">>
    [] kind = "vacancies" -> <<"count", "page">>
    [] kind = "runs" -> <<"runs">>

Statements(kind) ==
  CASE kind = "dashboard" -> <<"count", "page", "sources", "runs">>
    [] kind = "vacancies" -> <<"count", "page">>
    [] kind = "runs" -> <<"runs">>

Resting == [kind |-> "none", todo |-> <<>>]

Ask(kind, filter, limit, offset) ==
  /\ reader = Resting
  /\ kind = "dashboard" => filter.run = Unset
  /\ reader' = [kind |-> kind, todo |-> Statements(kind), filter |-> filter,
                limit |-> NormalizedLimit(limit), offset |-> NormalizedOffset(offset),
                total |-> 0, page |-> {}, named |-> {}, latest |-> {}]
  /\ UNCHANGED <<storeVars, startedAt, quiet>>

Reads(statement) == reader.todo # <<>> /\ Head(reader.todo) = statement

Rest == Tail(reader.todo)

(* Mutant: the filter is left out of the count.                             *)
CountAll(filter) == Cardinality({v \in Vacancies : vacancies[v] # NoRow})

CountSelected(filter) == Cardinality(Selected(filter))

CountRows ==
  /\ Reads("count")
  /\ reader' = [reader EXCEPT !.todo = Rest, !.total = CountSelected(reader.filter)]
  /\ quiet' = TRUE
  /\ UNCHANGED <<storeVars, startedAt>>

SelectPage ==
  /\ Reads("page")
  /\ LET selected == Selected(reader.filter)
     IN \E page \in SUBSET selected :
          /\ Cardinality(page) = RowsOfPage(Cardinality(selected),
                                            QueryLimit(reader.limit), reader.offset)
          /\ reader' = [reader EXCEPT !.todo = Rest, !.page = page]
  /\ UNCHANGED <<storeVars, startedAt, quiet>>

SelectSources ==
  /\ Reads("sources")
  /\ reader' = [reader EXCEPT !.todo = Rest,
                              !.named = {s \in Sources : sources[s] # NoRow}]
  /\ UNCHANGED <<storeVars, startedAt, quiet>>

SelectRuns ==
  /\ Reads("runs")
  /\ \E latest \in Latest(RunLimit) :
       reader' = [reader EXCEPT !.todo = Rest, !.latest = latest]
  /\ UNCHANGED <<storeVars, startedAt, quiet>>

Answer ==
  /\ reader.kind # "none" /\ reader.todo = <<>>
  /\ reader' = Resting
  /\ UNCHANGED <<storeVars, startedAt, quiet>>

Read == CountRows \/ SelectPage \/ SelectSources \/ SelectRuns \/ Answer

-----------------------------------------------------------------------------
(* What is written meanwhile; a run brings its own started_at. *)
Opened == {r \in RunIds : runs[r] = NoRow /\ runs'[r] # NoRow}

Written ==
  /\ ExclusiveNext
  /\ IF Opened = {} THEN UNCHANGED startedAt
     ELSE \E r \in Opened, at \in Instants : startedAt' = [startedAt EXCEPT ![r] = at]
  /\ quiet' = (quiet /\ UNCHANGED <<vacancies, composition>>)
  /\ UNCHANGED reader

ReadsInit ==
  /\ Init
  /\ startedAt = [r \in RunIds |-> NoRow]
  /\ reader = Resting
  /\ quiet = FALSE

ReadsNext ==
  \/ \E kind \in {"dashboard", "vacancies"}, filter \in Filters,
        limit \in Limits, offset \in Offsets : Ask(kind, filter, limit, offset)
  \/ \E filter \in Filters : Ask("runs", filter, 0, 0)
  \/ Read
  \/ Written

ReadsSpec == ReadsInit /\ [][ReadsNext]_readVars

-----------------------------------------------------------------------------
(* Total, limit and offset as they are answered describe the page that is   *)
(* answered, though the page and the total come from two statements and the *)
(* limit is bounded twice, unless a vacancy was written between the two.    *)
PageMatchesTotal ==
  reader.kind \in {"dashboard", "vacancies"} /\ reader.todo = <<>> /\ quiet =>
    Cardinality(reader.page) = RowsOfPage(reader.total, reader.limit, reader.offset)

(* Every vacancy on the dashboard has the name of its source, whatever was  *)
(* added while the page was read: the sources are read after the vacancies  *)
(* and are never deleted.  (A run may stand there without a name: the runs  *)
(* are read last.)                                                          *)
DashboardNamesVacancies ==
  reader.kind = "dashboard" /\ reader.todo = <<>> =>
    \A v \in reader.page : v[1] \in reader.named

(* When the latest runs are read, a run that is left out started in no      *)
(* later second than one that is listed: the order of the texts is that of  *)
(* the times but for the fraction.                                          *)
LatestRunsAreNewest ==
  [][Reads("runs") /\ reader'.latest # {} =>
       \A r \in reader'.latest, q \in Started \ reader'.latest :
         startedAt[q] \div 100 <= startedAt[r] \div 100]_readVars
=============================================================================
