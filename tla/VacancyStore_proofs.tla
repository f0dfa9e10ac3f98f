------------------------ MODULE VacancyStore_proofs -------------------------
(***************************************************************************)
(* Theorems about the store, for any number of sources, runs, keys and     *)
(* contents.  First the shape of the tables, from which everything else    *)
(* follows; then what arbitrary callers cannot break; then what exclusive  *)
(* starts add, up to the refinement of SourceLock.                         *)
(***************************************************************************)
EXTENDS VacancyStore, FiniteSetTheorems, TLAPS

-----------------------------------------------------------------------------
(* Facts about the operators *)

(* There are finitely many vacancies, so what is counted has a number.      *)
LEMMA VacanciesFinite ==
  \A S \in SUBSET Vacancies : IsFiniteSet(S) /\ Cardinality(S) \in Nat
<1>1. IsFiniteSet(Vacancies)
  BY ConstantsAssumption, FS_Product DEF Vacancies
<1> QED BY <1>1, FS_Subset, FS_CardinalityType

(* What a listing is made of.                                               *)
LEMMA CardInDomain ==
  ASSUME NEW cards \in Cards, NEW i \in DOMAIN cards
  PROVE  cards[i] \in Card
BY DEF Cards

(* An observed vacancy has a first card, and its content is that card's.    *)
LEMMA ContentOfFirst ==
  ASSUME NEW r, NEW cards \in Cards, NEW v \in Observed(r, cards)
  PROVE  /\ \E i \in Firsts(cards) : cards[i].key = v[2] /\ ContentOf(cards, v) = cards[i].content
         /\ ContentOf(cards, v) \in Contents
<1>1. \E i \in Firsts(cards) : cards[i].key = v[2]
  BY DEF Observed
<1>2. \E i \in Firsts(cards) : cards[i].key = v[2] /\ ContentOf(cards, v) = cards[i].content
  BY <1>1 DEF ContentOf
<1>3. \A i \in Firsts(cards) : cards[i] \in Card
  BY CardInDomain DEF Firsts
<1> QED BY <1>2, <1>3 DEF Card

(* A set of numbers has a least one.                                        *)
LEMMA LeastOfSome ==
  ASSUME NEW S \in SUBSET Nat, S # {}
  PROVE  \E m \in S : \A k \in S : m <= k
<1> DEFINE R == OpToRel(<, Nat)
<1>1. IsWellFoundedOn(R, Nat)
  BY NatLessThanWellFounded
<1>2. \A i, j \in Nat : i < j => <<i, j>> \in R
  BY DEF OpToRel
<1> HIDE DEF R
<1>3. PICK m \in S : \A k \in S : ~(<<k, m>> \in R)
  BY <1>1, WFMin
<1>4. \A k \in S : m <= k
  <2> SUFFICES ASSUME NEW k \in S PROVE m <= k
    OBVIOUS
  <2>1. ~(k < m)
    BY <1>2, <1>3
  <2> QED BY <2>1
<1> QED BY <1>4

(* Every card's key has a first card.                                       *)
LEMMA FirstCardOfKey ==
  ASSUME NEW cards \in Cards, NEW i \in DOMAIN cards
  PROVE  \E first \in Firsts(cards) : cards[first].key = cards[i].key
<1>1. PICK n \in 0..MaxCards : DOMAIN cards = 1..n
  BY DEF Cards
<1>2. n \in Nat
  BY <1>1, ConstantsAssumption
<1> DEFINE S == {j \in DOMAIN cards : cards[j].key = cards[i].key}
<1>3. S \in SUBSET Nat /\ S # {}
  BY <1>1, <1>2
<1>4. PICK m \in S : \A j \in S : m <= j
  BY <1>3, LeastOfSome
<1>5. \A j \in 1..(m - 1) : j \in DOMAIN cards /\ ~(m <= j)
  BY <1>1, <1>2, <1>4
<1> QED BY <1>4, <1>5 DEF Firsts

(* What a row that exists looks like.                                       *)
LEMMA RowShapes ==
  ASSUME TypeOK
  PROVE  /\ \A r \in RunIds : runs[r] # NoRow => runs[r] \in RunRow
         /\ \A v \in Vacancies : vacancies[v] # NoRow => vacancies[v] \in VacancyRow
BY DEF TypeOK

-----------------------------------------------------------------------------
(* The shape of the tables *)

(* The empty tables have the shape.                                         *)
LEMMA TypeInit == Init => TypeOK
BY ConstantsAssumption DEF Init, TypeOK

(* Each operation of the store keeps the shape: a new source,               *)
LEMMA TypeCreateSource ==
  ASSUME TypeOK, NEW s \in Sources, CreateSource(s)
  PROVE  TypeOK'
BY DEF TypeOK, CreateSource, SourceStatuses

(* a new run,                                                               *)
LEMMA TypeStartRun ==
  ASSUME TypeOK, NEW s \in Sources, NEW r \in RunIds, StartRun(s, r)
  PROVE  TypeOK'
<1>1. OpenedRun(s) \in RunRow
  BY DEF OpenedRun, RunRow, Completions
<1> QED BY <1>1 DEF TypeOK, StartRun, SourceStatuses

(* observations (inserted and updated rows, dispositions, history),         *)
LEMMA TypeApply ==
  ASSUME TypeOK, NEW r \in RunIds, NEW cards \in Cards, ApplyObservedVacancies(r, cards)
  PROVE  TypeOK'
<1> DEFINE seen == Observed(r, cards)
<1>1. vacancies' \in [Vacancies -> VacancyRow \cup {NoRow}]
  <2>1. ASSUME NEW v \in Vacancies, v \in seen
        PROVE  ObservedRow(r, v, ContentOf(cards, v)) \in VacancyRow
    <3>1. ContentOf(cards, v) \in Contents
      BY <2>1, ContentOfFirst
    <3>2. vacancies[v] # NoRow => vacancies[v].user \in UserStatuses
      BY RowShapes DEF VacancyRow
    <3> QED BY <3>1, <3>2, ConstantsAssumption DEF ObservedRow, VacancyRow
  <2> QED BY <2>1 DEF TypeOK, ApplyObservedVacancies
<1>2. composition' \in [RunIds -> [Vacancies -> Observations \cup {"none", "archived"}]]
  <2>1. \A v : Disposition(v, ContentOf(cards, v)) \in Observations
    BY DEF Disposition, Observations
  <2> QED BY <2>1 DEF TypeOK, ApplyObservedVacancies
<1>3. history' \in [Vacancies -> Seq(HistoryRow)]
  <2>1. ASSUME NEW v \in Vacancies, v \in seen
        PROVE  Change(r, v, ContentOf(cards, v)) \in Seq(HistoryRow)
    <3>1. ContentOf(cards, v) \in Contents
      BY <2>1, ContentOfFirst
    <3>2. vacancies[v] # NoRow => vacancies[v].content \in Contents
      BY RowShapes DEF VacancyRow
    <3> DEFINE row == [run |-> r, old |-> Tracked[vacancies[v].content],
                       new |-> Tracked[ContentOf(cards, v)]]
    <3>3. vacancies[v] # NoRow => row \in HistoryRow
      BY <3>1, <3>2 DEF HistoryRow, Values
    <3>4. vacancies[v] # NoRow => <<row>> \in Seq(HistoryRow)
      BY <3>3
    <3>5. <<>> \in Seq(HistoryRow)
      OBVIOUS
    <3> QED BY <3>4, <3>5 DEF Change
  <2>2. \A v \in Vacancies : v \in seen =>
          history[v] \o Change(r, v, ContentOf(cards, v)) \in Seq(HistoryRow)
    BY <2>1 DEF TypeOK
  <2> QED BY <2>2 DEF TypeOK, ApplyObservedVacancies
<1> QED BY <1>1, <1>2, <1>3 DEF TypeOK, ApplyObservedVacancies

(* The row of a run that has just ended.                                    *)
LEMMA CompletedRunRow ==
  ASSUME TypeOK, NEW r \in RunIds, NEW status \in Terminal, NEW completion \in Completions,
         NEW counts \in CountsGiven, CompleteRun(r, status, completion, counts)
  PROVE  /\ runs[r] \in RunRow /\ runs[r].status = "running"
         /\ runs'[r] \in RunRow /\ runs'[r] # NoRow
         /\ runs'[r].source = runs[r].source
         /\ runs'[r].status = status
         /\ runs'[r].completion = completion
         /\ runs'[r].archived = Cardinality(ToArchive(r, status, completion))
         /\ \A q \in RunIds \ {r} : runs'[q] = runs[q]
<1>1. runs[r] \in RunRow /\ runs[r].status = "running"
  BY RowShapes DEF CompleteRun, CompleteAccepts, RunIs
<1>2. Cardinality(ToArchive(r, status, completion)) \in Nat
  BY VacanciesFinite DEF ToArchive, Unseen
<1>3. counts.added \in Nat /\ counts.updated \in Nat /\ counts.seen \in Nat
  BY ConstantsAssumption DEF CountsGiven
<1> DEFINE row == CompletedRun(r, status, completion, counts)
<1>4. /\ row \in RunRow
      /\ row.source = runs[r].source
      /\ row.status = status
      /\ row.completion = completion
      /\ row.archived = Cardinality(ToArchive(r, status, completion))
  BY <1>1, <1>2, <1>3 DEF CompletedRun, RunRow
<1>5. runs'[r] = row /\ \A q \in RunIds \ {r} : runs'[q] = runs[q]
  BY DEF CompleteRun, TypeOK
<1>6. row # NoRow
  BY <1>4, NoRowAssumption
<1> QED BY <1>1, <1>4, <1>5, <1>6

(* the end of a run (its counters and the archived rows),                   *)
LEMMA TypeCompleteRun ==
  ASSUME TypeOK, NEW r \in RunIds, NEW status \in Terminal, NEW completion \in Completions,
         NEW counts \in CountsGiven, CompleteRun(r, status, completion, counts)
  PROVE  TypeOK'
<1> DEFINE gone == ToArchive(r, status, completion)
<1>1. runs[r] \in RunRow
  BY CompletedRunRow
<1>2. gone \subseteq Vacancies /\ \A v \in gone : vacancies[v] # NoRow
  BY DEF ToArchive, Unseen
<1>3. runs' \in [RunIds -> RunRow \cup {NoRow}]
  BY CompletedRunRow DEF TypeOK, CompleteRun
<1>4. vacancies' \in [Vacancies -> VacancyRow \cup {NoRow}]
  <2>1. \A v \in gone : ArchivedRow(r, v) \in VacancyRow
    BY <1>2, RowShapes DEF VacancyRow, ArchivedRow
  <2> QED BY <2>1 DEF TypeOK, CompleteRun
<1>5. sources' \in [Sources -> SourceStatuses \cup {NoRow}]
  BY <1>1 DEF TypeOK, CompleteRun, SourceStatuses
<1>6. composition' \in [RunIds -> [Vacancies -> Observations \cup {"none", "archived"}]]
  BY DEF TypeOK, CompleteRun
<1> QED BY <1>3, <1>4, <1>5, <1>6 DEF TypeOK, CompleteRun

(* recovery,                                                                *)
LEMMA TypeRecover ==
  ASSUME TypeOK, RecoverInterruptedRuns
  PROVE  TypeOK'
<1>1. \A r \in RunIds : RunIs(r, "running") =>
        [runs[r] EXCEPT !.status = "failed", !.completion = "unknown"] \in RunRow
  BY RowShapes DEF RunIs, RunRow, Terminal, Completions
<1>2. runs' \in [RunIds -> RunRow \cup {NoRow}]
  BY <1>1 DEF TypeOK, RecoverInterruptedRuns
<1>3. sources' \in [Sources -> SourceStatuses \cup {NoRow}]
  BY DEF TypeOK, RecoverInterruptedRuns, SourceStatuses, Terminal
<1> QED BY <1>2, <1>3 DEF TypeOK, RecoverInterruptedRuns

(* and the user's mark.                                                     *)
LEMMA TypeUserStatus ==
  ASSUME TypeOK, NEW v \in Vacancies, NEW status \in UserStatuses,
         UpdateVacancyUserStatus(v, status)
  PROVE  TypeOK'
<1>1. [vacancies[v] EXCEPT !.user = status] \in VacancyRow
  BY RowShapes DEF UpdateVacancyUserStatus, VacancyRow
<1> QED BY <1>1 DEF TypeOK, UpdateVacancyUserStatus

(* So every step keeps it.                                                  *)
LEMMA TypeNext == TypeOK /\ [Next]_storeVars => TypeOK'
<1> SUFFICES ASSUME TypeOK, [Next]_storeVars PROVE TypeOK'
  OBVIOUS
<1>1. CASE UNCHANGED storeVars
  BY <1>1 DEF TypeOK, storeVars
<1>2. ASSUME NEW s \in Sources, CreateSource(s) PROVE TypeOK'
  BY <1>2, TypeCreateSource
<1>3. ASSUME NEW s \in Sources, NEW r \in RunIds, StartRun(s, r) PROVE TypeOK'
  BY <1>3, TypeStartRun
<1>4. ASSUME NEW r \in RunIds, NEW cards \in Cards, ApplyObservedVacancies(r, cards)
      PROVE  TypeOK'
  BY <1>4, TypeApply
<1>5. ASSUME NEW r \in RunIds, NEW status \in Terminal, NEW completion \in Completions,
             NEW counts \in CountsGiven, CompleteRun(r, status, completion, counts)
      PROVE  TypeOK'
  BY <1>5, TypeCompleteRun
<1>6. CASE RecoverInterruptedRuns
  BY <1>6, TypeRecover
<1>7. ASSUME NEW v \in Vacancies, NEW status \in UserStatuses,
             UpdateVacancyUserStatus(v, status)
      PROVE  TypeOK'
  BY <1>7, TypeUserStatus
<1> QED
  BY <1>1, <1>2, <1>3, <1>4, <1>5, <1>6, <1>7 DEF Next, ExclusiveNext, StartExclusiveRun

(* Every table keeps its shape, whatever the callers do.                    *)
THEOREM TypeCorrect == Spec => []TypeOK
BY TypeInit, TypeNext, PTL DEF Spec

-----------------------------------------------------------------------------
(* What arbitrary callers cannot break *)

(* A terminal run is out of reach of every operation: they all ask for a    *)
(* run that is running, or that does not exist yet.                         *)
LEMMA TerminalStep ==
  ASSUME TypeOK, [Next]_storeVars, NEW r \in RunIds,
         runs[r] # NoRow, runs[r].status \in Terminal
  PROVE  runs'[r] = runs[r] /\ composition'[r] = composition[r]
<1>1. ~RunIs(r, "running")
  BY DEF RunIs, Terminal
<1>2. ASSUME NEW s \in Sources, NEW q \in RunIds, StartRun(s, q)
      PROVE  runs'[r] = runs[r] /\ composition'[r] = composition[r]
  BY <1>2 DEF StartRun, TypeOK
<1>3. ASSUME NEW q \in RunIds, NEW cards \in Cards, ApplyObservedVacancies(q, cards)
      PROVE  runs'[r] = runs[r] /\ composition'[r] = composition[r]
  BY <1>1, <1>3 DEF ApplyObservedVacancies, ApplyAccepts, TypeOK
<1>4. ASSUME NEW q \in RunIds, NEW status \in Terminal, NEW completion \in Completions,
             NEW counts \in CountsGiven, CompleteRun(q, status, completion, counts)
      PROVE  runs'[r] = runs[r] /\ composition'[r] = composition[r]
  BY <1>1, <1>4 DEF CompleteRun, CompleteAccepts, TypeOK
<1>5. CASE RecoverInterruptedRuns
  BY <1>1, <1>5 DEF RecoverInterruptedRuns
<1>6. ASSUME NEW s \in Sources, CreateSource(s)
      PROVE  runs'[r] = runs[r] /\ composition'[r] = composition[r]
  BY <1>6 DEF CreateSource
<1>7. ASSUME NEW v \in Vacancies, NEW status \in UserStatuses,
             UpdateVacancyUserStatus(v, status)
      PROVE  runs'[r] = runs[r] /\ composition'[r] = composition[r]
  BY <1>7 DEF UpdateVacancyUserStatus
<1>8. CASE UNCHANGED storeVars
  BY <1>8 DEF storeVars
<1> QED
  BY <1>2, <1>3, <1>4, <1>5, <1>6, <1>7, <1>8 DEF Next, ExclusiveNext, StartExclusiveRun

(* A run ends once, whatever the callers do.                                *)
THEOREM TerminalRunsAreFinal == Spec => TerminalIsFinal
<1>1. TypeOK /\ [Next]_storeVars =>
        [\A r \in RunIds : runs[r] # NoRow /\ runs[r].status \in Terminal =>
           runs'[r] = runs[r] /\ composition'[r] = composition[r]]_storeVars
  BY TerminalStep
<1> QED BY <1>1, TypeCorrect, PTL DEF Spec, TerminalIsFinal

(* A vacancy that becomes archived gets its witness in the same             *)
(* transaction, and a witness is a terminal run, which nothing changes.     *)
LEMMA WitnessStep ==
  ASSUME TypeOK, ArchivedHasWitness, [Next]_storeVars
  PROVE  ArchivedHasWitness'
<1> SUFFICES ASSUME NEW v \in Vacancies, vacancies'[v] # NoRow, vacancies'[v].listing = "archived"
             PROVE  \E r \in RunIds : /\ RunIs(r, "success")'
                                      /\ runs'[r].completion = "complete"
                                      /\ runs'[r].source = v[1]
                                      /\ composition'[r][v] = "archived"
  BY DEF ArchivedHasWitness
<1>1. CASE vacancies[v] # NoRow /\ vacancies[v].listing = "archived"
  <2>1. PICK r \in RunIds : /\ RunIs(r, "success")
                            /\ runs[r].completion = "complete"
                            /\ runs[r].source = v[1]
                            /\ composition[r][v] = "archived"
    BY <1>1 DEF ArchivedHasWitness
  <2>2. runs'[r] = runs[r] /\ composition'[r] = composition[r]
    BY <2>1, TerminalStep DEF RunIs, Terminal
  <2> QED BY <2>1, <2>2 DEF RunIs
<1>2. CASE ~(vacancies[v] # NoRow /\ vacancies[v].listing = "archived")
  <2>1. ASSUME NEW r \in RunIds, NEW cards \in Cards, ApplyObservedVacancies(r, cards)
        PROVE  FALSE
    BY <1>2, <2>1 DEF ApplyObservedVacancies, ObservedRow
  <2>2. ASSUME NEW q \in Vacancies, NEW status \in UserStatuses,
               UpdateVacancyUserStatus(q, status)
        PROVE  FALSE
    <3>1. CASE q = v
      <4>1. vacancies'[v] = [vacancies[v] EXCEPT !.user = status] /\ vacancies[v] \in VacancyRow
        BY <2>2, <3>1, RowShapes DEF UpdateVacancyUserStatus, TypeOK
      <4>2. vacancies'[v].listing = vacancies[v].listing
        BY <4>1 DEF VacancyRow
      <4> QED BY <1>2, <2>2, <3>1, <4>2 DEF UpdateVacancyUserStatus
    <3>2. CASE q # v
      BY <1>2, <2>2, <3>2 DEF UpdateVacancyUserStatus, TypeOK
    <3> QED BY <3>1, <3>2
  <2>3. CASE UNCHANGED vacancies
    BY <1>2, <2>3
  <2>4. ASSUME NEW r \in RunIds, NEW status \in Terminal, NEW completion \in Completions,
               NEW counts \in CountsGiven, CompleteRun(r, status, completion, counts)
        PROVE  /\ RunIs(r, "success")'
               /\ runs'[r].completion = "complete"
               /\ runs'[r].source = v[1]
               /\ composition'[r][v] = "archived"
    <3>1. v \in ToArchive(r, status, completion)
      BY <1>2, <2>4 DEF CompleteRun
    <3>2. Archives(status, completion) /\ v[1] = runs[r].source
      BY <3>1 DEF ToArchive, Unseen
    <3>3. /\ runs'[r] # NoRow
          /\ runs'[r].status = status
          /\ runs'[r].completion = completion
          /\ runs'[r].source = runs[r].source
      BY <2>4, CompletedRunRow
    <3>4. composition'[r][v] = "archived"
      BY <2>4, <3>1 DEF CompleteRun, TypeOK
    <3> QED BY <3>2, <3>3, <3>4 DEF RunIs, Archives
  <2> QED
    BY <2>1, <2>2, <2>3, <2>4
    DEF Next, ExclusiveNext, StartExclusiveRun, StartRun, CreateSource,
        RecoverInterruptedRuns, storeVars
<1> QED BY <1>1, <1>2

(* No vacancy is ever archived without the evidence of a complete success.  *)
THEOREM ArchivalIsWitnessed == Spec => []ArchivedHasWitness
<1>1. Init => ArchivedHasWitness
  BY DEF Init, ArchivedHasWitness
<1>2. TypeOK /\ ArchivedHasWitness /\ [Next]_storeVars => ArchivedHasWitness'
  BY WitnessStep
<1> QED BY <1>1, <1>2, TypeCorrect, PTL DEF Spec

-----------------------------------------------------------------------------
(* What exclusive starts add *)

(* What the server does is part of what the store allows.                   *)
LEMMA ExclusiveIsNext == ExclusiveNext => Next
BY DEF Next

(* So the tables keep their shape under the server's own use of them.       *)
THEOREM ExclusiveTypeCorrect == ExclusiveSpec => []TypeOK
<1>1. TypeOK /\ [ExclusiveNext]_storeVars => TypeOK'
  BY TypeNext, ExclusiveIsNext
<1> QED BY <1>1, TypeInit, PTL DEF ExclusiveSpec

(* The row of a run that has just begun.                                    *)
LEMMA OpenedRunRow ==
  ASSUME TypeOK, NEW s \in Sources, NEW r \in RunIds, StartRun(s, r)
  PROVE  /\ runs[r] = NoRow
         /\ runs'[r] # NoRow
         /\ runs'[r].source = s
         /\ runs'[r].status = "running"
         /\ runs'[r].archived = 0
         /\ \A q \in RunIds \ {r} : runs'[q] = runs[q]
<1>1. OpenedRun(s) \in RunRow
  BY DEF OpenedRun, RunRow, Completions
<1>2. runs'[r] = OpenedRun(s) /\ OpenedRun(s) # NoRow
  BY <1>1, NoRowAssumption DEF StartRun, TypeOK
<1> QED BY <1>2 DEF OpenedRun, StartRun, TypeOK

(* What recovery does to each row.                                          *)
LEMMA RecoveredRows ==
  ASSUME TypeOK, RecoverInterruptedRuns, NEW r \in RunIds
  PROVE  /\ ~RunIs(r, "running") => runs'[r] = runs[r]
         /\ RunIs(r, "running") => /\ runs'[r] # NoRow
                                  /\ runs'[r].source = runs[r].source
                                  /\ runs'[r].status = "failed"
                                  /\ runs'[r].archived = runs[r].archived
<1>1. CASE RunIs(r, "running")
  <2> DEFINE row == [runs[r] EXCEPT !.status = "failed", !.completion = "unknown"]
  <2>1. runs[r] \in RunRow
    BY <1>1, RowShapes DEF RunIs
  <2>2. /\ row \in RunRow /\ row.source = runs[r].source
        /\ row.status = "failed" /\ row.archived = runs[r].archived
    BY <2>1 DEF RunRow, Terminal, Completions
  <2>3. runs'[r] = row /\ row # NoRow
    BY <1>1, <2>2, NoRowAssumption DEF RecoverInterruptedRuns
  <2> QED BY <1>1, <2>2, <2>3
<1>2. CASE ~RunIs(r, "running")
  BY <1>2 DEF RecoverInterruptedRuns
<1> QED BY <1>1, <1>2

(* A source that does not exist has no status.                              *)
LEMMA NoRowIsNoStatus == NoRow # "running" /\ NoRow # "idle"
BY NoRowAssumption DEF SourceStatuses

(* The status column and the run rows change together in every operation.   *)
LEMMA LockStep ==
  ASSUME TypeOK, LockMatchesRun, [ExclusiveNext]_storeVars
  PROVE  LockMatchesRun'
<1>0. ASSUME UNCHANGED <<sources, runs>> PROVE LockMatchesRun'
  BY <1>0 DEF LockMatchesRun, RunIs
<1>1. ASSUME NEW s \in Sources, CreateSource(s) PROVE LockMatchesRun'
  <2>1. UNCHANGED runs
    BY <1>1 DEF CreateSource
  <2>2. \A q \in Sources : sources'[q] = "running" <=> sources[q] = "running"
    BY <1>1, NoRowIsNoStatus DEF CreateSource, TypeOK
  <2> QED BY <2>1, <2>2 DEF LockMatchesRun, RunIs
<1>2. ASSUME NEW s \in Sources, NEW r \in RunIds, StartExclusiveRun(s, r)
      PROVE  LockMatchesRun'
  <2>1. StartRun(s, r) /\ sources[s] # "running"
    BY <1>2 DEF StartExclusiveRun, MayStart
  <2>2. sources' = [sources EXCEPT ![s] = "running"]
    BY <2>1 DEF StartRun
  <2>3. \A q \in RunIds : ~(RunIs(q, "running") /\ runs[q].source = s)
    BY <2>1 DEF LockMatchesRun
  <2>4. \A q \in RunIds \ {r} : runs'[q] = runs[q]
    BY <2>1, OpenedRunRow
  <2>5. runs[r] = NoRow /\ runs'[r] # NoRow /\ runs'[r].source = s /\ runs'[r].status = "running"
    BY <2>1, OpenedRunRow
  <2>6. \A t \in Sources : sources'[t] = IF t = s THEN "running" ELSE sources[t]
    BY <2>2 DEF TypeOK
  <2> QED BY <2>3, <2>4, <2>5, <2>6 DEF LockMatchesRun, RunIs
<1>3. ASSUME NEW r \in RunIds, NEW cards \in Cards, ApplyObservedVacancies(r, cards)
      PROVE  LockMatchesRun'
  BY <1>0, <1>3 DEF ApplyObservedVacancies
<1>4. ASSUME NEW r \in RunIds, NEW status \in Terminal, NEW completion \in Completions,
             NEW counts \in CountsGiven, CompleteRun(r, status, completion, counts)
      PROVE  LockMatchesRun'
  <2> DEFINE src == runs[r].source
  <2>1. RunIs(r, "running") /\ status # "running"
    BY <1>4 DEF CompleteRun, CompleteAccepts, Terminal
  <2>2. \A t \in Sources : sources'[t] = IF t = src THEN status ELSE sources[t]
    BY <1>4 DEF CompleteRun, TypeOK
  <2>3. /\ runs'[r].status = status
        /\ \A q \in RunIds \ {r} : runs'[q] = runs[q]
    BY <1>4, CompletedRunRow
  <2>4. \A q \in RunIds : RunIs(q, "running")' <=> q # r /\ RunIs(q, "running")
    BY <2>1, <2>3 DEF RunIs
  <2> QED BY <2>1, <2>2, <2>3, <2>4 DEF LockMatchesRun
<1>5. CASE RecoverInterruptedRuns
  <2>1. \A r \in RunIds : ~RunIs(r, "running")'
    BY <1>5, RecoveredRows DEF RunIs
  <2>2. \A s \in Sources : s \notin Interrupted => sources[s] # "running"
    BY DEF LockMatchesRun, Interrupted
  <2>3. \A s \in Sources : sources'[s] # "running"
    BY <1>5, <2>2 DEF RecoverInterruptedRuns
  <2> QED BY <2>1, <2>3 DEF LockMatchesRun
<1>6. ASSUME NEW v \in Vacancies, NEW status \in UserStatuses,
             UpdateVacancyUserStatus(v, status)
      PROVE  LockMatchesRun'
  BY <1>0, <1>6 DEF UpdateVacancyUserStatus
<1>7. CASE UNCHANGED storeVars
  BY <1>0, <1>7 DEF storeVars
<1> QED BY <1>1, <1>2, <1>3, <1>4, <1>5, <1>6, <1>7 DEF ExclusiveNext

(* With exclusive starts, a source is running if and only if exactly one    *)
(* run of it is: the status column works as a lock.                         *)
THEOREM LockIsExact == ExclusiveSpec => []LockMatchesRun
<1>1. Init => LockMatchesRun
  BY NoRowIsNoStatus DEF Init, LockMatchesRun, RunIs
<1>2. TypeOK /\ LockMatchesRun /\ [ExclusiveNext]_storeVars => LockMatchesRun'
  BY LockStep
<1> QED BY <1>1, <1>2, ExclusiveTypeCorrect, PTL DEF ExclusiveSpec

(* Every step of the store is an acquisition, a release or a recovery of    *)
(* the abstract lock, or leaves it alone.                                   *)
LEMMA LockSimulation ==
  ASSUME TypeOK, LockMatchesRun, [ExclusiveNext]_storeVars
  PROVE  [Lock!Next]_(Lock!lockVars)
<1> USE DEF Lock!lockVars, phase, owner
<1>1. ASSUME UNCHANGED runs PROVE UNCHANGED Lock!lockVars
  BY <1>1
<1>2. ASSUME NEW s \in Sources, NEW r \in RunIds, StartExclusiveRun(s, r)
      PROVE  Lock!Acquire(s, r)
  <2>1. StartRun(s, r) /\ sources[s] # "running"
    BY <1>2 DEF StartExclusiveRun, MayStart
  <2>2. Lock!Holders(s) = {}
    BY <2>1 DEF Lock!Holders, LockMatchesRun, RunIs
  <2>3. /\ runs[r] = NoRow /\ runs'[r] # NoRow
        /\ runs'[r].source = s /\ runs'[r].status = "running"
        /\ \A q \in RunIds \ {r} : runs'[q] = runs[q]
    BY <2>1, OpenedRunRow
  <2> QED BY <2>2, <2>3 DEF Lock!Acquire
<1>3. ASSUME NEW r \in RunIds, NEW status \in Terminal, NEW completion \in Completions,
             NEW counts \in CountsGiven, CompleteRun(r, status, completion, counts)
      PROVE  Lock!Release(r, status)
  <2>1. runs[r] # NoRow
    BY <1>3 DEF CompleteRun, CompleteAccepts, RunIs
  <2>2. /\ runs[r].status = "running" /\ runs'[r] # NoRow
        /\ runs'[r].source = runs[r].source /\ runs'[r].status = status
        /\ \A q \in RunIds \ {r} : runs'[q] = runs[q]
    BY <1>3, CompletedRunRow
  <2> QED BY <2>1, <2>2 DEF Lock!Release
<1>4. ASSUME RecoverInterruptedRuns PROVE Lock!GiveUpAll
  BY <1>4, RecoveredRows DEF Lock!GiveUpAll, RunIs
<1>5. ASSUME NEW s \in Sources, CreateSource(s) PROVE UNCHANGED runs
  BY <1>5 DEF CreateSource
<1>6. ASSUME NEW r \in RunIds, NEW cards \in Cards, ApplyObservedVacancies(r, cards)
      PROVE  UNCHANGED runs
  BY <1>6 DEF ApplyObservedVacancies
<1>7. ASSUME NEW v \in Vacancies, NEW status \in UserStatuses,
             UpdateVacancyUserStatus(v, status)
      PROVE  UNCHANGED runs
  BY <1>7 DEF UpdateVacancyUserStatus
<1>8. CASE UNCHANGED storeVars
  BY <1>1, <1>8 DEF storeVars
<1> QED
  BY <1>1, <1>2, <1>3, <1>4, <1>5, <1>6, <1>7, <1>8
  DEF ExclusiveNext, Lock!Next, Lock!Outcomes, Terminal

(* The run log, used with exclusive starts, implements the abstract lock.   *)
THEOREM StoreImplementsLock == ExclusiveSpec => LockSpec
<1>1. Init => Lock!Init
  BY DEF Init, Lock!Init, phase, owner
<1>2. TypeOK /\ LockMatchesRun /\ [ExclusiveNext]_storeVars => [Lock!Next]_(Lock!lockVars)
  BY LockSimulation
<1> QED
  BY <1>1, <1>2, ExclusiveTypeCorrect, LockIsExact, PTL
  DEF ExclusiveSpec, LockSpec, Lock!Spec
-----------------------------------------------------------------------------
(* The rows and the runs they name *)

(* What the observations of a run do to the vacancies and to their records. *)
LEMMA AppliedRows ==
  ASSUME TypeOK, NEW r \in RunIds, NEW cards \in Cards, ApplyObservedVacancies(r, cards),
         NEW v \in Vacancies
  PROVE  /\ runs[r] # NoRow
         /\ v \in Observed(r, cards) =>
              /\ v[1] = runs[r].source
              /\ vacancies'[v] # NoRow
              /\ vacancies'[v].lastRun = r
              /\ vacancies'[v].listing = "active"
              /\ composition'[r][v] \in Observations
         /\ v \notin Observed(r, cards) =>
              vacancies'[v] = vacancies[v] /\ composition'[r][v] = composition[r][v]
         /\ \A q \in RunIds \ {r} : composition'[q] = composition[q]
<1> DEFINE row == ObservedRow(r, v, ContentOf(cards, v))
<1>1. runs[r] # NoRow
  BY DEF ApplyObservedVacancies, ApplyAccepts, RunIs
<1>2. ASSUME v \in Observed(r, cards)
      PROVE  /\ v[1] = runs[r].source
             /\ vacancies'[v] # NoRow
             /\ vacancies'[v].lastRun = r
             /\ vacancies'[v].listing = "active"
             /\ composition'[r][v] \in Observations
  <2>1. vacancies'[v] = row
    BY <1>2 DEF ApplyObservedVacancies
  <2>2. row.lastRun = r /\ row.listing = "active"
    BY DEF ObservedRow
  <2>3. vacancies'[v] # NoRow
    <3>1. CASE vacancies[v] = NoRow
      <4>1. ContentOf(cards, v) \in Contents
        BY <1>2, ContentOfFirst
      <4>2. row \in VacancyRow
        BY <3>1, <4>1, ConstantsAssumption DEF ObservedRow, VacancyRow
      <4> QED BY <2>1, <4>2, NoRowAssumption
    <3>2. CASE vacancies[v] # NoRow
      <4>1. ContentOf(cards, v) \in Contents
        BY <1>2, ContentOfFirst
      <4>2. row \in VacancyRow
        BY <3>2, <4>1, RowShapes DEF ObservedRow, VacancyRow
      <4> QED BY <2>1, <4>2, NoRowAssumption
    <3> QED BY <3>1, <3>2
  <2>4. composition'[r][v] = Disposition(v, ContentOf(cards, v))
    BY <1>2 DEF ApplyObservedVacancies, TypeOK
  <2>5. v[1] = runs[r].source
    BY <1>2 DEF Observed
  <2> QED BY <2>1, <2>2, <2>3, <2>4, <2>5 DEF Disposition, Observations
<1>3. ASSUME v \notin Observed(r, cards)
      PROVE  vacancies'[v] = vacancies[v] /\ composition'[r][v] = composition[r][v]
  BY <1>3 DEF ApplyObservedVacancies, TypeOK
<1>4. \A q \in RunIds \ {r} : composition'[q] = composition[q]
  BY DEF ApplyObservedVacancies, TypeOK
<1> QED BY <1>1, <1>2, <1>3, <1>4

(* What the end of a run does to the vacancies and to their records.        *)
LEMMA CompletedRows ==
  ASSUME TypeOK, NEW r \in RunIds, NEW status \in Terminal, NEW completion \in Completions,
         NEW counts \in CountsGiven, CompleteRun(r, status, completion, counts),
         NEW v \in Vacancies
  PROVE  LET gone == ToArchive(r, status, completion) IN
         /\ v \in gone =>
              /\ v[1] = runs[r].source
              /\ vacancies[v] # NoRow
              /\ vacancies[v].lastRun # r
              /\ vacancies'[v].lastRun = vacancies[v].lastRun
              /\ composition'[r][v] = "archived"
         /\ v \notin gone =>
              vacancies'[v] = vacancies[v] /\ composition'[r][v] = composition[r][v]
         /\ (vacancies'[v] # NoRow) = (vacancies[v] # NoRow)
         /\ \A q \in RunIds \ {r} : composition'[q] = composition[q]
<1> DEFINE gone == ToArchive(r, status, completion)
<1>1. ASSUME v \in gone
      PROVE  /\ v[1] = runs[r].source
             /\ vacancies[v] # NoRow
             /\ vacancies[v].lastRun # r
             /\ vacancies'[v] # NoRow
             /\ vacancies'[v].lastRun = vacancies[v].lastRun
             /\ composition'[r][v] = "archived"
  <2>1. v[1] = runs[r].source /\ vacancies[v] # NoRow /\ vacancies[v].lastRun # r
    BY <1>1 DEF ToArchive, Unseen
  <2>2. vacancies[v] \in VacancyRow
    BY <2>1, RowShapes
  <2>3. vacancies'[v] = ArchivedRow(r, v)
    BY <1>1 DEF CompleteRun
  <2>4. ArchivedRow(r, v) \in VacancyRow /\ ArchivedRow(r, v).lastRun = vacancies[v].lastRun
    BY <2>2 DEF ArchivedRow, VacancyRow
  <2>5. composition'[r][v] = "archived"
    BY <1>1 DEF CompleteRun, TypeOK
  <2> QED BY <2>1, <2>3, <2>4, <2>5, NoRowAssumption
<1>2. ASSUME v \notin gone
      PROVE  vacancies'[v] = vacancies[v] /\ composition'[r][v] = composition[r][v]
  BY <1>2 DEF CompleteRun, TypeOK
<1>3. \A q \in RunIds \ {r} : composition'[q] = composition[q]
  BY DEF CompleteRun, TypeOK
<1> QED BY <1>1, <1>2, <1>3

(* A mark on a vacancy changes the mark and nothing else.                   *)
LEMMA MarkedRows ==
  ASSUME TypeOK, NEW w \in Vacancies, NEW status \in UserStatuses,
         UpdateVacancyUserStatus(w, status), NEW v \in Vacancies
  PROVE  /\ (vacancies'[v] # NoRow) = (vacancies[v] # NoRow)
         /\ vacancies[v] # NoRow => /\ vacancies'[v].lastRun = vacancies[v].lastRun
                                    /\ vacancies'[v].listing = vacancies[v].listing
<1>1. CASE v = w
  <2>1. vacancies[v] \in VacancyRow /\ vacancies[v] # NoRow
    BY <1>1, RowShapes DEF UpdateVacancyUserStatus
  <2>2. vacancies'[v] = [vacancies[v] EXCEPT !.user = status]
    BY <1>1 DEF UpdateVacancyUserStatus, TypeOK
  <2>3. /\ vacancies'[v] \in VacancyRow
        /\ vacancies'[v].lastRun = vacancies[v].lastRun
        /\ vacancies'[v].listing = vacancies[v].listing
    BY <2>1, <2>2 DEF VacancyRow
  <2> QED BY <2>1, <2>3, NoRowAssumption
<1>2. CASE v # w
  BY <1>2 DEF UpdateVacancyUserStatus, TypeOK
<1> QED BY <1>1, <1>2

(* A run that exists stays, with its source.                                *)
LEMMA RunsStay ==
  ASSUME TypeOK, [Next]_storeVars, NEW r \in RunIds, runs[r] # NoRow
  PROVE  runs'[r] # NoRow /\ runs'[r].source = runs[r].source
<1>1. ASSUME NEW s \in Sources, NEW q \in RunIds, StartRun(s, q)
      PROVE  runs'[r] = runs[r]
  BY <1>1, OpenedRunRow
<1>2. ASSUME NEW q \in RunIds, NEW status \in Terminal, NEW completion \in Completions,
             NEW counts \in CountsGiven, CompleteRun(q, status, completion, counts)
      PROVE  runs'[r] # NoRow /\ runs'[r].source = runs[r].source
  BY <1>2, CompletedRunRow
<1>3. CASE RecoverInterruptedRuns
  BY <1>3, RecoveredRows
<1> QED
  BY <1>1, <1>2, <1>3
  DEF Next, ExclusiveNext, StartExclusiveRun, CreateSource, ApplyObservedVacancies,
      UpdateVacancyUserStatus, storeVars

(* An observation stamps the row and records the disposition together;      *)
(* archival records only under runs that are not on the row.                *)
LEMMA LastRunStep ==
  ASSUME TypeOK, LastRunSawVacancy, [Next]_storeVars
  PROVE  LastRunSawVacancy'
<1> SUFFICES ASSUME NEW v \in Vacancies, vacancies'[v] # NoRow
             PROVE  /\ runs'[vacancies'[v].lastRun] # NoRow
                    /\ runs'[vacancies'[v].lastRun].source = v[1]
                    /\ composition'[vacancies'[v].lastRun][v] \in Observations
  BY DEF LastRunSawVacancy
<1>1. ASSUME vacancies[v] # NoRow,
             vacancies'[v].lastRun = vacancies[v].lastRun,
             composition'[vacancies[v].lastRun][v] = composition[vacancies[v].lastRun][v]
      PROVE  /\ runs'[vacancies'[v].lastRun] # NoRow
             /\ runs'[vacancies'[v].lastRun].source = v[1]
             /\ composition'[vacancies'[v].lastRun][v] \in Observations
  <2>1. vacancies[v].lastRun \in RunIds
    BY <1>1, RowShapes DEF VacancyRow
  <2> QED BY <1>1, <2>1, RunsStay DEF LastRunSawVacancy
<1>2. ASSUME UNCHANGED <<vacancies, composition>>
      PROVE  /\ runs'[vacancies'[v].lastRun] # NoRow
             /\ runs'[vacancies'[v].lastRun].source = v[1]
             /\ composition'[vacancies'[v].lastRun][v] \in Observations
  BY <1>1, <1>2
<1>3. ASSUME NEW r \in RunIds, NEW cards \in Cards, ApplyObservedVacancies(r, cards)
      PROVE  /\ runs'[vacancies'[v].lastRun] # NoRow
             /\ runs'[vacancies'[v].lastRun].source = v[1]
             /\ composition'[vacancies'[v].lastRun][v] \in Observations
  <2>1. CASE v \in Observed(r, cards)
    <3>1. /\ vacancies'[v].lastRun = r
          /\ composition'[r][v] \in Observations
          /\ runs[r] # NoRow /\ runs[r].source = v[1]
      BY <1>3, <2>1, AppliedRows
    <3>2. runs'[r] # NoRow /\ runs'[r].source = v[1]
      BY <3>1, RunsStay
    <3> QED BY <3>1, <3>2
  <2>2. CASE v \notin Observed(r, cards)
    <3>1. vacancies'[v] = vacancies[v]
      BY <1>3, <2>2, AppliedRows
    <3>2. vacancies[v].lastRun \in RunIds
      BY <3>1, RowShapes DEF VacancyRow
    <3>3. composition'[vacancies[v].lastRun][v] = composition[vacancies[v].lastRun][v]
      BY <1>3, <2>2, <3>2, AppliedRows
    <3> QED BY <1>1, <3>1, <3>3
  <2> QED BY <2>1, <2>2
<1>4. ASSUME NEW r \in RunIds, NEW status \in Terminal, NEW completion \in Completions,
             NEW counts \in CountsGiven, CompleteRun(r, status, completion, counts)
      PROVE  /\ runs'[vacancies'[v].lastRun] # NoRow
             /\ runs'[vacancies'[v].lastRun].source = v[1]
             /\ composition'[vacancies'[v].lastRun][v] \in Observations
  <2>1. vacancies[v] # NoRow /\ vacancies'[v].lastRun = vacancies[v].lastRun
    BY <1>4, CompletedRows
  <2>2. vacancies[v].lastRun \in RunIds
    BY <2>1, RowShapes DEF VacancyRow
  <2>3. composition'[vacancies[v].lastRun][v] = composition[vacancies[v].lastRun][v]
    BY <1>4, <2>2, CompletedRows
  <2> QED BY <1>1, <2>1, <2>3
<1>5. ASSUME NEW w \in Vacancies, NEW status \in UserStatuses,
             UpdateVacancyUserStatus(w, status)
      PROVE  /\ runs'[vacancies'[v].lastRun] # NoRow
             /\ runs'[vacancies'[v].lastRun].source = v[1]
             /\ composition'[vacancies'[v].lastRun][v] \in Observations
  <2>1. vacancies[v] # NoRow /\ vacancies'[v].lastRun = vacancies[v].lastRun
    BY <1>5, MarkedRows
  <2>2. composition' = composition
    BY <1>5 DEF UpdateVacancyUserStatus
  <2> QED BY <1>1, <2>1, <2>2
<1> QED
  BY <1>2, <1>3, <1>4, <1>5
  DEF Next, ExclusiveNext, StartExclusiveRun, StartRun, CreateSource,
      RecoverInterruptedRuns, storeVars

(* last_run_id names a run that has the vacancy on record as observed, in   *)
(* whatever order runs start, overlap, end or are given up.                 *)
THEOREM LastRunIsRecorded == Spec => []LastRunSawVacancy
<1>1. Init => LastRunSawVacancy
  BY DEF Init, LastRunSawVacancy
<1>2. TypeOK /\ LastRunSawVacancy /\ [Next]_storeVars => LastRunSawVacancy'
  BY LastRunStep
<1> QED BY <1>1, <1>2, TypeCorrect, PTL DEF Spec

(* Each operation that closes a run writes its source, and each that sets a *)
(* source running opens a run.                                              *)
LEMMA StrandedStep ==
  ASSUME TypeOK, SourceRunningHasRun, [Next]_storeVars
  PROVE  SourceRunningHasRun'
<1> SUFFICES ASSUME NEW s \in Sources, sources'[s] = "running"
             PROVE  \E r \in RunIds : RunIs(r, "running")' /\ runs'[r].source = s
  BY DEF SourceRunningHasRun
<1>1. ASSUME UNCHANGED <<sources, runs>>
      PROVE  \E r \in RunIds : RunIs(r, "running")' /\ runs'[r].source = s
  BY <1>1 DEF SourceRunningHasRun, RunIs
<1>2. ASSUME NEW t \in Sources, CreateSource(t)
      PROVE  \E r \in RunIds : RunIs(r, "running")' /\ runs'[r].source = s
  <2>1. sources[s] = "running" /\ runs' = runs
    BY <1>2 DEF CreateSource, TypeOK
  <2> QED BY <2>1 DEF SourceRunningHasRun, RunIs
<1>3. ASSUME NEW t \in Sources, NEW q \in RunIds, StartRun(t, q)
      PROVE  \E r \in RunIds : RunIs(r, "running")' /\ runs'[r].source = s
  <2>1. CASE s = t
    BY <1>3, <2>1, OpenedRunRow DEF RunIs
  <2>2. CASE s # t
    <3>1. sources[s] = "running"
      BY <1>3, <2>2 DEF StartRun, TypeOK
    <3>2. PICK r \in RunIds : RunIs(r, "running") /\ runs[r].source = s
      BY <3>1 DEF SourceRunningHasRun
    <3>3. runs'[r] = runs[r]
      BY <1>3, <3>2, OpenedRunRow DEF RunIs
    <3> QED BY <3>2, <3>3 DEF RunIs
  <2> QED BY <2>1, <2>2
<1>4. ASSUME NEW q \in RunIds, NEW status \in Terminal, NEW completion \in Completions,
             NEW counts \in CountsGiven, CompleteRun(q, status, completion, counts)
      PROVE  \E r \in RunIds : RunIs(r, "running")' /\ runs'[r].source = s
  <2>1. sources' = [sources EXCEPT ![runs[q].source] = status] /\ status # "running"
    BY <1>4 DEF CompleteRun, Terminal
  <2>2. s # runs[q].source /\ sources[s] = "running"
    BY <2>1 DEF TypeOK
  <2>3. PICK r \in RunIds : RunIs(r, "running") /\ runs[r].source = s
    BY <2>2 DEF SourceRunningHasRun
  <2>4. runs'[r] = runs[r]
    BY <1>4, <2>2, <2>3, CompletedRunRow
  <2> QED BY <2>3, <2>4 DEF RunIs
<1>5. CASE RecoverInterruptedRuns
  <2>1. s \notin Interrupted /\ sources[s] = "running"
    BY <1>5 DEF RecoverInterruptedRuns
  <2> QED BY <2>1 DEF SourceRunningHasRun, Interrupted
<1> QED
  BY <1>1, <1>2, <1>3, <1>4, <1>5
  DEF Next, ExclusiveNext, StartExclusiveRun, ApplyObservedVacancies,
      UpdateVacancyUserStatus, storeVars

(* No source is left marked running without a run that can still end, also  *)
(* when runs of it overlap.                                                 *)
THEOREM StatusIsNeverStranded == Spec => []SourceRunningHasRun
<1>1. Init => SourceRunningHasRun
  BY NoRowIsNoStatus DEF Init, SourceRunningHasRun
<1>2. TypeOK /\ SourceRunningHasRun /\ [Next]_storeVars => SourceRunningHasRun'
  BY StrandedStep
<1> QED BY <1>1, <1>2, TypeCorrect, PTL DEF Spec

(* A run has only vacancies of its own source on record, and one that has   *)
(* not begun has none: what makes ownership inductive.                      *)
RecordsAreOfTheSource ==
  \A r \in RunIds, v \in Vacancies :
    composition[r][v] # "none" => runs[r] # NoRow /\ runs[r].source = v[1]

(* Only observing and archiving write records, and both stay within the     *)
(* source of their run.                                                     *)
LEMMA RecordsStep ==
  ASSUME TypeOK, RecordsAreOfTheSource, [Next]_storeVars
  PROVE  RecordsAreOfTheSource'
<1> SUFFICES ASSUME NEW r \in RunIds, NEW v \in Vacancies, composition'[r][v] # "none"
             PROVE  runs'[r] # NoRow /\ runs'[r].source = v[1]
  BY DEF RecordsAreOfTheSource
<1>1. CASE composition[r][v] # "none"
  BY <1>1, RunsStay DEF RecordsAreOfTheSource
<1>2. CASE composition[r][v] = "none"
  <2>1. ASSUME NEW q \in RunIds, NEW cards \in Cards, ApplyObservedVacancies(q, cards)
        PROVE  runs[r] # NoRow /\ runs[r].source = v[1]
    BY <1>2, <2>1, AppliedRows
  <2>2. ASSUME NEW q \in RunIds, NEW status \in Terminal, NEW completion \in Completions,
               NEW counts \in CountsGiven, CompleteRun(q, status, completion, counts)
        PROVE  runs[r] # NoRow /\ runs[r].source = v[1]
    <3>1. q = r /\ v \in ToArchive(q, status, completion)
      BY <1>2, <2>2, CompletedRows
    <3> QED BY <2>2, <3>1, CompletedRows DEF CompleteRun, CompleteAccepts, RunIs
  <2>3. ASSUME UNCHANGED composition PROVE FALSE
    BY <1>2, <2>3
  <2>4. runs[r] # NoRow /\ runs[r].source = v[1]
    BY <2>1, <2>2, <2>3
    DEF Next, ExclusiveNext, StartExclusiveRun, StartRun, CreateSource,
        RecoverInterruptedRuns, UpdateVacancyUserStatus, storeVars
  <2> QED BY <2>4, RunsStay
<1> QED BY <1>1, <1>2

(* Another run that writes to a row this run owns would be a second running *)
(* run of the same source, which the lock excludes.                         *)
LEMMA OwnershipStep ==
  ASSUME TypeOK, LockMatchesRun, RecordsAreOfTheSource, RunOwnsItsRows,
         [ExclusiveNext]_storeVars
  PROVE  RunOwnsItsRows'
<1> SUFFICES ASSUME NEW r \in RunIds, RunIs(r, "running")',
                    NEW v \in Vacancies, composition'[r][v] \in Observations
             PROVE  /\ vacancies'[v] # NoRow
                    /\ vacancies'[v].lastRun = r
                    /\ vacancies'[v].listing = "active"
  BY DEF RunOwnsItsRows, Recorded
<1>1. "none" \notin Observations /\ "archived" \notin Observations
  BY DEF Observations
<1>2. ASSUME RunIs(r, "running"), composition[r][v] \in Observations
      PROVE  /\ vacancies[v] # NoRow
             /\ vacancies[v].lastRun = r
             /\ vacancies[v].listing = "active"
             /\ runs[r].source = v[1]
  BY <1>1, <1>2 DEF RunOwnsItsRows, Recorded, RecordsAreOfTheSource
<1>3. ASSUME NEW q \in RunIds, RunIs(q, "running"), RunIs(r, "running"),
             composition[r][v] \in Observations, runs[q].source = v[1]
      PROVE  q = r
  BY <1>2, <1>3 DEF LockMatchesRun
<1>4. ASSUME NEW s \in Sources, NEW q \in RunIds, StartExclusiveRun(s, q)
      PROVE  UNCHANGED <<vacancies, composition>> /\ RunIs(r, "running")
  <2>1. StartRun(s, q)
    BY <1>4 DEF StartExclusiveRun
  <2>2. UNCHANGED <<vacancies, composition>>
    BY <2>1 DEF StartRun
  <2>3. r # q
    BY <1>1, <2>1, <2>2, OpenedRunRow DEF RecordsAreOfTheSource
  <2> QED BY <2>1, <2>2, <2>3, OpenedRunRow DEF RunIs
<1>5. ASSUME NEW q \in RunIds, NEW cards \in Cards, ApplyObservedVacancies(q, cards)
      PROVE  /\ vacancies'[v] # NoRow
             /\ vacancies'[v].lastRun = r
             /\ vacancies'[v].listing = "active"
  <2>1. RunIs(q, "running") /\ RunIs(r, "running")
    BY <1>5 DEF ApplyObservedVacancies, ApplyAccepts, RunIs
  <2>2. CASE v \in Observed(q, cards)
    <3>1. q = r
      <4>1. CASE q # r
        <5>1. composition[r][v] \in Observations
          BY <1>5, <4>1, AppliedRows
        <5>2. runs[q].source = v[1]
          BY <1>5, <2>2, AppliedRows
        <5> QED BY <1>3, <2>1, <5>1, <5>2
      <4> QED BY <4>1
    <3> QED BY <1>5, <2>2, <3>1, AppliedRows
  <2>3. CASE v \notin Observed(q, cards)
    <3>1. composition[r][v] \in Observations /\ vacancies'[v] = vacancies[v]
      BY <1>5, <2>3, AppliedRows
    <3> QED BY <1>2, <2>1, <3>1
  <2> QED BY <2>2, <2>3
<1>6. ASSUME NEW q \in RunIds, NEW status \in Terminal, NEW completion \in Completions,
             NEW counts \in CountsGiven, CompleteRun(q, status, completion, counts)
      PROVE  /\ vacancies'[v] # NoRow
             /\ vacancies'[v].lastRun = r
             /\ vacancies'[v].listing = "active"
  <2>1. RunIs(q, "running") /\ "running" \notin Terminal
    BY <1>6 DEF CompleteRun, CompleteAccepts, Terminal
  <2>2. q # r /\ RunIs(r, "running")
    BY <1>6, <2>1, CompletedRunRow DEF RunIs
  <2>3. composition[r][v] \in Observations
    BY <1>6, <2>2, CompletedRows
  <2>4. v \notin ToArchive(q, status, completion)
    BY <1>3, <1>6, <2>1, <2>2, <2>3, CompletedRows
  <2>5. vacancies'[v] = vacancies[v]
    BY <1>6, <2>4, CompletedRows
  <2> QED BY <1>2, <2>2, <2>3, <2>5
<1>7. CASE RecoverInterruptedRuns
  <2>1. RunIs(r, "running")
    BY <1>7, RecoveredRows DEF RunIs
  <2> QED BY <1>7, <2>1, RecoveredRows DEF RunIs
<1>8. ASSUME NEW w \in Vacancies, NEW status \in UserStatuses,
             UpdateVacancyUserStatus(w, status)
      PROVE  /\ vacancies'[v] # NoRow
             /\ vacancies'[v].lastRun = r
             /\ vacancies'[v].listing = "active"
  <2>1. RunIs(r, "running") /\ composition[r][v] \in Observations
    BY <1>8 DEF UpdateVacancyUserStatus, RunIs
  <2> QED BY <1>2, <1>8, <2>1, MarkedRows
<1>9. ASSUME UNCHANGED <<runs, vacancies, composition>>
      PROVE  /\ vacancies'[v] # NoRow
             /\ vacancies'[v].lastRun = r
             /\ vacancies'[v].listing = "active"
  BY <1>2, <1>9 DEF RunIs
<1>10. ASSUME NEW s \in Sources, NEW q \in RunIds, StartExclusiveRun(s, q)
       PROVE  /\ vacancies'[v] # NoRow
              /\ vacancies'[v].lastRun = r
              /\ vacancies'[v].listing = "active"
  BY <1>2, <1>4, <1>10
<1> QED
  BY <1>5, <1>6, <1>7, <1>8, <1>9, <1>10 DEF ExclusiveNext, CreateSource, storeVars

(* Under exclusive starts what a running run has observed stays its own, so *)
(* its completion cannot fail on a row it already has on record.            *)
THEOREM ActiveRowsStayOwned == ExclusiveSpec => []RunOwnsItsRows
<1>1. Init => RecordsAreOfTheSource /\ RunOwnsItsRows
  BY DEF Init, RecordsAreOfTheSource, RunOwnsItsRows, RunIs
<1>2. TypeOK /\ RecordsAreOfTheSource /\ [ExclusiveNext]_storeVars => RecordsAreOfTheSource'
  BY RecordsStep, ExclusiveIsNext
<1>3. TypeOK /\ LockMatchesRun /\ RecordsAreOfTheSource /\ RunOwnsItsRows
        /\ [ExclusiveNext]_storeVars => RunOwnsItsRows'
  BY OwnershipStep
<1> QED BY <1>1, <1>2, <1>3, ExclusiveTypeCorrect, LockIsExact, PTL DEF ExclusiveSpec

(* A run has only vacancies of its own source on record, whatever the       *)
(* callers do, and before it begins it has none.                            *)
THEOREM RecordsHaveTheirSource == Spec => []RecordsAreOfTheSource
<1>1. Init => RecordsAreOfTheSource
  BY DEF Init, RecordsAreOfTheSource
<1>2. TypeOK /\ RecordsAreOfTheSource /\ [Next]_storeVars => RecordsAreOfTheSource'
  BY RecordsStep
<1> QED BY <1>1, <1>2, TypeCorrect, PTL DEF Spec

-----------------------------------------------------------------------------
(* What is on record, and what is counted *)

(* How the record of one run and vacancy may change: nothing, or from none  *)
(* to the disposition of an observation or to archived.                     *)
LEMMA RecordMoves ==
  ASSUME TypeOK, [Next]_storeVars, NEW r \in RunIds, NEW v \in Vacancies
  PROVE  \/ composition'[r][v] = composition[r][v]
         \/ /\ composition[r][v] = "none"
            /\ \E cards \in Cards :
                 /\ ApplyObservedVacancies(r, cards) /\ v \in Observed(r, cards)
                 /\ composition'[r][v] = Disposition(v, ContentOf(cards, v))
         \/ /\ composition[r][v] = "none"
            /\ composition'[r][v] = "archived"
            /\ \E status \in Terminal, completion \in Completions, counts \in CountsGiven :
                 /\ CompleteRun(r, status, completion, counts)
                 /\ v \in ToArchive(r, status, completion)
<1> DEFINE Same == composition'[r][v] = composition[r][v]
<1>1. ASSUME NEW q \in RunIds, NEW cards \in Cards, ApplyObservedVacancies(q, cards), ~Same
      PROVE  /\ q = r /\ composition[r][v] = "none" /\ v \in Observed(r, cards)
             /\ composition'[r][v] = Disposition(v, ContentOf(cards, v))
  <2>1. q = r /\ v \in Observed(q, cards)
    BY <1>1, AppliedRows
  <2> QED BY <1>1, <2>1 DEF ApplyObservedVacancies, ApplyAccepts, TypeOK
<1>2. ASSUME NEW q \in RunIds, NEW status \in Terminal, NEW completion \in Completions,
             NEW counts \in CountsGiven, CompleteRun(q, status, completion, counts), ~Same
      PROVE  /\ q = r /\ composition[r][v] = "none" /\ composition'[r][v] = "archived"
             /\ v \in ToArchive(r, status, completion)
  <2>1. q = r /\ v \in ToArchive(q, status, completion)
    BY <1>2, CompletedRows
  <2>2. composition'[r][v] = "archived"
    BY <1>2, <2>1, CompletedRows
  <2> QED BY <1>2, <2>1, <2>2 DEF CompleteRun, CompleteAccepts
<1>3. UNCHANGED composition => Same
  OBVIOUS
<1> HIDE DEF Same
<1>4. CASE Same
  BY <1>4 DEF Same
<1>5. CASE ~Same
  BY <1>1, <1>2, <1>3, <1>5
     DEF Next, ExclusiveNext, StartExclusiveRun, StartRun, CreateSource,
         RecoverInterruptedRuns, UpdateVacancyUserStatus, storeVars
<1> QED BY <1>4, <1>5

(* The archived counter and the archived records of a run are written in    *)
(* one transaction, and no other one touches either.                        *)
LEMMA ArchivedCountStep ==
  ASSUME TypeOK, RecordsAreOfTheSource, ArchivedCountIsRecorded, [Next]_storeVars
  PROVE  ArchivedCountIsRecorded'
<1> SUFFICES ASSUME NEW r \in RunIds, runs'[r] # NoRow
             PROVE  /\ runs'[r].archived = Cardinality(Recorded(r, {"archived"})')
                    /\ Recorded(r, {"archived"})' # {} =>
                         Archives(runs'[r].status, runs'[r].completion)
  BY DEF ArchivedCountIsRecorded
<1>1. "archived" \notin Observations
  BY DEF Observations
<1>2. ASSUME \A status \in Terminal, completion \in Completions, counts \in CountsGiven :
               ~CompleteRun(r, status, completion, counts)
      PROVE  Recorded(r, {"archived"})' = Recorded(r, {"archived"})
  <2>1. ASSUME NEW v \in Vacancies
        PROVE  composition'[r][v] = "archived" <=> composition[r][v] = "archived"
    <3>1. CASE composition'[r][v] = composition[r][v]
      BY <3>1
    <3>2. ASSUME NEW cards \in Cards, composition[r][v] = "none",
                 composition'[r][v] = Disposition(v, ContentOf(cards, v))
          PROVE  composition'[r][v] # "archived" /\ composition[r][v] # "archived"
      BY <3>2 DEF Disposition
    <3> QED BY <1>2, <3>1, <3>2, RecordMoves
  <2> QED BY <2>1 DEF Recorded
<1>3. ASSUME RunIs(r, "running") PROVE Recorded(r, {"archived"}) = {}
  BY <1>3 DEF ArchivedCountIsRecorded, Archives, RunIs
<1>4. ASSUME NEW status \in Terminal, NEW completion \in Completions,
             NEW counts \in CountsGiven, CompleteRun(r, status, completion, counts)
      PROVE  /\ runs'[r].archived = Cardinality(Recorded(r, {"archived"})')
             /\ Recorded(r, {"archived"})' # {} =>
                  Archives(runs'[r].status, runs'[r].completion)
  <2>1. Recorded(r, {"archived"}) = {}
    BY <1>3, <1>4 DEF CompleteRun, CompleteAccepts
  <2>2. ASSUME NEW v \in Vacancies
        PROVE  composition'[r][v] = "archived" <=> v \in ToArchive(r, status, completion)
    BY <1>4, <2>1, CompletedRows DEF Recorded
  <2>3. Recorded(r, {"archived"})' = ToArchive(r, status, completion)
    BY <2>2 DEF Recorded, ToArchive, Unseen
  <2>4. ToArchive(r, status, completion) # {} => Archives(status, completion)
    BY DEF ToArchive
  <2> QED BY <1>4, <2>3, <2>4, CompletedRunRow
<1>5. CASE runs'[r] = runs[r] /\ Recorded(r, {"archived"})' = Recorded(r, {"archived"})
  BY <1>5 DEF ArchivedCountIsRecorded
<1>6. ASSUME NEW s \in Sources, StartRun(s, r)
      PROVE  /\ runs'[r].archived = Cardinality(Recorded(r, {"archived"})')
             /\ Recorded(r, {"archived"})' # {} =>
                  Archives(runs'[r].status, runs'[r].completion)
  <2>1. runs[r] = NoRow /\ runs'[r].archived = 0 /\ composition' = composition
    BY <1>6, OpenedRunRow DEF StartRun
  <2>2. Recorded(r, {"archived"})' = {}
    BY <2>1 DEF RecordsAreOfTheSource, Recorded
  <2> QED BY <2>1, <2>2, FS_EmptySet
<1>7. CASE RecoverInterruptedRuns /\ RunIs(r, "running")
  <2>1. runs'[r].archived = runs[r].archived /\ composition' = composition /\ runs[r] # NoRow
    BY <1>7, RecoveredRows DEF RecoverInterruptedRuns, RunIs
  <2>2. Recorded(r, {"archived"})' = {}
    BY <1>3, <1>7, <2>1 DEF Recorded
  <2>3. runs[r].archived = Cardinality(Recorded(r, {"archived"}))
    BY <2>1 DEF ArchivedCountIsRecorded
  <2> QED BY <1>3, <1>7, <2>1, <2>2, <2>3
<1>8. CASE \A status \in Terminal, completion \in Completions, counts \in CountsGiven :
             ~CompleteRun(r, status, completion, counts)
  <2>1. CASE runs'[r] = runs[r]
    BY <1>2, <1>5, <1>8, <2>1
  <2>2. CASE runs'[r] # runs[r]
    <3>1. (\E s \in Sources : StartRun(s, r)) \/ (RecoverInterruptedRuns /\ RunIs(r, "running"))
      <4>1. ASSUME NEW s \in Sources, NEW q \in RunIds, StartRun(s, q) PROVE q = r
        BY <2>2, <4>1, OpenedRunRow
      <4>2. ASSUME NEW q \in RunIds, NEW status \in Terminal, NEW completion \in Completions,
                   NEW counts \in CountsGiven, CompleteRun(q, status, completion, counts)
            PROVE  FALSE
        BY <1>8, <2>2, <4>2, CompletedRunRow
      <4>3. ASSUME RecoverInterruptedRuns PROVE RunIs(r, "running")
        BY <2>2, <4>3, RecoveredRows
      <4> QED BY <2>2, <4>1, <4>2, <4>3
              DEF Next, ExclusiveNext, StartExclusiveRun, CreateSource,
                  ApplyObservedVacancies, UpdateVacancyUserStatus, storeVars
    <3> QED BY <1>6, <1>7, <3>1
  <2> QED BY <2>1, <2>2
<1> QED BY <1>4, <1>8

(* The archived_count of a run is the number of archived rows it has on     *)
(* record, and only a complete success has any, whatever the callers claim. *)
THEOREM ArchivedCountIsExact == Spec => []ArchivedCountIsRecorded
<1>1. Init => ArchivedCountIsRecorded
  BY DEF Init, ArchivedCountIsRecorded
<1>2. TypeOK /\ RecordsAreOfTheSource /\ ArchivedCountIsRecorded /\ [Next]_storeVars
        => ArchivedCountIsRecorded'
  BY ArchivedCountStep
<1> QED BY <1>1, <1>2, TypeCorrect, RecordsHaveTheirSource, PTL DEF Spec

(* One run added each vacancy that exists, and none one that does not.      *)
AddedBySets ==
  \A v \in Vacancies :
    LET adders == {r \in RunIds : composition[r][v] = "added"}
    IN IF vacancies[v] = NoRow THEN adders = {} ELSE \E r \in RunIds : adders = {r}

(* A vacancy comes into being only with the record that adds it.            *)
LEMMA AddedStep ==
  ASSUME TypeOK, AddedBySets, [Next]_storeVars
  PROVE  AddedBySets'
<1> SUFFICES ASSUME NEW v \in Vacancies
             PROVE  LET adders == {r \in RunIds : composition'[r][v] = "added"}
                    IN IF vacancies'[v] = NoRow THEN adders = {}
                       ELSE \E r \in RunIds : adders = {r}
  BY DEF AddedBySets
<1> DEFINE adders == {r \in RunIds : composition[r][v] = "added"}
           addersAfter == {r \in RunIds : composition'[r][v] = "added"}
<1>1. IF vacancies[v] = NoRow THEN adders = {} ELSE \E r \in RunIds : adders = {r}
  BY DEF AddedBySets
<1>2. ASSUME NEW q \in RunIds, NEW cards \in Cards, ApplyObservedVacancies(q, cards),
             v \in Observed(q, cards)
      PROVE  IF vacancies'[v] = NoRow THEN addersAfter = {}
             ELSE \E r \in RunIds : addersAfter = {r}
  <2>1. /\ vacancies'[v] # NoRow
        /\ \A r \in RunIds \ {q} : composition'[r] = composition[r]
    BY <1>2, AppliedRows
  <2>2. composition[q][v] = "none" /\ composition'[q][v] = Disposition(v, ContentOf(cards, v))
    BY <1>2 DEF ApplyObservedVacancies, ApplyAccepts, TypeOK
  <2>3. CASE vacancies[v] = NoRow
    <3>1. composition'[q][v] = "added"
      BY <2>2, <2>3 DEF Disposition
    <3>2. addersAfter = {q}
      BY <1>1, <2>1, <2>3, <3>1
    <3> QED BY <2>1, <3>2
  <2>4. CASE vacancies[v] # NoRow
    <3>1. composition'[q][v] # "added"
      BY <2>2, <2>4 DEF Disposition
    <3>2. addersAfter = adders
      BY <2>1, <2>2, <3>1
    <3> QED BY <1>1, <2>1, <2>4, <3>2
  <2> QED BY <2>3, <2>4
<1>3. ASSUME vacancies'[v] # NoRow <=> vacancies[v] # NoRow,
             \A r \in RunIds : composition'[r][v] = "added" <=> composition[r][v] = "added"
      PROVE  IF vacancies'[v] = NoRow THEN addersAfter = {}
             ELSE \E r \in RunIds : addersAfter = {r}
  <2>1. addersAfter = adders
    BY <1>3
  <2> QED BY <1>1, <1>3, <2>1
<1>4. ASSUME NEW q \in RunIds, NEW cards \in Cards, ApplyObservedVacancies(q, cards),
             v \notin Observed(q, cards)
      PROVE  /\ vacancies'[v] # NoRow <=> vacancies[v] # NoRow
             /\ \A r \in RunIds : composition'[r][v] = composition[r][v]
  BY <1>4, AppliedRows
<1>5. ASSUME NEW q \in RunIds, NEW status \in Terminal, NEW completion \in Completions,
             NEW counts \in CountsGiven, CompleteRun(q, status, completion, counts)
      PROVE  /\ vacancies'[v] # NoRow <=> vacancies[v] # NoRow
             /\ \A r \in RunIds : composition'[r][v] = "added" <=> composition[r][v] = "added"
  <2>1. vacancies'[v] # NoRow <=> vacancies[v] # NoRow
    BY <1>5, CompletedRows
  <2>2. ASSUME NEW r \in RunIds
        PROVE  \/ composition'[r][v] = composition[r][v]
               \/ composition[r][v] = "none" /\ composition'[r][v] = "archived"
    <3>1. ~\E cards \in Cards : ApplyObservedVacancies(r, cards)
      <4>1. runs'[q] # runs[q]
        BY <1>5, CompletedRunRow DEF Terminal
      <4> QED BY <4>1 DEF ApplyObservedVacancies
    <3>2. [Next]_storeVars
      BY <1>5 DEF Next, ExclusiveNext
    <3> QED BY <3>1, <3>2, RecordMoves
  <2> QED BY <2>1, <2>2
<1>6. ASSUME NEW w \in Vacancies, NEW status \in UserStatuses,
             UpdateVacancyUserStatus(w, status)
      PROVE  /\ vacancies'[v] # NoRow <=> vacancies[v] # NoRow
             /\ composition' = composition
  BY <1>6, MarkedRows DEF UpdateVacancyUserStatus
<1>7. CASE UNCHANGED <<vacancies, composition>>
  BY <1>3, <1>7
<1> QED
  BY <1>2, <1>3, <1>4, <1>5, <1>6, <1>7
  DEF Next, ExclusiveNext, StartExclusiveRun, StartRun, CreateSource,
      RecoverInterruptedRuns, storeVars

(* Each vacancy that exists was added by exactly one run, however runs      *)
(* overlap and however often it is archived and seen again.                 *)
THEOREM VacanciesAreAddedOnce == Spec => []AddedOnce
<1>1. Init => AddedBySets
  BY DEF Init, AddedBySets
<1>2. TypeOK /\ AddedBySets /\ [Next]_storeVars => AddedBySets'
  BY AddedStep
<1>3. AddedBySets => AddedOnce
  BY FS_EmptySet, FS_Singleton DEF AddedBySets, AddedOnce
<1> QED BY <1>1, <1>2, <1>3, TypeCorrect, PTL DEF Spec

(* A run that becomes a complete success has archived everything of its     *)
(* source that it did not see, other open runs notwithstanding.             *)
THEOREM CompleteSuccessIsThorough == Spec => CompleteSuccessLeavesOnlySeen
<1> DEFINE Thorough ==
      \A r \in RunIds :
        /\ RunIs(r, "running")
        /\ Archives(runs'[r].status, runs'[r].completion)
        => \A v \in Vacancies :
             /\ v[1] = runs[r].source
             /\ vacancies'[v] # NoRow
             /\ vacancies'[v].listing = "active"
             => vacancies'[v].lastRun = r
<1>1. TypeOK /\ [Next]_storeVars => [Thorough]_storeVars
  <2> SUFFICES ASSUME TypeOK, [Next]_storeVars, NEW r \in RunIds, RunIs(r, "running"),
                      Archives(runs'[r].status, runs'[r].completion),
                      NEW v \in Vacancies, v[1] = runs[r].source,
                      vacancies'[v] # NoRow, vacancies'[v].listing = "active"
               PROVE  vacancies'[v].lastRun = r
    OBVIOUS
  <2>1. runs'[r].status = "success" /\ runs'[r] # runs[r]
    BY DEF Archives, RunIs
  <2>2. ASSUME NEW q \in RunIds, NEW status \in Terminal, NEW completion \in Completions,
               NEW counts \in CountsGiven, CompleteRun(q, status, completion, counts)
        PROVE  vacancies'[v].lastRun = r
    <3>1. q = r
      BY <2>1, <2>2, CompletedRunRow
    <3>2. runs'[r].status = status /\ runs'[r].completion = completion
      BY <2>2, <3>1, CompletedRunRow
    <3>3. ToArchive(r, status, completion) = Unseen(r)
      BY <3>2 DEF ToArchive
    <3>4. v \notin Unseen(r)
      BY <2>2, <3>1, <3>3 DEF CompleteRun, ArchivedRow, Unseen, TypeOK, VacancyRow
    <3>5. vacancies'[v] = vacancies[v]
      BY <2>2, <3>1, <3>3, <3>4, CompletedRows
    <3> QED BY <3>4, <3>5 DEF Unseen
  <2>3. ASSUME NEW s \in Sources, NEW q \in RunIds, StartRun(s, q) PROVE FALSE
    BY <2>1, <2>3, OpenedRunRow DEF RunIs
  <2>4. ~RecoverInterruptedRuns
    BY <2>1, RecoveredRows
  <2> QED BY <2>1, <2>2, <2>3, <2>4
          DEF Next, ExclusiveNext, StartExclusiveRun, CreateSource, ApplyObservedVacancies,
              UpdateVacancyUserStatus, storeVars
<1> QED BY <1>1, TypeCorrect, PTL DEF Spec, CompleteSuccessLeavesOnlySeen

-----------------------------------------------------------------------------
(* The history *)

(* Only an observation writes the history or the content of a vacancy.      *)
LEMMA ContentIsKept ==
  ASSUME TypeOK, [Next]_storeVars, NEW v \in Vacancies
  PROVE  \/ \E r \in RunIds, cards \in Cards :
              ApplyObservedVacancies(r, cards) /\ v \in Observed(r, cards)
         \/ /\ history'[v] = history[v]
            /\ (vacancies'[v] # NoRow) = (vacancies[v] # NoRow)
            /\ vacancies[v] # NoRow => vacancies'[v].content = vacancies[v].content
<1> DEFINE Kept == /\ history'[v] = history[v]
                   /\ (vacancies'[v] # NoRow) = (vacancies[v] # NoRow)
                   /\ vacancies[v] # NoRow => vacancies'[v].content = vacancies[v].content
<1>1. ASSUME NEW r \in RunIds, NEW cards \in Cards, ApplyObservedVacancies(r, cards),
             v \notin Observed(r, cards)
      PROVE  Kept
  BY <1>1 DEF ApplyObservedVacancies
<1>2. ASSUME NEW r \in RunIds, NEW status \in Terminal, NEW completion \in Completions,
             NEW counts \in CountsGiven, CompleteRun(r, status, completion, counts)
      PROVE  Kept
  <2>1. (vacancies'[v] # NoRow) = (vacancies[v] # NoRow)
    BY <1>2, CompletedRows
  <2>2. vacancies'[v] = vacancies[v] \/ vacancies'[v] = ArchivedRow(r, v)
    BY <1>2 DEF CompleteRun
  <2>3. vacancies[v] # NoRow => ArchivedRow(r, v).content = vacancies[v].content
    BY RowShapes DEF ArchivedRow, VacancyRow
  <2>4. history' = history
    BY <1>2 DEF CompleteRun
  <2> QED BY <2>1, <2>2, <2>3, <2>4
<1>3. ASSUME NEW w \in Vacancies, NEW status \in UserStatuses,
             UpdateVacancyUserStatus(w, status)
      PROVE  Kept
  <2>1. (vacancies'[v] # NoRow) = (vacancies[v] # NoRow)
    BY <1>3, MarkedRows
  <2>2. \/ vacancies'[v] = vacancies[v]
        \/ vacancies'[v] = [vacancies[v] EXCEPT !.user = status]
    BY <1>3 DEF UpdateVacancyUserStatus, TypeOK
  <2>3. vacancies[v] # NoRow =>
          [vacancies[v] EXCEPT !.user = status].content = vacancies[v].content
    BY RowShapes DEF VacancyRow
  <2>4. history' = history
    BY <1>3 DEF UpdateVacancyUserStatus
  <2> QED BY <2>1, <2>2, <2>3, <2>4
<1>4. vacancies' = vacancies /\ history' = history => Kept
  OBVIOUS
<1> HIDE DEF Kept
<1>5. Kept \/ \E r \in RunIds, cards \in Cards :
                ApplyObservedVacancies(r, cards) /\ v \in Observed(r, cards)
  <2>1. ASSUME NEW r \in RunIds, NEW cards \in Cards, ApplyObservedVacancies(r, cards)
        PROVE  Kept \/ v \in Observed(r, cards)
    BY <1>1, <2>1
  <2>2. CASE vacancies' = vacancies /\ history' = history
    BY <1>4, <2>2
  <2>3. CASE ~(vacancies' = vacancies /\ history' = history)
    BY <1>2, <1>3, <2>1, <2>3
    DEF Next, ExclusiveNext, StartExclusiveRun, StartRun, CreateSource,
        RecoverInterruptedRuns, storeVars
  <2> QED BY <2>2, <2>3
<1> QED BY <1>5 DEF Kept

(* HistoryChain for one vacancy, over the history h it has, the content c   *)
(* its row holds and the records rec of its runs.                           *)
Replays(h, exists, c, rec) ==
  /\ \A i \in DOMAIN h : h[i].old # h[i].new
  /\ \A i \in 1..(Len(h) - 1) : h[i].new = h[i + 1].old
  /\ h # <<>> => exists /\ h[Len(h)].new = Tracked[c]
  /\ \A i \in DOMAIN h : rec[h[i].run] = "updated"
  /\ \A i, j \in DOMAIN h : h[i].run = h[j].run => i = j

(* A change that starts at the present content, of a run that had nothing   *)
(* on record, makes the history one longer and replayable.                  *)
LEMMA ChainGrows ==
  ASSUME NEW h \in Seq(HistoryRow), NEW c, NEW rec, Replays(h, TRUE, c, rec),
         NEW row \in HistoryRow, NEW d, NEW after,
         row.old = Tracked[c], row.new = Tracked[d], row.old # row.new,
         rec[row.run] # "updated", after[row.run] = "updated",
         \A q \in RunIds : rec[q] = "updated" => after[q] = "updated"
  PROVE  Replays(Append(h, row), TRUE, d, after)
<1> DEFINE g == Append(h, row)
           n == Len(h)
<1>1. /\ n \in Nat /\ Len(g) = n + 1 /\ g # <<>>
      /\ DOMAIN h = 1..n /\ DOMAIN g = 1..(n + 1)
      /\ \A i \in 1..n : g[i] = h[i] /\ h[i] \in HistoryRow
      /\ g[n + 1] = row
  OBVIOUS
<1>2. h = <<>> <=> n = 0
  OBVIOUS
<1> HIDE DEF g, n
<1>3. \A i \in 1..n : h[i].run \in RunIds
  BY <1>1 DEF HistoryRow
<1>4. \A i \in DOMAIN g : g[i].old # g[i].new
  BY <1>1 DEF Replays
<1>5. \A i \in 1..(Len(g) - 1) : g[i].new = g[i + 1].old
  <2> SUFFICES ASSUME NEW i \in 1..n PROVE g[i].new = g[i + 1].old
    BY <1>1
  <2>1. CASE i = n
    BY <1>1, <1>2, <2>1 DEF Replays, n
  <2>2. CASE i # n
    <3>1. i \in 1..(n - 1) /\ i + 1 \in 1..n
      BY <1>1, <2>2
    <3> QED BY <1>1, <3>1 DEF Replays, n
  <2> QED BY <2>1, <2>2
<1>6. g[Len(g)].new = Tracked[d]
  BY <1>1
<1>7. \A i \in DOMAIN g : after[g[i].run] = "updated"
  BY <1>1, <1>3 DEF Replays
<1>8. \A i \in 1..n : g[i].run # g[n + 1].run
  BY <1>1 DEF Replays
<1>9. \A i, j \in DOMAIN g : g[i].run = g[j].run => i = j
  <2> SUFFICES ASSUME NEW i \in 1..(n + 1), NEW j \in 1..(n + 1), g[i].run = g[j].run
               PROVE  i = j
    BY <1>1
  <2>1. CASE i \in 1..n /\ j \in 1..n
    BY <1>1, <2>1 DEF Replays
  <2>2. CASE i = n + 1 \/ j = n + 1
    BY <1>1, <1>8, <2>2
  <2> QED BY <1>1, <2>1, <2>2
<1> QED BY <1>1, <1>4, <1>5, <1>6, <1>7, <1>9 DEF Replays, g

(* What a row of a history is made of.                                      *)
LEMMA HistoryRuns ==
  ASSUME NEW h \in Seq(HistoryRow), NEW i \in DOMAIN h
  PROVE  h[i].run \in RunIds
<1>1. h[i] \in HistoryRow
  OBVIOUS
<1> QED BY <1>1 DEF HistoryRow

(* What the runs have on record of one vacancy.                             *)
RecordsOf(v) == [r \in RunIds |-> composition[r][v]]

Replayable(v) ==
  Replays(history[v], vacancies[v] # NoRow, vacancies[v].content, RecordsOf(v))

(* Every operation leaves every history replayable.                         *)
LEMMA HistoryStep ==
  ASSUME TypeOK, HistoryChain, [Next]_storeVars
  PROVE  HistoryChain'
<1>1. HistoryChain = \A v \in Vacancies : Replayable(v)
  <2>1. \A v \in Vacancies : \A i \in DOMAIN history[v] : history[v][i].run \in RunIds
    BY HistoryRuns DEF TypeOK
  <2> QED BY <2>1 DEF HistoryChain, Replayable, Replays, RecordsOf
<1>2. (\A v \in Vacancies : Replayable(v))' => HistoryChain'
  <2>1. TypeOK'
    BY TypeNext
  <2>2. \A v \in Vacancies : \A i \in DOMAIN history'[v] : history'[v][i].run \in RunIds
    BY <2>1, HistoryRuns DEF TypeOK
  <2> QED BY <2>2 DEF HistoryChain, Replayable, Replays, RecordsOf
<1> SUFFICES ASSUME NEW v \in Vacancies
             PROVE  Replayable(v)'
  BY <1>2
<1>3. Replayable(v)
  BY <1>1
<1>4. \A q \in RunIds : composition[q][v] = "updated" => composition'[q][v] = "updated"
  BY RecordMoves
<1>5. history[v] \in Seq(HistoryRow) /\ \A i \in DOMAIN history[v] : history[v][i].run \in RunIds
  BY HistoryRuns DEF TypeOK
<1>6. ASSUME history'[v] = history[v], (vacancies'[v] # NoRow) = (vacancies[v] # NoRow),
             vacancies[v] # NoRow => Tracked[vacancies'[v].content] = Tracked[vacancies[v].content]
      PROVE  Replayable(v)'
  <2>1. \A i \in DOMAIN history[v] : RecordsOf(v)'[history[v][i].run] = "updated"
    BY <1>3, <1>4, <1>5 DEF Replayable, Replays, RecordsOf
  <2>2. history[v] # <<>> => history[v][Len(history[v])].new = Tracked[vacancies'[v].content]
    BY <1>3, <1>6 DEF Replayable, Replays
  <2> QED BY <1>3, <1>6, <2>1, <2>2 DEF Replayable, Replays
<1>7. ASSUME NEW r \in RunIds, NEW cards \in Cards,
             ApplyObservedVacancies(r, cards), v \in Observed(r, cards)
      PROVE  Replayable(v)'
  <2> DEFINE d == ContentOf(cards, v)
             c == vacancies[v].content
             row == [run |-> r, old |-> Tracked[c], new |-> Tracked[d]]
  <2>1. vacancies'[v] # NoRow
    BY <1>7, AppliedRows
  <2>2. vacancies'[v].content = d
    BY <1>7 DEF ApplyObservedVacancies, ObservedRow
  <2>3. history'[v] = history[v] \o Change(r, v, d)
    BY <1>7 DEF ApplyObservedVacancies
  <2>4. composition[r][v] = "none" /\ composition'[r][v] = Disposition(v, d)
    BY <1>7 DEF ApplyObservedVacancies, ApplyAccepts, TypeOK
  <2>5. CASE vacancies[v] = NoRow
    <3>1. history[v] = <<>> /\ Change(r, v, d) = <<>>
      BY <1>3, <2>5 DEF Replayable, Replays, Change
    <3>2. history'[v] = <<>>
      BY <2>3, <3>1
    <3> QED BY <2>1, <3>2 DEF Replayable, Replays
  <2>6. CASE vacancies[v] # NoRow /\ Tracked[c] = Tracked[d]
    <3>1. Change(r, v, d) = <<>>
      BY <2>6 DEF Change
    <3>2. history'[v] = history[v]
      BY <1>5, <2>3, <3>1
    <3> QED BY <1>6, <2>1, <2>2, <2>6, <3>2
  <2>7. CASE vacancies[v] # NoRow /\ Tracked[c] # Tracked[d]
    <3>1. Change(r, v, d) = <<row>>
      BY <2>7 DEF Change
    <3>2. row \in HistoryRow
      <4>1. d \in Contents /\ c \in Contents
        BY <1>7, <2>7, ContentOfFirst, RowShapes DEF VacancyRow
      <4> QED BY <4>1 DEF HistoryRow, Values
    <3>3. row.run = r /\ row.old = Tracked[c] /\ row.new = Tracked[d]
      OBVIOUS
    <3>4. RecordsOf(v)[r] = "none" /\ RecordsOf(v)'[r] = "updated"
      BY <2>4, <2>7 DEF Disposition, RecordsOf
    <3> HIDE DEF row, c, d
    <3>5. history'[v] = Append(history[v], row)
      BY <1>5, <2>3, <3>1, <3>2
    <3>6. Replays(history[v], TRUE, c, RecordsOf(v))
      BY <1>3, <2>7 DEF Replayable, c
    <3>7. /\ \A q \in RunIds : RecordsOf(v)[q] = "updated" => RecordsOf(v)'[q] = "updated"
          /\ row.old # row.new /\ RecordsOf(v)[row.run] # "updated"
          /\ RecordsOf(v)'[row.run] = "updated"
      BY <1>4, <2>7, <3>3, <3>4 DEF RecordsOf, c, d
    <3>8. Replays(Append(history[v], row), TRUE, d, RecordsOf(v)')
      BY <1>5, <3>2, <3>3, <3>6, <3>7, ChainGrows
    <3>9. Replays(history'[v], TRUE, vacancies'[v].content, RecordsOf(v)')
      BY <2>2, <3>5, <3>8 DEF d
    <3> QED BY <2>1, <3>9 DEF Replayable
  <2> QED BY <2>5, <2>6, <2>7
<1> QED BY <1>6, <1>7, ContentIsKept

(* The history of a vacancy can be replayed, in whatever order its runs     *)
(* observed, archived and ended.                                            *)
THEOREM HistoryIsReplayable == Spec => []HistoryChain
<1>1. Init => HistoryChain
  BY DEF Init, HistoryChain
<1>2. TypeOK /\ HistoryChain /\ [Next]_storeVars => HistoryChain'
  BY HistoryStep
<1> QED BY <1>1, <1>2, TypeCorrect, PTL DEF Spec

-----------------------------------------------------------------------------
(* The runs that exist *)

(* At most one run is opened in a step, so there are finitely many.         *)
LEMMA OpenedRunsAreFinite ==
  ASSUME TypeOK, IsFiniteSet({r \in RunIds : runs[r] # NoRow}), [Next]_storeVars
  PROVE  IsFiniteSet({r \in RunIds : runs'[r] # NoRow})
<1> DEFINE Before == {r \in RunIds : runs[r] # NoRow}
           After == {r \in RunIds : runs'[r] # NoRow}
<1>1. \E q : After \subseteq Before \cup {q}
  <2>1. ASSUME NEW s \in Sources, NEW q \in RunIds, StartRun(s, q)
        PROVE  After \subseteq Before \cup {q}
    BY <2>1 DEF StartRun, TypeOK
  <2>2. ASSUME NEW q \in RunIds, NEW status \in Terminal, NEW completion \in Completions,
               NEW counts \in CountsGiven, CompleteRun(q, status, completion, counts)
        PROVE  After \subseteq Before \cup {q}
    BY <2>2 DEF CompleteRun, TypeOK
  <2>3. CASE RecoverInterruptedRuns
    BY <2>3 DEF RecoverInterruptedRuns, RunIs
  <2>4. CASE runs' = runs
    BY <2>4
  <2> HIDE DEF After, Before
  <2> QED BY <2>1, <2>2, <2>3, <2>4
          DEF Next, ExclusiveNext, StartExclusiveRun, CreateSource, ApplyObservedVacancies,
              UpdateVacancyUserStatus, storeVars
<1>2. PICK q : After \subseteq Before \cup {q}
  BY <1>1
<1>3. IsFiniteSet(Before \cup {q})
  BY FS_AddElement
<1> HIDE DEF After, Before
<1>4. IsFiniteSet(After)
  BY <1>2, <1>3, FS_Subset
<1> QED BY <1>4 DEF After
=============================================================================
