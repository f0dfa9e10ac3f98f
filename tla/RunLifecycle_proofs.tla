------------------------- MODULE RunLifecycle_proofs -------------------------
(***************************************************************************)
(* Theorems about the manual run, for any number of servers, handlers,     *)
(* sources, runs and database failures: the handlers use the store as      *)
(* ExclusiveSpec allows, so everything VacancyStore_proofs shows of it     *)
(* holds of the server; what a run reports and what the client is told is  *)
(* what is on record; and, with one server on the file, what two servers   *)
(* would break.                                                            *)
(***************************************************************************)
EXTENDS RunLifecycle, VacancyStore_proofs

-----------------------------------------------------------------------------
(* Listings and their length *)

LEMMA ListingLength ==
  ASSUME NEW cards \in Cards
  PROVE  /\ Len(cards) \in 0..MaxCards
         /\ DOMAIN cards = 1..Len(cards)
         /\ \A i \in 1..Len(cards) : cards[i] \in Card
<1>1. PICK n \in 0..MaxCards : cards \in [1..n -> Card]
  BY DEF Cards
<1>2. cards \in Seq(Card) /\ Len(cards) = n
  BY <1>1, ConstantsAssumption
<1> QED BY <1>1, <1>2

LEMMA PrefixIsListing ==
  ASSUME NEW cards \in Cards, NEW n \in Nat
  PROVE  Prefix(cards, n) \in Cards
<1> DEFINE k == Least(Len(cards), n)
<1>1. k \in 0..MaxCards /\ k <= Len(cards)
  BY ListingLength, ConstantsAssumption DEF Least
<1>2. Prefix(cards, n) \in [1..k -> Card]
  BY <1>1, ListingLength DEF Prefix
<1> QED BY <1>1, <1>2 DEF Cards

(* At most one vacancy is observed per card, so the counters fit.           *)
LEMMA DeltaIsCount ==
  ASSUME NEW r, NEW cards \in Cards, NEW d
  PROVE  Delta(r, cards, d) \in Counts
<1> DEFINE seen == Observed(r, cards)
           f == [i \in Firsts(cards) |-> <<runs[r].source, cards[i].key>>]
           some == {v \in seen : Disposition(v, ContentOf(cards, v)) = d}
<1>1. Firsts(cards) \subseteq 1..Len(cards)
  BY ListingLength DEF Firsts
<1>2. IsFiniteSet(1..Len(cards)) /\ Cardinality(1..Len(cards)) = Len(cards)
  <2>1. Len(cards) \in Nat
    BY ListingLength, ConstantsAssumption
  <2>2. \A m \in Nat : IsFiniteSet(1..m) /\ Cardinality(1..m) = IF 1 > m THEN 0 ELSE m - 1 + 1
    BY FS_Interval
  <2>3. \A m \in Nat : IsFiniteSet(1..m) /\ Cardinality(1..m) = m
    BY <2>2
  <2> QED BY <2>1, <2>3
<1>3. IsFiniteSet(Firsts(cards)) /\ Cardinality(Firsts(cards)) <= Len(cards)
  BY <1>1, <1>2, FS_Subset
<1>4. f \in Surjection(Firsts(cards), seen)
  BY DEF Surjection, Observed
<1>5. IsFiniteSet(seen) /\ Cardinality(seen) <= Cardinality(Firsts(cards))
  BY <1>3, <1>4, FS_Surjection
<1>6. IsFiniteSet(some) /\ Cardinality(some) <= Cardinality(seen)
  BY <1>5, FS_Subset
<1>7. Cardinality(some) \in Nat /\ Cardinality(seen) \in Nat /\ Cardinality(Firsts(cards)) \in Nat
  BY <1>3, <1>5, <1>6, FS_CardinalityType
<1>8. Cardinality(some) \in 0..MaxCards
  BY <1>3, <1>5, <1>6, <1>7, ListingLength, ConstantsAssumption
<1> QED BY <1>8, LifecycleAssumption DEF Delta

LEMMA BuildIsPlan ==
  ASSUME NEW limit \in Nat \cup {NoPagination}, NEW n
  PROVE  Build(limit, n) \in Plan
BY RevisitAssumption DEF Build, Plan, Least

LEMMA IdleIsJob == Idle \in Job
<1>1. <<>> \in Cards
  BY ConstantsAssumption, LifecycleAssumption
<1> QED BY <1>1, ConstantsAssumption DEF Idle, Job, Pcs, Answers, NoPlan, Plan

-----------------------------------------------------------------------------
(* The handlers and the store *)

(* What a handler reports when it completes its run is what a caller of the *)
(* store may report.                                                        *)
LEMMA ReportIsGiven ==
  ASSUME NEW h \in Handlers, job[h] \in Job
  PROVE  /\ FinalStatus(h) \in Terminal /\ FinalCompletion(h) \in Completions
         /\ FinalCounts(h) \in CountsGiven
         /\ NoCounts \in CountsGiven
<1>1. Len(job[h].cards) \in Counts
  BY ListingLength, LifecycleAssumption DEF Job
<1> QED BY <1>1, ConstantsAssumption
        DEF FinalStatus, FinalCompletion, FinalCounts, NoCounts, CountsGiven, Job,
            Terminal, Completions

(* Every step of the server is a step of the store, or leaves it alone.     *)
LEMMA StoreStep ==
  ASSUME LifecycleTypeOK, [LifecycleNext]_vars
  PROVE  [ExclusiveNext]_storeVars
<1>1. ASSUME NEW h \in Handlers, Start(h) PROVE [ExclusiveNext]_storeVars
  <2>1. job[h].source \in Sources
    BY <1>1 DEF Start, At, LifecycleTypeOK
  <2> QED BY <1>1, <2>1 DEF Start, ExclusiveNext
<1>2. ASSUME NEW h \in Handlers, Apply(h) PROVE [ExclusiveNext]_storeVars
  <2>1. job[h].run \in RunIds /\ job[h].cards \in Cards
    BY <1>2 DEF Apply, At, LifecycleTypeOK, Collecting, Job
  <2> QED BY <1>2, <2>1 DEF Apply, ExclusiveNext
<1>3. ASSUME NEW h \in Handlers, Complete(h) \/ Fail(h) PROVE [ExclusiveNext]_storeVars
  <2>1. job[h].run \in RunIds
    BY <1>3 DEF Complete, Fail, At, LifecycleTypeOK, Collecting
  <2>2. /\ FinalStatus(h) \in Terminal /\ FinalCompletion(h) \in Completions
        /\ FinalCounts(h) \in CountsGiven /\ NoCounts \in CountsGiven
        /\ "failed" \in Terminal /\ "unknown" \in Completions
    BY ReportIsGiven DEF LifecycleTypeOK, Terminal, Completions
  <2> QED BY <1>3, <2>1, <2>2 DEF Complete, Fail, ExclusiveNext
<1>4. ASSUME NEW sv \in Servers, Boot(sv) PROVE [ExclusiveNext]_storeVars
  BY <1>4 DEF Boot, ExclusiveNext
<1>5. CASE OtherRequest
  BY <1>5 DEF OtherRequest, ExclusiveNext
<1>6. ASSUME NEW h \in Handlers, Count(h) \/ Scrape(h) PROVE [ExclusiveNext]_storeVars
  BY <1>6 DEF Count, Scrape
<1>7. ASSUME NEW h \in Handlers, NEW s \in Sources, NEW narrowed \in Narrowings,
             Request(h, s, narrowed)
      PROVE  [ExclusiveNext]_storeVars
  BY <1>7 DEF Request
<1>8. ASSUME NEW sv \in Servers, Crash(sv) PROVE [ExclusiveNext]_storeVars
  BY <1>8 DEF Crash
<1>9. ASSUME NEW s \in Sources, NEW listing \in Listings, SiteChanges(s, listing)
      PROVE  [ExclusiveNext]_storeVars
  BY <1>9 DEF SiteChanges
<1>10. CASE UNCHANGED vars
  BY <1>10 DEF vars
<1> QED BY <1>1, <1>2, <1>3, <1>4, <1>5, <1>6, <1>7, <1>8, <1>9, <1>10
        DEF LifecycleNext, HandlerStep

(* A row that a handler has stays, whatever the step.                       *)
LEMMA RowsStay ==
  ASSUME LifecycleTypeOK, [LifecycleNext]_vars
  PROVE  /\ TypeOK'
         /\ \A r \in RunIds : runs[r] # NoRow =>
              runs'[r] # NoRow /\ runs'[r].source = runs[r].source
<1>1. [Next]_storeVars
  BY StoreStep, ExclusiveIsNext
<1>2. TypeOK
  BY DEF LifecycleTypeOK
<1> QED BY <1>1, <1>2, TypeNext, RunsStay

(* What one handler has to show when it moves.                              *)
LEMMA HandlerMoves ==
  ASSUME LifecycleTypeOK, [LifecycleNext]_vars, NEW h \in Handlers,
         up[ServerOf[h]], NEW row \in Job, Becomes(h, row),
         UNCHANGED <<site, up, pagination>>, DatabaseWorks \/ DatabaseFails,
         row.pc # "idle" => row.source \in Sources,
         row.pc \in Collecting =>
            /\ row.run \in RunIds
            /\ runs'[row.run] # NoRow
            /\ runs'[row.run].source = row.source
  PROVE  LifecycleTypeOK'
<1>1. TypeOK'
  BY RowsStay
<1>2. faults' \in 0..MaxFaults
  BY LifecycleAssumption DEF LifecycleTypeOK, DatabaseWorks, DatabaseFails
<1>3. job' \in [Handlers -> Job]
  BY DEF LifecycleTypeOK, Becomes
<1>4. ASSUME NEW g \in Handlers
      PROVE  /\ job'[g].pc # "idle" => up'[ServerOf[g]] /\ job'[g].source \in Sources
             /\ job'[g].pc \in Collecting =>
                  /\ job'[g].run \in RunIds
                  /\ runs'[job'[g].run] # NoRow
                  /\ runs'[job'[g].run].source = job'[g].source
  <2>1. CASE g = h
    BY <2>1 DEF Becomes, LifecycleTypeOK
  <2>2. CASE g # h
    <3>1. job'[g] = job[g]
      BY <2>2 DEF Becomes, LifecycleTypeOK
    <3> QED BY <3>1, RowsStay DEF LifecycleTypeOK
  <2> QED BY <2>1, <2>2
<1> QED BY <1>1, <1>2, <1>3, <1>4 DEF LifecycleTypeOK

(* The handler that ends forgets everything but the run and the answer.     *)
LEMMA TypeReply ==
  ASSUME LifecycleTypeOK, [LifecycleNext]_vars, NEW h \in Handlers, up[ServerOf[h]],
         NEW r \in RunIds \cup {NoRow}, NEW answer \in Answers, Replies(h, r, answer),
         UNCHANGED <<site, up, pagination>>, DatabaseWorks \/ DatabaseFails
  PROVE  LifecycleTypeOK'
<1> DEFINE row == [Idle EXCEPT !.run = r, !.answer = answer]
<1>1. row \in Job /\ row.pc = "idle"
  <2>1. Idle \in Job /\ Idle.pc = "idle"
    BY IdleIsJob DEF Idle
  <2> QED BY <2>1 DEF Job
<1>2. Becomes(h, row)
  BY DEF Replies
<1>3. "idle" \notin Collecting
  BY DEF Collecting
<1> HIDE DEF row
<1> QED BY <1>1, <1>2, <1>3, HandlerMoves

(* A handler that collects and moves on within the same run.                *)
LEMMA TypeMovesOn ==
  ASSUME LifecycleTypeOK, [LifecycleNext]_vars, NEW h \in Handlers, up[ServerOf[h]],
         job[h].pc \in Collecting, NEW row \in Job, Becomes(h, row),
         row.run = job[h].run, row.source = job[h].source,
         UNCHANGED <<site, up, pagination>>, DatabaseWorks \/ DatabaseFails
  PROVE  LifecycleTypeOK'
<1>1. /\ job[h].run \in RunIds /\ job[h].source \in Sources
      /\ runs'[job[h].run] # NoRow /\ runs'[job[h].run].source = job[h].source
  BY RowsStay DEF LifecycleTypeOK, Collecting
<1> QED BY <1>1, HandlerMoves

LEMMA TypeGivesUp ==
  ASSUME LifecycleTypeOK, [LifecycleNext]_vars, NEW h \in Handlers, up[ServerOf[h]],
         job[h].pc \in Collecting, NEW answer \in Answers, GivesUp(h, answer),
         UNCHANGED <<site, up, pagination>>, DatabaseWorks \/ DatabaseFails
  PROVE  LifecycleTypeOK'
<1> DEFINE row == [job[h] EXCEPT !.pc = "fail", !.answer = answer]
<1>1. row \in Job /\ row.run = job[h].run /\ row.source = job[h].source
  <2>1. job[h] \in Job
    BY DEF LifecycleTypeOK
  <2> QED BY <2>1 DEF Job, Pcs
<1>2. Becomes(h, row)
  BY DEF GivesUp
<1> HIDE DEF row
<1> QED BY <1>1, <1>2, TypeMovesOn

LEMMA TypeStart ==
  ASSUME LifecycleTypeOK, [LifecycleNext]_vars, NEW h \in Handlers, Start(h)
  PROVE  LifecycleTypeOK'
<1>1. /\ up[ServerOf[h]] /\ UNCHANGED <<site, up, pagination>> /\ (DatabaseWorks \/ DatabaseFails)
      /\ job[h] \in Job /\ job[h].source \in Sources /\ TypeOK
  BY DEF Start, At, LifecycleTypeOK
<1>2. ASSUME NEW answer \in Answers, Replies(h, NoRow, answer) PROVE LifecycleTypeOK'
  BY <1>1, <1>2, TypeReply
<1>3. ASSUME NEW r \in RunIds, StartExclusiveRun(job[h].source, r),
             Becomes(h, [job[h] EXCEPT !.pc = "count", !.run = r])
      PROVE  LifecycleTypeOK'
  <2> DEFINE row == [job[h] EXCEPT !.pc = "count", !.run = r]
  <2>1. row \in Job /\ row.source = job[h].source /\ row.run = r /\ Becomes(h, row)
    BY <1>1, <1>3 DEF Job, Pcs
  <2>2. runs'[r] # NoRow /\ runs'[r].source = job[h].source
    BY <1>1, <1>3, OpenedRunRow DEF StartExclusiveRun
  <2> HIDE DEF row
  <2> QED BY <1>1, <2>1, <2>2, HandlerMoves
<1> QED BY <1>2, <1>3 DEF Start, Answers

LEMMA TypeCount ==
  ASSUME LifecycleTypeOK, [LifecycleNext]_vars, NEW h \in Handlers, Count(h)
  PROVE  LifecycleTypeOK'
<1>1. /\ up[ServerOf[h]] /\ UNCHANGED <<site, up, pagination>> /\ (DatabaseWorks \/ DatabaseFails)
      /\ job[h] \in Job /\ job[h].source \in Sources /\ job[h].pc \in Collecting
  BY DEF Count, At, LifecycleTypeOK, Collecting
<1>2. ASSUME GivesUp(h, "500") PROVE LifecycleTypeOK'
  BY <1>1, <1>2, TypeGivesUp DEF Answers
<1> DEFINE plan == Build(pagination[job[h].source], CountTerminalNonFailedRuns(job[h].source))
           row == [job[h] EXCEPT !.pc = "scrape", !.plan = plan]
<1>3. ASSUME Becomes(h, row) PROVE LifecycleTypeOK'
  <2>1. pagination[job[h].source] \in Nat \cup {NoPagination}
    BY <1>1, LifecycleAssumption DEF LifecycleTypeOK
  <2>2. plan \in Plan
    BY <2>1, BuildIsPlan
  <2>3. row \in Job /\ row.source = job[h].source /\ row.run = job[h].run
    BY <1>1, <2>2 DEF Job, Pcs
  <2> HIDE DEF row
  <2> QED BY <1>1, <1>3, <2>3, TypeMovesOn
<1> QED BY <1>2, <1>3 DEF Count

(* What is scraped is a listing, whatever the page shows and loads.         *)
LEMMA ScrapedIsListing ==
  ASSUME LifecycleTypeOK, NEW h \in Handlers, job[h].pc = "scrape",
         NEW shown \in Shown(job[h].source, job[h].narrowed),
         NEW cards \in Loaded(job[h].source, job[h].plan, shown)
  PROVE  cards \in Cards
<1>1. shown \in Cards
  BY LifecycleAssumption DEF Shown, LifecycleTypeOK
<1>2. job[h].plan.maxIterations \in Nat
  BY DEF LifecycleTypeOK, Job, Plan
<1> QED BY <1>1, <1>2, PrefixIsListing DEF Loaded

LEMMA TypeScrape ==
  ASSUME LifecycleTypeOK, [LifecycleNext]_vars, NEW h \in Handlers, Scrape(h)
  PROVE  LifecycleTypeOK'
<1>1. /\ up[ServerOf[h]] /\ UNCHANGED <<site, up, pagination>> /\ (DatabaseWorks \/ DatabaseFails)
      /\ job[h] \in Job /\ job[h].pc = "scrape" /\ job[h].pc \in Collecting
  BY DEF Scrape, At, LifecycleTypeOK, Collecting, DatabaseWorks
<1>2. ASSUME NEW answer \in Answers, GivesUp(h, answer) PROVE LifecycleTypeOK'
  BY <1>1, <1>2, TypeGivesUp
<1>3. ASSUME NEW shown \in Shown(job[h].source, job[h].narrowed), NEW errors \in BOOLEAN,
             NEW cards \in Loaded(job[h].source, job[h].plan, shown),
             Becomes(h, [job[h] EXCEPT !.pc = "apply", !.cards = cards,
                           !.listed = KeysOf(site[job[h].source]), !.detailErrors = errors])
      PROVE  LifecycleTypeOK'
  <2> DEFINE row == [job[h] EXCEPT !.pc = "apply", !.cards = cards,
                       !.listed = KeysOf(site[job[h].source]), !.detailErrors = errors]
  <2>1. cards \in Cards /\ KeysOf(site[job[h].source]) \in SUBSET Keys
    BY <1>1, ScrapedIsListing DEF KeysOf
  <2>2. row \in Job /\ row.source = job[h].source /\ row.run = job[h].run
    BY <1>1, <2>1 DEF Job, Pcs
  <2>3. Becomes(h, row)
    BY <1>3
  <2> HIDE DEF row
  <2> QED BY <1>1, <2>2, <2>3, TypeMovesOn
<1> QED BY <1>2, <1>3 DEF Scrape, Answers

LEMMA TypeApplyStep ==
  ASSUME LifecycleTypeOK, [LifecycleNext]_vars, NEW h \in Handlers, Apply(h)
  PROVE  LifecycleTypeOK'
<1>1. /\ up[ServerOf[h]] /\ UNCHANGED <<site, up, pagination>> /\ (DatabaseWorks \/ DatabaseFails)
      /\ job[h] \in Job /\ job[h].pc \in Collecting
  BY DEF Apply, At, LifecycleTypeOK, Collecting
<1>2. ASSUME GivesUp(h, "500") PROVE LifecycleTypeOK'
  BY <1>1, <1>2, TypeGivesUp DEF Answers
<1> DEFINE row == [job[h] EXCEPT !.pc = "complete",
                     !.added = Delta(job[h].run, job[h].cards, "added"),
                     !.updated = Delta(job[h].run, job[h].cards, "updated")]
<1>3. ASSUME Becomes(h, row) PROVE LifecycleTypeOK'
  <2>1. /\ Delta(job[h].run, job[h].cards, "added") \in Counts
        /\ Delta(job[h].run, job[h].cards, "updated") \in Counts
    BY <1>1, DeltaIsCount DEF Job
  <2>2. row \in Job /\ row.source = job[h].source /\ row.run = job[h].run
    BY <1>1, <2>1 DEF Job, Pcs
  <2> HIDE DEF row
  <2> QED BY <1>1, <1>3, <2>2, TypeMovesOn
<1> QED BY <1>2, <1>3 DEF Apply

LEMMA TypeEnd ==
  ASSUME LifecycleTypeOK, [LifecycleNext]_vars, NEW h \in Handlers, Complete(h) \/ Fail(h)
  PROVE  LifecycleTypeOK'
<1>1. /\ up[ServerOf[h]] /\ UNCHANGED <<site, up, pagination>> /\ (DatabaseWorks \/ DatabaseFails)
      /\ job[h] \in Job /\ job[h].pc \in Collecting /\ job[h].run \in RunIds
      /\ job[h].answer \in Answers
  BY DEF Complete, Fail, At, LifecycleTypeOK, Collecting, Job
<1>2. CASE GivesUp(h, "500")
  BY <1>1, <1>2, TypeGivesUp DEF Answers
<1>3. ASSUME NEW answer \in Answers, Replies(h, job[h].run, answer) PROVE LifecycleTypeOK'
  BY <1>1, <1>3, TypeReply
<1> QED BY <1>1, <1>2, <1>3 DEF Complete, Fail, Answers

(* A crash, a restart, a change of the site, another request: no handler    *)
(* gains anything.                                                          *)
LEMMA TypeAround ==
  ASSUME LifecycleTypeOK, [LifecycleNext]_vars,
         \/ \E sv \in Servers : Crash(sv) \/ Boot(sv)
         \/ \E s \in Sources, listing \in Listings : SiteChanges(s, listing)
         \/ OtherRequest
         \/ UNCHANGED vars
  PROVE  LifecycleTypeOK'
<1>1. TypeOK' /\ faults' \in 0..MaxFaults /\ pagination' \in Paginations
  BY RowsStay DEF LifecycleTypeOK, Crash, Boot, SiteChanges, OtherRequest, vars
<1>2. site' \in [Sources -> Listings] /\ up' \in [Servers -> BOOLEAN]
  <2>1. /\ site' = site \/ \E s \in Sources, l \in Listings : site' = [site EXCEPT ![s] = l]
        /\ up' = up \/ \E sv \in Servers, b \in BOOLEAN : up' = [up EXCEPT ![sv] = b]
    BY DEF Crash, Boot, SiteChanges, OtherRequest, vars
  <2> QED BY <2>1 DEF LifecycleTypeOK
<1>3. ASSUME NEW h \in Handlers
      PROVE  \/ job'[h] = Idle
             \/ job'[h] = job[h] /\ (up[ServerOf[h]] => up'[ServerOf[h]])
  BY LifecycleAssumption
     DEF LifecycleTypeOK, Crash, Boot, SiteChanges, OtherRequest, vars
<1>4. job' \in [Handlers -> Job]
  BY IdleIsJob DEF LifecycleTypeOK, Crash, Boot, SiteChanges, OtherRequest, vars
<1>5. ASSUME NEW h \in Handlers
      PROVE  /\ job'[h].pc # "idle" => up'[ServerOf[h]] /\ job'[h].source \in Sources
             /\ job'[h].pc \in Collecting =>
                  /\ job'[h].run \in RunIds
                  /\ runs'[job'[h].run] # NoRow
                  /\ runs'[job'[h].run].source = job'[h].source
  <2>1. CASE job'[h] = Idle
    BY <2>1 DEF Idle, Collecting
  <2>2. CASE job'[h] = job[h] /\ (up[ServerOf[h]] => up'[ServerOf[h]])
    BY <2>2, RowsStay DEF LifecycleTypeOK
  <2> QED BY <1>3, <2>1, <2>2
<1> QED BY <1>1, <1>2, <1>4, <1>5 DEF LifecycleTypeOK

LEMMA TypeRequest ==
  ASSUME LifecycleTypeOK, [LifecycleNext]_vars, NEW h \in Handlers, NEW s \in Sources,
         NEW narrowed \in Narrowings, Request(h, s, narrowed)
  PROVE  LifecycleTypeOK'
<1>1. /\ up[ServerOf[h]] /\ UNCHANGED <<site, up, pagination>> /\ (DatabaseWorks \/ DatabaseFails)
  BY DEF Request, At
<1>2. ASSUME Replies(h, NoRow, "404") \/ Replies(h, NoRow, "422") PROVE LifecycleTypeOK'
  BY <1>1, <1>2, TypeReply DEF Answers
<1>3. ASSUME Becomes(h, [Idle EXCEPT !.pc = "start", !.source = s, !.narrowed = narrowed])
      PROVE  LifecycleTypeOK'
  <2> DEFINE row == [Idle EXCEPT !.pc = "start", !.source = s, !.narrowed = narrowed]
  <2>1. row \in Job /\ row.pc = "start" /\ row.source = s
    <3>1. Idle \in Job /\ narrowed \in BOOLEAN
      BY IdleIsJob, LifecycleAssumption
    <3> QED BY <3>1 DEF Job, Pcs
  <2>2. Becomes(h, row) /\ "start" \notin Collecting
    BY <1>3 DEF Collecting
  <2> HIDE DEF row
  <2> QED BY <1>1, <2>1, <2>2, HandlerMoves
<1> QED BY <1>2, <1>3 DEF Request

LEMMA LifecycleTypeInit == LifecycleInit => LifecycleTypeOK
<1> SUFFICES ASSUME LifecycleInit PROVE LifecycleTypeOK
  OBVIOUS
<1>1. TypeOK
  BY TypeInit DEF LifecycleInit
<1>2. Idle \in Job /\ Idle.pc = "idle" /\ "idle" \notin Collecting
  BY IdleIsJob DEF Idle, Collecting
<1> QED BY <1>1, <1>2, LifecycleAssumption DEF LifecycleInit, LifecycleTypeOK

LEMMA LifecycleTypeStep == LifecycleTypeOK /\ [LifecycleNext]_vars => LifecycleTypeOK'
<1> SUFFICES ASSUME LifecycleTypeOK, [LifecycleNext]_vars PROVE LifecycleTypeOK'
  OBVIOUS
<1>1. ASSUME NEW h \in Handlers, HandlerStep(h) PROVE LifecycleTypeOK'
  BY <1>1, TypeStart, TypeCount, TypeScrape, TypeApplyStep, TypeEnd DEF HandlerStep
<1>2. ASSUME NEW h \in Handlers, NEW s \in Sources, NEW narrowed \in Narrowings,
             Request(h, s, narrowed)
      PROVE  LifecycleTypeOK'
  BY <1>2, TypeRequest
<1> QED BY <1>1, <1>2, TypeAround DEF LifecycleNext

(* The tables of the server keep their shape, and a handler that is at work *)
(* has a source and a run that is on record for that source.                *)
THEOREM LifecycleTypeCorrect == LifecycleSpec => []LifecycleTypeOK
BY LifecycleTypeInit, LifecycleTypeStep, PTL DEF LifecycleSpec

(* The handlers use the store only as ExclusiveSpec allows, through every   *)
(* crash, restart and failing call.                                         *)
THEOREM LifecycleImplementsStore == LifecycleSpec => StoreSpec
<1>1. LifecycleInit => Init
  BY DEF LifecycleInit
<1>2. LifecycleTypeOK /\ [LifecycleNext]_vars => [ExclusiveNext]_storeVars
  BY StoreStep
<1> QED BY <1>1, <1>2, LifecycleTypeCorrect, PTL DEF LifecycleSpec, StoreSpec, ExclusiveSpec

-----------------------------------------------------------------------------
(* A run has one handler *)

(* No two handlers hold the same run: a run is opened by the handler that   *)
(* takes its id.                                                            *)
RunsHaveOneHandler ==
  \A h, g \in Handlers :
    job[h].pc \in Collecting /\ job[g].pc \in Collecting /\ job[h].run = job[g].run
      => h = g

(* The two ways to let go of a run.                                         *)
LEMMA ReplyEffect ==
  ASSUME LifecycleTypeOK, NEW h \in Handlers, NEW r, NEW answer, Replies(h, r, answer)
  PROVE  job'[h].pc = "idle" /\ job'[h].run = r /\ job'[h].answer = answer
<1>1. job \in [Handlers -> Job]
  BY DEF LifecycleTypeOK
<1> QED BY <1>1 DEF Replies, Becomes, Idle

LEMMA GivesUpEffect ==
  ASSUME LifecycleTypeOK, NEW h \in Handlers, NEW answer, GivesUp(h, answer)
  PROVE  job'[h].pc = "fail" /\ job'[h].run = job[h].run /\ job'[h].answer = answer
<1>1. job \in [Handlers -> Job] /\ job[h] \in Job
  BY DEF LifecycleTypeOK
<1> QED BY <1>1 DEF GivesUp, Becomes, Job

(* A step of one handler: it moves, alone, and if it holds a run it stays   *)
(* with it or lets go; a handler that has none takes a new one or none.     *)
LEMMA OwnStep ==
  ASSUME LifecycleTypeOK, NEW h \in Handlers,
         HandlerStep(h) \/ \E s \in Sources, narrowed \in Narrowings : Request(h, s, narrowed)
  PROVE  /\ \A g \in Handlers \ {h} : job'[g] = job[g]
         /\ job[h].pc \in Collecting /\ job'[h].pc \in Collecting =>
              job'[h].run = job[h].run /\ job'[h].source = job[h].source
         /\ job[h].pc \notin Collecting /\ job'[h].pc \in Collecting =>
              /\ job[h].pc = "start"
              /\ StartRun(job[h].source, job'[h].run) /\ job'[h].run \in RunIds
              /\ job'[h].pc = "count" /\ job'[h].source = job[h].source
              /\ UNCHANGED faults
<1>1. job \in [Handlers -> Job]
  BY DEF LifecycleTypeOK
<1>2. ASSUME NEW r, NEW answer, Replies(h, r, answer)
      PROVE  job'[h].pc \notin Collecting /\ \A g \in Handlers \ {h} : job'[g] = job[g]
  BY <1>1, <1>2 DEF Replies, Becomes, Idle, Collecting
<1>3. job[h] \in Job
  BY <1>1
<1>4. ASSUME NEW answer, GivesUp(h, answer)
      PROVE  /\ job'[h].run = job[h].run /\ job'[h].source = job[h].source
             /\ job'[h].pc = "fail" /\ \A g \in Handlers \ {h} : job'[g] = job[g]
  BY <1>1, <1>3, <1>4 DEF GivesUp, Becomes, Job
<1>5. CASE \E s \in Sources, narrowed \in Narrowings : Request(h, s, narrowed)
  <2>1. job[h].pc = "idle" /\ "idle" \notin Collecting
    BY <1>5 DEF Request, At, Collecting
  <2>2. PICK s \in Sources, narrowed \in Narrowings : Request(h, s, narrowed)
    BY <1>5
  <2>3. ASSUME Becomes(h, [Idle EXCEPT !.pc = "start", !.source = s, !.narrowed = narrowed])
        PROVE  job'[h].pc \notin Collecting /\ \A g \in Handlers \ {h} : job'[g] = job[g]
    BY <1>1, <2>3 DEF Becomes, Idle, Collecting
  <2>4. job'[h].pc \notin Collecting /\ \A g \in Handlers \ {h} : job'[g] = job[g]
    BY <1>2, <2>2, <2>3 DEF Request
  <2> QED BY <2>1, <2>4
<1>6. CASE Start(h)
  <2>1. job[h].pc = "start" /\ "start" \notin Collecting /\ "count" \in Collecting
    BY <1>6 DEF Start, At, Collecting
  <2>2. ASSUME NEW r \in RunIds, StartExclusiveRun(job[h].source, r), DatabaseWorks,
               Becomes(h, [job[h] EXCEPT !.pc = "count", !.run = r])
        PROVE  /\ StartRun(job[h].source, r) /\ job'[h].run = r
               /\ job'[h].pc = "count" /\ job'[h].source = job[h].source /\ UNCHANGED faults
               /\ \A g \in Handlers \ {h} : job'[g] = job[g]
    BY <1>1, <1>3, <2>2 DEF Becomes, Job, StartExclusiveRun, DatabaseWorks
  <2> QED BY <1>2, <1>6, <2>1, <2>2 DEF Start
<1>7. CASE Count(h)
  <2>1. job[h].pc \in Collecting
    BY <1>7 DEF Count, At, Collecting
  <2>2. ASSUME NEW plan, Becomes(h, [job[h] EXCEPT !.pc = "scrape", !.plan = plan])
        PROVE  /\ job'[h].run = job[h].run /\ job'[h].source = job[h].source
               /\ \A g \in Handlers \ {h} : job'[g] = job[g]
    BY <1>1, <1>3, <2>2 DEF Becomes, Job
  <2> QED BY <1>4, <1>7, <2>1, <2>2 DEF Count
<1>8. CASE Scrape(h)
  <2>1. job[h].pc \in Collecting
    BY <1>8 DEF Scrape, At, Collecting
  <2>2. ASSUME NEW cards, NEW listed, NEW errors,
               Becomes(h, [job[h] EXCEPT !.pc = "apply", !.cards = cards,
                             !.listed = listed, !.detailErrors = errors])
        PROVE  /\ job'[h].run = job[h].run /\ job'[h].source = job[h].source
               /\ \A g \in Handlers \ {h} : job'[g] = job[g]
    BY <1>1, <1>3, <2>2 DEF Becomes, Job
  <2> QED BY <1>4, <1>8, <2>1, <2>2 DEF Scrape
<1>9. CASE Apply(h)
  <2>1. job[h].pc \in Collecting
    BY <1>9 DEF Apply, At, Collecting
  <2>2. ASSUME NEW added, NEW updated,
               Becomes(h, [job[h] EXCEPT !.pc = "complete", !.added = added,
                             !.updated = updated])
        PROVE  /\ job'[h].run = job[h].run /\ job'[h].source = job[h].source
               /\ \A g \in Handlers \ {h} : job'[g] = job[g]
    BY <1>1, <1>3, <2>2 DEF Becomes, Job
  <2> QED BY <1>4, <1>9, <2>1, <2>2 DEF Apply
<1>10. CASE Complete(h) \/ Fail(h)
  <2>1. job[h].pc \in Collecting
    BY <1>10 DEF Complete, Fail, At, Collecting
  <2> QED BY <1>2, <1>4, <1>10, <2>1 DEF Complete, Fail
<1> QED BY <1>5, <1>6, <1>7, <1>8, <1>9, <1>10 DEF HandlerStep

(* A run is touched by the handler that holds it, by the start that opens   *)
(* it and by a booting process, and by nothing else.                        *)
LEMMA RunTouched ==
  ASSUME LifecycleTypeOK, [LifecycleNext]_vars, NEW r \in RunIds
  PROVE  \/ runs'[r] = runs[r] /\ composition'[r] = composition[r]
         \/ /\ \E sv \in Servers : Boot(sv)
            /\ composition'[r] = composition[r] /\ RunIs(r, "running")
            /\ runs'[r] # NoRow /\ runs'[r].source = runs[r].source
            /\ runs'[r].status = "failed"
         \/ /\ runs[r] = NoRow /\ composition' = composition
            /\ runs'[r] # NoRow /\ runs'[r].status = "running"
            /\ \E h \in Handlers : Start(h) /\ StartRun(job[h].source, r)
         \/ \E h \in Handlers : /\ Apply(h) \/ Complete(h) \/ Fail(h)
                                /\ job[h].pc \in Collecting /\ job[h].run = r
<1> DEFINE Same == runs'[r] = runs[r] /\ composition'[r] = composition[r]
<1>1. TypeOK
  BY DEF LifecycleTypeOK
<1>2. ASSUME NEW h \in Handlers, Start(h)
      PROVE  Same \/ (/\ runs[r] = NoRow /\ composition' = composition
                      /\ runs'[r] # NoRow /\ runs'[r].status = "running"
                      /\ StartRun(job[h].source, r))
  <2>1. job[h].source \in Sources
    BY <1>2 DEF Start, At, LifecycleTypeOK
  <2>2. ASSUME NEW q \in RunIds, StartRun(job[h].source, q), q # r
        PROVE  Same
    BY <1>1, <2>1, <2>2, OpenedRunRow DEF StartRun
  <2>3. ASSUME StartRun(job[h].source, r)
        PROVE  /\ runs[r] = NoRow /\ composition' = composition
               /\ runs'[r] # NoRow /\ runs'[r].status = "running"
    BY <1>1, <2>1, <2>3, OpenedRunRow DEF StartRun
  <2>4. UNCHANGED storeVars => Same
    BY DEF storeVars
  <2>5. UNCHANGED storeVars \/ \E q \in RunIds : StartRun(job[h].source, q)
    BY <1>2 DEF Start, StartExclusiveRun
  <2> QED BY <2>2, <2>3, <2>4, <2>5
<1>3. ASSUME NEW h \in Handlers, Apply(h) \/ Complete(h) \/ Fail(h)
      PROVE  Same \/ (job[h].pc \in Collecting /\ job[h].run = r)
  <2>1. job[h].pc \in Collecting /\ job[h].run \in RunIds /\ job[h].cards \in Cards
    BY <1>3 DEF Apply, Complete, Fail, At, LifecycleTypeOK, Collecting, Job
  <2>2. /\ FinalStatus(h) \in Terminal /\ FinalCompletion(h) \in Completions
        /\ FinalCounts(h) \in CountsGiven /\ NoCounts \in CountsGiven
        /\ "failed" \in Terminal /\ "unknown" \in Completions
    BY ReportIsGiven DEF LifecycleTypeOK, Terminal, Completions
  <2>3. ASSUME job[h].run # r, ApplyObservedVacancies(job[h].run, job[h].cards) PROVE Same
    BY <2>1, <2>3, <1>1 DEF ApplyObservedVacancies, TypeOK
  <2>4. ASSUME job[h].run # r, NEW status \in Terminal, NEW completion \in Completions,
               NEW counts \in CountsGiven, CompleteRun(job[h].run, status, completion, counts)
        PROVE  Same
    BY <2>1, <2>4, <1>1 DEF CompleteRun, TypeOK
  <2>5. UNCHANGED storeVars => Same
    BY DEF storeVars
  <2> HIDE DEF Same
  <2> QED BY <1>3, <2>1, <2>2, <2>3, <2>4, <2>5 DEF Apply, Complete, Fail
<1>4. ASSUME NEW sv \in Servers, Boot(sv)
      PROVE  Same \/ (/\ composition'[r] = composition[r] /\ RunIs(r, "running")
                      /\ runs'[r] # NoRow /\ runs'[r].source = runs[r].source
                      /\ runs'[r].status = "failed")
  BY <1>1, <1>4, RecoveredRows DEF Boot, RecoverInterruptedRuns
<1>5. CASE OtherRequest
  BY <1>5 DEF OtherRequest, CreateSource, UpdateVacancyUserStatus
<1>6. CASE UNCHANGED storeVars
  BY <1>6 DEF storeVars
<1>7. UNCHANGED vars => UNCHANGED storeVars
  BY DEF vars
<1> HIDE DEF Same
<1>8. Same \/ ~Same
  OBVIOUS
<1>9. CASE Same
  BY <1>9 DEF Same
<1>10. CASE ~Same
  BY <1>2, <1>3, <1>4, <1>5, <1>6, <1>7, <1>10
     DEF Same, LifecycleNext, HandlerStep, Request, Count, Scrape, Crash, SiteChanges
<1> QED BY <1>9, <1>10

LEMMA OneHandlerStep ==
  ASSUME LifecycleTypeOK, RunsHaveOneHandler, [LifecycleNext]_vars
  PROVE  RunsHaveOneHandler'
<1> DEFINE Acts(h) == \/ HandlerStep(h)
                      \/ \E s \in Sources, narrowed \in Narrowings : Request(h, s, narrowed)
<1>1. ASSUME NEW h \in Handlers, Acts(h) PROVE RunsHaveOneHandler'
  <2>1. /\ \A g \in Handlers \ {h} : job'[g] = job[g]
        /\ job[h].pc \in Collecting /\ job'[h].pc \in Collecting => job'[h].run = job[h].run
        /\ job[h].pc \notin Collecting /\ job'[h].pc \in Collecting =>
             StartRun(job[h].source, job'[h].run)
    BY <1>1, OwnStep
  <2>2. \A g \in Handlers : job[g].pc \in Collecting => runs[job[g].run] # NoRow
    BY DEF LifecycleTypeOK
  <2>3. \A s, r : StartRun(s, r) => runs[r] = NoRow
    BY DEF StartRun
  <2> QED BY <2>1, <2>2, <2>3 DEF RunsHaveOneHandler
<1>2. ASSUME \A h \in Handlers : job'[h] = job[h] \/ job'[h] = Idle PROVE RunsHaveOneHandler'
  BY <1>2 DEF RunsHaveOneHandler, Idle, Collecting
<1>3. CASE UNCHANGED job
  BY <1>2, <1>3
<1>4. ASSUME NEW sv \in Servers, Crash(sv) PROVE RunsHaveOneHandler'
  BY <1>2, <1>4 DEF Crash
<1> QED BY <1>1, <1>3, <1>4 DEF LifecycleNext, Boot, SiteChanges, OtherRequest, vars

(* What the step of anybody else leaves of a handler's job and of its run:  *)
(* everything, unless its process crashes or another one boots.             *)
LEMMA ForeignStep ==
  ASSUME LifecycleTypeOK, RunsHaveOneHandler, [LifecycleNext]_vars, NEW h \in Handlers,
         job[h].pc \in Collecting, ~HandlerStep(h),
         job'[h] # Idle \/ ~\E sv \in Servers : Crash(sv)
  PROVE  LET r == job[h].run IN
         /\ job'[h] = job[h]
         /\ composition'[r] = composition[r]
         /\ \/ runs'[r] = runs[r]
            \/ /\ \E sv \in Servers : Boot(sv)
               /\ RunIs(r, "running") /\ runs'[r] # NoRow /\ runs'[r].status = "failed"
<1>1. job'[h] = job[h]
  <2>1. ASSUME NEW g \in Handlers, g # h,
               HandlerStep(g) \/ \E s \in Sources, narrowed \in Narrowings : Request(g, s, narrowed)
        PROVE  job'[h] = job[h]
    BY <2>1, OwnStep
  <2>2. ASSUME NEW s \in Sources, NEW narrowed \in Narrowings, Request(h, s, narrowed)
        PROVE  FALSE
    BY <2>2 DEF Request, At, Collecting
  <2>3. ASSUME NEW sv \in Servers, Crash(sv) PROVE job'[h] = job[h]
    BY <2>3 DEF Crash
  <2> QED BY <2>1, <2>2, <2>3 DEF LifecycleNext, Boot, SiteChanges, OtherRequest, vars
<1>2. job[h].run \in RunIds /\ runs[job[h].run] # NoRow
  BY DEF LifecycleTypeOK
<1>3. \A g \in Handlers : job[g].pc \in Collecting /\ job[g].run = job[h].run => g = h
  BY DEF RunsHaveOneHandler
<1>4. Apply(h) \/ Complete(h) \/ Fail(h) => HandlerStep(h)
  BY DEF HandlerStep
<1> QED BY <1>1, <1>2, <1>3, <1>4, RunTouched

(* Each open run has one handler at most, on all servers together.          *)
LEMMA OneHandlerPerRun == LifecycleSpec => []RunsHaveOneHandler
<1>1. LifecycleInit => RunsHaveOneHandler
  BY DEF LifecycleInit, RunsHaveOneHandler, Idle, Collecting
<1>2. LifecycleTypeOK /\ RunsHaveOneHandler /\ [LifecycleNext]_vars => RunsHaveOneHandler'
  BY OneHandlerStep
<1> QED BY <1>1, <1>2, LifecycleTypeCorrect, PTL DEF LifecycleSpec

(* How a handler comes to hold a run after a step: it held it before and    *)
(* somebody else moved, it opened it, or it went on with it itself.         *)
LEMMA HoldsAfter ==
  ASSUME LifecycleTypeOK, RunsHaveOneHandler, [LifecycleNext]_vars, NEW h \in Handlers,
         job'[h].pc \in Collecting
  PROVE  \/ /\ job[h].pc \in Collecting /\ job'[h] = job[h]
            /\ composition'[job[h].run] = composition[job[h].run]
            /\ \/ runs'[job[h].run] = runs[job[h].run]
               \/ /\ \E sv \in Servers : Boot(sv)
                  /\ RunIs(job[h].run, "running") /\ runs'[job[h].run] # NoRow
                  /\ runs'[job[h].run].status = "failed"
         \/ /\ job[h].pc = "start" /\ Start(h) /\ job'[h].pc = "count"
            /\ StartRun(job[h].source, job'[h].run) /\ job'[h].run \in RunIds
            /\ job[h].source \in Sources /\ job'[h].source = job[h].source
            /\ UNCHANGED faults
         \/ /\ job[h].pc \in Collecting
            /\ Count(h) \/ Scrape(h) \/ Apply(h) \/ Complete(h)
            /\ job'[h].run = job[h].run /\ job'[h].source = job[h].source
<1>1. job'[h] # Idle
  BY DEF Idle, Collecting
<1>2. CASE HandlerStep(h) /\ job[h].pc \in Collecting
  <2>1. job'[h].run = job[h].run /\ job'[h].source = job[h].source
    BY <1>2, OwnStep
  <2>2. ~Start(h)
    BY <1>2 DEF Start, At, Collecting
  <2>3. ~Fail(h)
    BY ReplyEffect DEF Fail, Collecting
  <2> QED BY <1>2, <2>1, <2>2, <2>3 DEF HandlerStep
<1>3. CASE ~HandlerStep(h) /\ job[h].pc \in Collecting
  BY <1>1, <1>3, ForeignStep
<1>4. CASE job[h].pc \notin Collecting
  <2> DEFINE Acts(g) == \/ HandlerStep(g)
                        \/ \E s \in Sources, narrowed \in Narrowings : Request(g, s, narrowed)
  <2>1. ASSUME NEW g \in Handlers, Acts(g) PROVE g = h
    BY <1>4, <2>1, OwnStep
  <2>2. Acts(h)
    BY <1>1, <1>4, <2>1
       DEF LifecycleNext, Crash, Boot, SiteChanges, OtherRequest, vars
  <2>3. /\ job[h].pc = "start" /\ job'[h].pc = "count"
        /\ StartRun(job[h].source, job'[h].run) /\ job'[h].run \in RunIds
        /\ job'[h].source = job[h].source /\ UNCHANGED faults
    BY <1>4, <2>2, OwnStep
  <2>4. Start(h) /\ job[h].source \in Sources
    BY <2>2, <2>3 DEF HandlerStep, Request, Count, Scrape, Apply, Complete, Fail, At,
                      LifecycleTypeOK
  <2> QED BY <2>3, <2>4
<1> QED BY <1>2, <1>3, <1>4

-----------------------------------------------------------------------------
(* One server on the file *)

(* The deployment the documentation describes, and the one that recovery at *)
(* the start of a process takes for granted.                                *)
OneServer == \E sv : Servers = {sv}

(* While a handler works its process is up, so nothing boots and recovers.  *)
LEMMA LiveStep ==
  ASSUME OneServer, LifecycleTypeOK, RunsHaveOneHandler, LiveRunStaysOpen,
         [LifecycleNext]_vars
  PROVE  LiveRunStaysOpen'
<1> SUFFICES ASSUME NEW h \in Handlers, job'[h].pc \in Working
             PROVE  runs'[job'[h].run] # NoRow /\ runs'[job'[h].run].status = "running"
  BY DEF LiveRunStaysOpen, RunIs
<1>1. job'[h].pc \in Collecting /\ Working \subseteq Collecting
  BY DEF Working
<1>2. CASE /\ job[h].pc = "start" /\ StartRun(job[h].source, job'[h].run)
           /\ job'[h].run \in RunIds /\ job[h].source \in Sources
  BY <1>2, OpenedRunRow DEF LifecycleTypeOK
<1>3. CASE /\ job[h].pc \in Collecting
           /\ Count(h) \/ Scrape(h) \/ Apply(h) \/ Complete(h)
           /\ job'[h].run = job[h].run
  <2>1. ~Complete(h)
    BY ReplyEffect, GivesUpEffect DEF Complete, Working, Collecting
  <2>2. job[h].pc \in Working /\ runs' = runs
    BY <1>3, <2>1 DEF Count, Scrape, Apply, At, Working, Collecting, ApplyObservedVacancies,
                      storeVars
  <2> QED BY <1>3, <2>2 DEF LiveRunStaysOpen, RunIs
<1>4. CASE /\ job[h].pc \in Collecting /\ job'[h] = job[h]
           /\ runs'[job[h].run] = runs[job[h].run]
  BY <1>4 DEF LiveRunStaysOpen, RunIs
<1>5. ASSUME job[h].pc \in Collecting, NEW sv \in Servers, Boot(sv) PROVE FALSE
  <2>1. up[ServerOf[h]] /\ ServerOf[h] \in Servers
    BY <1>5, LifecycleAssumption DEF LifecycleTypeOK, Collecting
  <2>2. ServerOf[h] = sv
    BY <1>5, <2>1 DEF OneServer
  <2> QED BY <1>5, <2>1, <2>2 DEF Boot
<1> QED BY <1>1, <1>2, <1>3, <1>4, <1>5, HoldsAfter

(* With one server, the run of a handler that is at work is open: recovery  *)
(* gives up only runs that nobody owns.                                     *)
THEOREM OneServerKeepsRunsOpen == OneServer => (LifecycleSpec => []LiveRunStaysOpen)
<1> SUFFICES ASSUME OneServer PROVE LifecycleSpec => []LiveRunStaysOpen
  OBVIOUS
<1>1. LifecycleInit => LiveRunStaysOpen
  BY DEF LifecycleInit, LiveRunStaysOpen, Idle, Working, Collecting
<1>2. LifecycleTypeOK /\ RunsHaveOneHandler /\ LiveRunStaysOpen /\ [LifecycleNext]_vars
        => LiveRunStaysOpen'
  BY LiveStep
<1> QED BY <1>1, <1>2, LifecycleTypeCorrect, OneHandlerPerRun, PTL DEF LifecycleSpec

(* With one server, no two handlers collect the same source: their runs are *)
(* both open, so by the lock they are one run, and a run has one handler.   *)
THEOREM OneServerCollectsAlone == OneServer => (LifecycleSpec => []OneCollectorPerSource)
<1> SUFFICES ASSUME OneServer PROVE LifecycleSpec => []OneCollectorPerSource
  OBVIOUS
<1>1. LifecycleTypeOK /\ RunsHaveOneHandler /\ LiveRunStaysOpen /\ LockMatchesRun
        => OneCollectorPerSource
  <2> SUFFICES ASSUME LifecycleTypeOK, RunsHaveOneHandler, LiveRunStaysOpen, LockMatchesRun,
                      NEW h \in Handlers, NEW g \in Handlers,
                      job[h].pc \in Working, job[g].pc \in Working,
                      job[h].source = job[g].source
               PROVE  h = g
    BY DEF OneCollectorPerSource
  <2>1. job[h].pc \in Collecting /\ job[g].pc \in Collecting
    BY DEF Working
  <2>2. /\ job[h].run \in RunIds /\ job[g].run \in RunIds
        /\ runs[job[h].run].source = job[h].source /\ runs[job[g].run].source = job[g].source
    BY <2>1 DEF LifecycleTypeOK
  <2>3. job[h].run = job[g].run
    BY <2>2 DEF LiveRunStaysOpen, LockMatchesRun
  <2> QED BY <2>1, <2>3 DEF RunsHaveOneHandler
<1>2. LifecycleSpec => []LiveRunStaysOpen
  BY OneServerKeepsRunsOpen
<1>3. LifecycleSpec => []LockMatchesRun
  BY LifecycleImplementsStore, LockIsExact DEF StoreSpec
<1> QED BY <1>1, <1>2, <1>3, LifecycleTypeCorrect, OneHandlerPerRun, PTL

(* The failures still to come are never more than before.                   *)
LEMMA FaultsFall ==
  ASSUME LifecycleTypeOK, [LifecycleNext]_vars
  PROVE  /\ faults \in 0..MaxFaults /\ faults' \in 0..MaxFaults /\ faults' <= faults
         /\ DatabaseFails => faults' < faults
<1>1. faults \in 0..MaxFaults /\ MaxFaults \in Nat
  BY LifecycleAssumption DEF LifecycleTypeOK
<1>2. faults' = faults \/ DatabaseFails
  BY DEF LifecycleNext, HandlerStep, Request, Start, Count, Scrape, Apply, Complete, Fail,
         Crash, Boot, SiteChanges, OtherRequest, DatabaseWorks, vars
<1> QED BY <1>1, <1>2 DEF DatabaseFails

(* A failure can always be recorded for a run that is open.                 *)
LEMMA FailedIsAccepted ==
  ASSUME NEW r \in RunIds, ~CompleteAccepts(r, "failed", "unknown")
  PROVE  ~RunIs(r, "running")
BY DEF CompleteAccepts, ToArchive, Archives

(* What the end of a run by its handler comes to.                           *)
LEMMA EndOfRun ==
  ASSUME LifecycleTypeOK, NEW h \in Handlers, job[h].pc \in Collecting,
         NEW status \in Terminal, NEW completion \in Completions, NEW counts \in CountsGiven,
         CompleteRun(job[h].run, status, completion, counts)
  PROVE  runs'[job[h].run] # NoRow /\ runs'[job[h].run].status = status
<1>1. TypeOK /\ job[h].run \in RunIds
  BY DEF LifecycleTypeOK
<1> QED BY <1>1, CompletedRunRow

(* A handler lets go of a run that is still open only when it could not     *)
(* record the failure.                                                      *)
LEMMA LetsGoByFailing ==
  ASSUME LifecycleTypeOK, [LifecycleNext]_vars, NEW h \in Handlers, HandlerStep(h),
         job[h].pc \in Collecting,
         runs'[job[h].run] # NoRow, runs'[job[h].run].status = "running",
         ~(job'[h].pc \in Collecting /\ job'[h].run = job[h].run)
  PROVE  Fail(h) /\ DatabaseFails /\ UNCHANGED storeVars
<1>1. /\ job[h].run \in RunIds /\ job[h] \in Job /\ job \in [Handlers -> Job]
      /\ runs[job[h].run] # NoRow
  BY DEF LifecycleTypeOK
<1>2. "running" \notin Terminal
  BY DEF Terminal
<1>3. /\ FinalStatus(h) \in Terminal /\ FinalCompletion(h) \in Completions
      /\ FinalCounts(h) \in CountsGiven /\ NoCounts \in CountsGiven
      /\ "failed" \in Terminal /\ "unknown" \in Completions
  BY <1>1, ReportIsGiven DEF Terminal, Completions
<1>4. ~CompleteRun(job[h].run, "failed", "unknown", NoCounts)
  BY <1>2, <1>3, EndOfRun
<1>5. ~CompleteRun(job[h].run, FinalStatus(h), FinalCompletion(h), FinalCounts(h))
  BY <1>2, <1>3, EndOfRun
<1>6. ASSUME UNCHANGED storeVars PROVE CompleteAccepts(job[h].run, "failed", "unknown")
  BY <1>1, <1>6, FailedIsAccepted DEF storeVars, RunIs
<1>7. ~Start(h)
  BY DEF Start, At, Collecting
<1>8. job'[h].pc \notin Collecting
  BY OwnStep
<1>9. ~\E answer : GivesUp(h, answer)
  BY <1>8, GivesUpEffect DEF Collecting
<1>10. ~Count(h)
  BY <1>1, <1>8, <1>9 DEF Count, Becomes, Job, Collecting
<1>11. ~Scrape(h)
  BY <1>1, <1>8, <1>9 DEF Scrape, Becomes, Job, Collecting
<1>12. ~Apply(h)
  BY <1>1, <1>8, <1>9 DEF Apply, Becomes, Job, Collecting
<1>13. ~Complete(h)
  BY <1>5, <1>9 DEF Complete
<1>14. Fail(h)
  BY <1>7, <1>10, <1>11, <1>12, <1>13 DEF HandlerStep
<1> QED BY <1>4, <1>6, <1>14 DEF Fail

-----------------------------------------------------------------------------
(* What the client is told *)

(* While a handler has not failed for a reason of its own its run is open,  *)
(* or was given up by a process that booted meanwhile; so a failure that is *)
(* answered is, or is about to be, on record.                               *)
AnswerIsSound(h) ==
  /\ job[h].pc = "fail" => job[h].answer # "200"
  /\ \/ job[h].pc \in Working
     \/ job[h].pc = "fail" /\ job[h].answer \in {"502", "504"}
     => RunIs(job[h].run, "running") \/ RunIs(job[h].run, "failed")
  /\ job[h].pc = "idle" /\ job[h].run # NoRow =>
       /\ job[h].answer = "200" => RunIs(job[h].run, "success") \/ RunIs(job[h].run, "partial")
       /\ job[h].answer \in {"502", "504"} /\ faults = MaxFaults => RunIs(job[h].run, "failed")

AnswersAreSound == \A h \in Handlers : AnswerIsSound(h)

(* Everybody else's step.                                                   *)
LEMMA AnswerStaysSound ==
  ASSUME LifecycleTypeOK, RunsHaveOneHandler, [LifecycleNext]_vars, NEW h \in Handlers,
         AnswerIsSound(h), job'[h] = job[h],
         job[h].pc \in Collecting =>
           \/ runs'[job[h].run] = runs[job[h].run]
           \/ runs'[job[h].run] # NoRow /\ runs'[job[h].run].status = "failed"
  PROVE  AnswerIsSound(h)'
<1>1. CASE job[h].pc \in Collecting
  <2>1. job[h].pc # "idle"
    BY <1>1 DEF Collecting
  <2> QED BY <1>1, <2>1 DEF AnswerIsSound, RunIs
<1>2. CASE job[h].pc \notin Collecting
  <2>1. job[h].pc \notin Working /\ job[h].pc # "fail"
    BY <1>2 DEF Working, Collecting
  <2>2. faults' = MaxFaults => faults = MaxFaults
    BY FaultsFall, LifecycleAssumption
  <2>3. job[h].run \in RunIds \cup {NoRow} /\ TypeOK /\ [Next]_storeVars
    BY StoreStep, ExclusiveIsNext DEF LifecycleTypeOK, Job
  <2>4. ASSUME job[h].run # NoRow, runs[job[h].run] # NoRow, runs[job[h].run].status \in Terminal
        PROVE  runs'[job[h].run] = runs[job[h].run]
    BY <2>3, <2>4, TerminalStep
  <2>5. {"success", "partial", "failed"} = Terminal
    BY DEF Terminal
  <2> QED BY <2>1, <2>2, <2>4, <2>5 DEF AnswerIsSound, RunIs
<1> QED BY <1>1, <1>2

(* A handler's own step.                                                    *)
LEMMA AnswerIsMadeSound ==
  ASSUME LifecycleTypeOK, [LifecycleNext]_vars, NEW h \in Handlers, AnswerIsSound(h),
         HandlerStep(h) \/ \E s \in Sources, narrowed \in Narrowings : Request(h, s, narrowed)
  PROVE  AnswerIsSound(h)'
<1>1. /\ job[h] \in Job /\ job \in [Handlers -> Job] /\ TypeOK
      /\ job[h].pc \in Collecting => job[h].run \in RunIds /\ runs[job[h].run] # NoRow
  BY DEF LifecycleTypeOK
<1> DEFINE open == RunIs(job[h].run, "running") \/ RunIs(job[h].run, "failed")
<1>2. ASSUME NEW answer, Replies(h, NoRow, answer) PROVE AnswerIsSound(h)'
  BY <1>2, ReplyEffect DEF AnswerIsSound, Working, Collecting
<1>3. ASSUME NEW answer, GivesUp(h, answer), answer # "200",
             answer \in {"502", "504"} => open /\ runs' = runs
      PROVE  AnswerIsSound(h)'
  BY <1>3, GivesUpEffect DEF AnswerIsSound, Working, Collecting, RunIs
<1>4. ASSUME job'[h].pc \in Working, job'[h].run = job[h].run, open, runs' = runs
      PROVE  AnswerIsSound(h)'
  BY <1>4 DEF AnswerIsSound, Working, Collecting, RunIs
<1>5. CASE \E s \in Sources, narrowed \in Narrowings : Request(h, s, narrowed)
  <2>1. PICK s \in Sources, narrowed \in Narrowings : Request(h, s, narrowed)
    BY <1>5
  <2>2. ASSUME Becomes(h, [Idle EXCEPT !.pc = "start", !.source = s, !.narrowed = narrowed])
        PROVE  AnswerIsSound(h)'
    BY <1>1, <2>2 DEF Becomes, Idle, AnswerIsSound, Working, Collecting
  <2> QED BY <1>2, <2>1, <2>2 DEF Request
<1>6. CASE Start(h)
  <2>1. ASSUME NEW r \in RunIds, StartExclusiveRun(job[h].source, r),
               Becomes(h, [job[h] EXCEPT !.pc = "count", !.run = r])
        PROVE  AnswerIsSound(h)'
    <3>1. job'[h].pc = "count" /\ job'[h].run = r
      BY <1>1, <2>1 DEF Becomes, Job
    <3>2. job[h].source \in Sources
      BY <1>6 DEF Start, At, LifecycleTypeOK
    <3>3. runs'[r] # NoRow /\ runs'[r].status = "running"
      BY <1>1, <2>1, <3>2, OpenedRunRow DEF StartExclusiveRun
    <3> QED BY <3>1, <3>3 DEF AnswerIsSound, RunIs
  <2> QED BY <1>2, <1>6, <2>1 DEF Start
<1>7. CASE Count(h)
  <2>1. open /\ runs' = runs
    BY <1>7 DEF Count, At, AnswerIsSound, Working, Collecting, storeVars
  <2>2. ASSUME NEW plan, Becomes(h, [job[h] EXCEPT !.pc = "scrape", !.plan = plan])
        PROVE  job'[h].pc \in Working /\ job'[h].run = job[h].run
    BY <1>1, <2>2 DEF Becomes, Job, Working, Collecting
  <2> HIDE DEF open
  <2> QED BY <1>3, <1>4, <1>7, <2>1, <2>2 DEF Count
<1>8. CASE Scrape(h)
  <2>1. open /\ runs' = runs
    BY <1>8 DEF Scrape, At, AnswerIsSound, Working, Collecting, storeVars
  <2>2. ASSUME NEW cards, NEW listed, NEW errors,
               Becomes(h, [job[h] EXCEPT !.pc = "apply", !.cards = cards,
                             !.listed = listed, !.detailErrors = errors])
        PROVE  job'[h].pc \in Working /\ job'[h].run = job[h].run
    BY <1>1, <2>2 DEF Becomes, Job, Working, Collecting
  <2> HIDE DEF open
  <2> QED BY <1>3, <1>4, <1>8, <2>1, <2>2 DEF Scrape
<1>9. CASE Apply(h)
  <2>1. open /\ runs' = runs
    BY <1>9 DEF Apply, At, AnswerIsSound, Working, Collecting, storeVars,
                ApplyObservedVacancies
  <2>2. ASSUME NEW added, NEW updated,
               Becomes(h, [job[h] EXCEPT !.pc = "complete", !.added = added,
                             !.updated = updated])
        PROVE  job'[h].pc \in Working /\ job'[h].run = job[h].run
    BY <1>1, <2>2 DEF Becomes, Job, Working, Collecting
  <2> HIDE DEF open
  <2> QED BY <1>3, <1>4, <1>9, <2>1, <2>2 DEF Apply
<1>10. CASE Complete(h)
  <2>1. ASSUME CompleteRun(job[h].run, FinalStatus(h), FinalCompletion(h), FinalCounts(h)),
               Replies(h, job[h].run, "200")
        PROVE  AnswerIsSound(h)'
    <3>1. runs'[job[h].run] # NoRow /\ runs'[job[h].run].status = FinalStatus(h)
      BY <1>1, <1>10, <2>1, ReportIsGiven, EndOfRun DEF Complete, At, Collecting
    <3>2. job'[h].pc = "idle" /\ job'[h].run = job[h].run /\ job'[h].answer = "200"
      BY <2>1, ReplyEffect
    <3> QED BY <3>1, <3>2 DEF AnswerIsSound, Working, Collecting, FinalStatus, RunIs
  <2> QED BY <1>3, <1>10, <2>1 DEF Complete
<1>11. CASE Fail(h)
  <2>1. /\ job'[h].pc = "idle" /\ job'[h].run = job[h].run /\ job'[h].answer = job[h].answer
        /\ job[h].pc = "fail" /\ job[h].pc \in Collecting /\ job[h].run \in RunIds
    BY <1>1, <1>11, ReplyEffect DEF Fail, At, Collecting
  <2>2. CASE job[h].answer \in {"502", "504"}
    <3>1. CASE CompleteRun(job[h].run, "failed", "unknown", NoCounts)
      <4>1. runs'[job[h].run] # NoRow /\ runs'[job[h].run].status = "failed"
        BY <1>1, <2>1, <3>1, ReportIsGiven, EndOfRun DEF Terminal, Completions
      <4> QED BY <2>1, <2>2, <4>1 DEF AnswerIsSound, Working, Collecting, RunIs
    <3>2. CASE ~CompleteAccepts(job[h].run, "failed", "unknown") /\ UNCHANGED storeVars
      <4>1. RunIs(job[h].run, "failed")
        BY <2>1, <2>2, <3>2, FailedIsAccepted DEF AnswerIsSound
      <4> QED BY <2>1, <2>2, <3>2, <4>1 DEF AnswerIsSound, Working, Collecting, RunIs, storeVars
    <3>3. CASE DatabaseFails
      <4>1. faults' # MaxFaults
        BY <3>3, FaultsFall, LifecycleAssumption
      <4> QED BY <2>1, <2>2, <4>1 DEF AnswerIsSound, Working, Collecting
    <3> QED BY <1>11, <3>1, <3>2, <3>3 DEF Fail
  <2>3. CASE job[h].answer \notin {"502", "504"}
    BY <2>1, <2>3 DEF AnswerIsSound, Working, Collecting
  <2> QED BY <2>2, <2>3
<1> QED BY <1>5, <1>6, <1>7, <1>8, <1>9, <1>10, <1>11 DEF HandlerStep

LEMMA AnswersStep ==
  ASSUME LifecycleTypeOK, RunsHaveOneHandler, AnswersAreSound, [LifecycleNext]_vars
  PROVE  AnswersAreSound'
<1> SUFFICES ASSUME NEW h \in Handlers PROVE AnswerIsSound(h)'
  BY DEF AnswersAreSound
<1>1. AnswerIsSound(h)
  BY DEF AnswersAreSound
<1> DEFINE Acts(g) == \/ HandlerStep(g)
                      \/ \E s \in Sources, narrowed \in Narrowings : Request(g, s, narrowed)
<1>2. CASE Acts(h)
  BY <1>1, <1>2, AnswerIsMadeSound
<1>3. CASE job'[h] = Idle
  BY <1>3 DEF AnswerIsSound, Idle, Working, Collecting
<1>4. CASE ~Acts(h) /\ job'[h] # Idle
  <2>1. job'[h] = job[h]
    <3>1. ASSUME NEW g \in Handlers, g # h, Acts(g) PROVE job'[h] = job[h]
      BY <3>1, OwnStep
    <3>2. ASSUME NEW sv \in Servers, Crash(sv) PROVE job'[h] = job[h]
      BY <1>4, <3>2 DEF Crash
    <3> QED BY <1>4, <3>1, <3>2 DEF LifecycleNext, Boot, SiteChanges, OtherRequest, vars
  <2>2. job[h].pc \in Collecting =>
          \/ runs'[job[h].run] = runs[job[h].run]
          \/ runs'[job[h].run] # NoRow /\ runs'[job[h].run].status = "failed"
    BY <1>4, ForeignStep
  <2> QED BY <1>1, <2>1, <2>2, AnswerStaysSound
<1> QED BY <1>2, <1>3, <1>4

(* On any number of servers: a success is answered only for a run that is   *)
(* on record as one, and a failure only for one that is, as long as the     *)
(* database has not failed.                                                 *)
THEOREM AnswersAreOnRecord == LifecycleSpec => []AnswersAreSound
<1>1. LifecycleInit => AnswersAreSound
  BY DEF LifecycleInit, AnswersAreSound, AnswerIsSound, Idle, Working, Collecting
<1>2. LifecycleTypeOK /\ RunsHaveOneHandler /\ AnswersAreSound /\ [LifecycleNext]_vars
        => AnswersAreSound'
  BY AnswersStep
<1> QED BY <1>1, <1>2, LifecycleTypeCorrect, OneHandlerPerRun, PTL DEF LifecycleSpec

(* Without a failing database the answer is exact.                          *)
THEOREM AnswersAreExact == MaxFaults = 0 => (LifecycleSpec => []AnswerTellsOutcome)
<1> SUFFICES ASSUME MaxFaults = 0 PROVE LifecycleSpec => []AnswerTellsOutcome
  OBVIOUS
<1>1. LifecycleTypeOK /\ AnswersAreSound => AnswerTellsOutcome
  <2>1. LifecycleTypeOK => faults = MaxFaults
    BY DEF LifecycleTypeOK
  <2> QED BY <2>1 DEF AnswersAreSound, AnswerIsSound, AnswerTellsOutcome
<1> QED BY <1>1, LifecycleTypeCorrect, AnswersAreOnRecord, PTL

-----------------------------------------------------------------------------
(* What a run reports *)

(* The counters a handler carries from the transaction that applied the     *)
(* cards to the one that completes the run are what the run has on record.  *)
CountIsSound(h) ==
  /\ job[h].pc \in {"count", "scrape", "apply"} =>
       \A v \in Vacancies : composition[job[h].run][v] = "none"
  /\ job[h].pc = "complete" =>
       /\ job[h].added = Cardinality(Recorded(job[h].run, {"added"}))
       /\ job[h].updated = Cardinality(Recorded(job[h].run, {"updated"}))

RunIsCounted(r) ==
  RunIs(r, "success") \/ RunIs(r, "partial") =>
    /\ runs[r].added = Cardinality(Recorded(r, {"added"}))
    /\ runs[r].updated = Cardinality(Recorded(r, {"updated"}))

CountsAreSound == /\ \A h \in Handlers : CountIsSound(h)
                  /\ \A r \in RunIds : RunIsCounted(r)

(* What has been observed is what is on record, when nothing was before.    *)
LEMMA DeltaIsRecorded ==
  ASSUME TypeOK, NEW r \in RunIds, NEW cards \in Cards, ApplyObservedVacancies(r, cards),
         \A v \in Vacancies : composition[r][v] = "none", NEW d \in Observations
  PROVE  Delta(r, cards, d) = Cardinality(Recorded(r, {d})')
<1> DEFINE some == {v \in Observed(r, cards) : Disposition(v, ContentOf(cards, v)) = d}
<1>1. d # "none"
  BY DEF Observations
<1>2. Observed(r, cards) \subseteq Vacancies
  <2>1. runs[r].source \in Sources
    BY RowShapes DEF ApplyObservedVacancies, ApplyAccepts, RunIs, RunRow
  <2>2. \A i \in Firsts(cards) : cards[i].key \in Keys
    BY CardInDomain DEF ApplyObservedVacancies, ApplyAccepts, Firsts, Card
  <2> QED BY <2>1, <2>2 DEF Observed, Vacancies
<1>3. ASSUME NEW v \in Vacancies
      PROVE  composition'[r][v] = d <=> v \in some
  BY <1>1 DEF ApplyObservedVacancies, TypeOK
<1>4. Recorded(r, {d})' = some
  BY <1>2, <1>3 DEF Recorded
<1> QED BY <1>4 DEF Delta

(* The end of a run adds archived rows and keeps the other records.         *)
LEMMA CompletedCounts ==
  ASSUME TypeOK, NEW r \in RunIds, NEW status \in Terminal, NEW completion \in Completions,
         NEW counts \in CountsGiven, CompleteRun(r, status, completion, counts)
  PROVE  /\ runs'[r].added = counts.added /\ runs'[r].updated = counts.updated
         /\ \A d \in Observations : Recorded(r, {d})' = Recorded(r, {d})
<1>1. runs[r] \in RunRow /\ runs'[r] = CompletedRun(r, status, completion, counts)
  BY CompletedRunRow DEF CompleteRun, TypeOK
<1>2. runs'[r].added = counts.added /\ runs'[r].updated = counts.updated
  BY <1>1 DEF CompletedRun, RunRow
<1>3. ASSUME NEW d \in Observations, NEW v \in Vacancies
      PROVE  composition'[r][v] = d <=> composition[r][v] = d
  <2>1. d # "archived" /\ d # "none"
    BY DEF Observations
  <2> QED BY <2>1 DEF CompleteRun, CompleteAccepts, TypeOK
<1> QED BY <1>2, <1>3 DEF Recorded

LEMMA CountStaysSound ==
  ASSUME LifecycleTypeOK, RunsHaveOneHandler, RecordsAreOfTheSource,
         [LifecycleNext]_vars, NEW h \in Handlers, CountIsSound(h)
  PROVE  CountIsSound(h)'
<1>1. CASE job'[h].pc \notin Collecting
  <2>1. job'[h].pc \notin {"count", "scrape", "apply", "complete"}
    BY <1>1 DEF Collecting
  <2> QED BY <2>1 DEF CountIsSound
<1>2. CASE job'[h] = job[h] /\ composition'[job[h].run] = composition[job[h].run]
  BY <1>2 DEF CountIsSound, Recorded
<1>3. CASE /\ job'[h].pc = "count" /\ StartRun(job[h].source, job'[h].run)
           /\ job'[h].run \in RunIds
  BY <1>3 DEF StartRun, RecordsAreOfTheSource, CountIsSound
<1>4. ASSUME NEW answer, GivesUp(h, answer) PROVE CountIsSound(h)'
  BY <1>4, GivesUpEffect DEF CountIsSound
<1>5. CASE /\ job[h].pc \in Collecting /\ job'[h].pc \in Collecting
           /\ Count(h) \/ Scrape(h) \/ Apply(h) \/ Complete(h)
           /\ job'[h].run = job[h].run
  <2>1. job \in [Handlers -> Job] /\ job[h] \in Job /\ TypeOK /\ job[h].run \in RunIds
    BY <1>5 DEF LifecycleTypeOK
  <2>2. CASE Count(h)
    <3>1. ASSUME NEW plan, Becomes(h, [job[h] EXCEPT !.pc = "scrape", !.plan = plan])
          PROVE  job'[h].pc = "scrape"
      BY <2>1, <3>1 DEF Becomes, Job
    <3>2. job[h].pc = "count" /\ composition' = composition
      BY <2>2 DEF Count, At, storeVars
    <3> QED BY <1>4, <1>5, <2>2, <3>1, <3>2 DEF Count, CountIsSound
  <2>3. CASE Scrape(h)
    <3>1. ASSUME NEW cards, NEW listed, NEW errors,
                 Becomes(h, [job[h] EXCEPT !.pc = "apply", !.cards = cards,
                               !.listed = listed, !.detailErrors = errors])
          PROVE  job'[h].pc = "apply"
      BY <2>1, <3>1 DEF Becomes, Job
    <3>2. job[h].pc = "scrape" /\ composition' = composition
      BY <2>3 DEF Scrape, At, storeVars
    <3> QED BY <1>4, <1>5, <2>3, <3>1, <3>2 DEF Scrape, CountIsSound
  <2>4. CASE Apply(h)
    <3> PICK r \in RunIds, cards \in Cards : r = job[h].run /\ cards = job[h].cards
      BY <2>1 DEF Job
    <3>1. ASSUME ApplyObservedVacancies(r, cards),
                 Becomes(h, [job[h] EXCEPT !.pc = "complete",
                               !.added = Delta(r, cards, "added"),
                               !.updated = Delta(r, cards, "updated")])
          PROVE  CountIsSound(h)'
      <4>1. /\ job'[h].pc = "complete" /\ job'[h].run = r
            /\ job'[h].added = Delta(r, cards, "added")
            /\ job'[h].updated = Delta(r, cards, "updated")
        BY <2>1, <3>1 DEF Becomes, Job
      <4>2. \A v \in Vacancies : composition[r][v] = "none"
        BY <2>4 DEF Apply, At, CountIsSound
      <4>3. "added" \in Observations /\ "updated" \in Observations
        BY DEF Observations
      <4>4. /\ Delta(r, cards, "added") = Cardinality(Recorded(r, {"added"})')
            /\ Delta(r, cards, "updated") = Cardinality(Recorded(r, {"updated"})')
        BY <2>1, <3>1, <4>2, <4>3, DeltaIsRecorded
      <4> QED BY <4>1, <4>4 DEF CountIsSound, Recorded
    <3> QED BY <1>4, <2>4, <3>1 DEF Apply
  <2>5. CASE Complete(h)
    <3>1. ~Replies(h, job[h].run, "200")
      BY <1>5, ReplyEffect DEF Collecting
    <3> QED BY <1>4, <2>5, <3>1 DEF Complete
  <2> QED BY <1>5, <2>2, <2>3, <2>4, <2>5
<1> QED BY <1>1, <1>2, <1>3, <1>5, HoldsAfter

LEMMA RunStaysCounted ==
  ASSUME LifecycleTypeOK, \A h \in Handlers : CountIsSound(h), [LifecycleNext]_vars,
         NEW r \in RunIds, RunIsCounted(r)
  PROVE  RunIsCounted(r)'
<1>1. CASE runs'[r] = runs[r] /\ composition'[r] = composition[r]
  BY <1>1 DEF RunIsCounted, RunIs, Recorded
<1>2. CASE runs'[r].status \notin {"success", "partial"}
  BY <1>2 DEF RunIsCounted, RunIs
<1>3. ASSUME NEW h \in Handlers, Apply(h) \/ Complete(h) \/ Fail(h),
             job[h].pc \in Collecting, job[h].run = r
      PROVE  RunIsCounted(r)'
  <2>1. TypeOK /\ job[h] \in Job
    BY DEF LifecycleTypeOK
  <2>2. /\ FinalStatus(h) \in Terminal /\ FinalCompletion(h) \in Completions
        /\ FinalCounts(h) \in CountsGiven /\ NoCounts \in CountsGiven
        /\ "failed" \in Terminal /\ "unknown" \in Completions
    BY <2>1, ReportIsGiven DEF Terminal, Completions
  <2>3. ASSUME CompleteRun(r, FinalStatus(h), FinalCompletion(h), FinalCounts(h)), Complete(h)
        PROVE  RunIsCounted(r)'
    <3>1. /\ job[h].added = Cardinality(Recorded(r, {"added"}))
          /\ job[h].updated = Cardinality(Recorded(r, {"updated"}))
      BY <1>3, <2>3 DEF Complete, At, CountIsSound
    <3>2. "added" \in Observations /\ "updated" \in Observations
      BY DEF Observations
    <3>3. /\ runs'[r].added = job[h].added /\ runs'[r].updated = job[h].updated
          /\ Recorded(r, {"added"})' = Recorded(r, {"added"})
          /\ Recorded(r, {"updated"})' = Recorded(r, {"updated"})
      BY <2>1, <2>2, <2>3, <3>2, CompletedCounts DEF FinalCounts
    <3> QED BY <3>1, <3>3 DEF RunIsCounted
  <2>4. ASSUME CompleteRun(r, "failed", "unknown", NoCounts) PROVE RunIsCounted(r)'
    <3>1. runs'[r].status = "failed"
      BY <2>1, <2>2, <2>4, CompletedRunRow
    <3> QED BY <1>2, <3>1
  <2>5. ASSUME ApplyObservedVacancies(r, job[h].cards) PROVE RunIsCounted(r)'
    <3>1. runs' = runs /\ runs[r].status = "running"
      BY <2>5 DEF ApplyObservedVacancies, ApplyAccepts, RunIs
    <3> QED BY <1>2, <3>1
  <2>6. UNCHANGED storeVars => RunIsCounted(r)'
    BY <1>1 DEF storeVars
  <2> QED BY <1>3, <2>3, <2>4, <2>5, <2>6 DEF Apply, Complete, Fail
<1> QED BY <1>1, <1>2, <1>3, RunTouched

(* What the store promises about the records of a run holds here too.       *)
LEMMA RunsAreOnRecord ==
  LifecycleSpec => []RecordsAreOfTheSource /\ []ArchivedCountIsRecorded
<1>1. LifecycleSpec => Spec
  <2>1. [ExclusiveNext]_storeVars => [Next]_storeVars
    BY ExclusiveIsNext
  <2> QED BY <2>1, LifecycleImplementsStore, PTL DEF StoreSpec, ExclusiveSpec, Spec
<1> QED BY <1>1, RecordsHaveTheirSource, ArchivedCountIsExact

LEMMA CountsStaySound == LifecycleSpec => []CountsAreSound
<1>1. LifecycleInit => CountsAreSound
  BY DEF LifecycleInit, Init, CountsAreSound, CountIsSound, RunIsCounted, RunIs, Idle
<1>2. LifecycleTypeOK /\ RunsHaveOneHandler /\ RecordsAreOfTheSource /\ CountsAreSound
        /\ [LifecycleNext]_vars => CountsAreSound'
  BY CountStaysSound, RunStaysCounted DEF CountsAreSound
<1> QED BY <1>1, <1>2, RunsAreOnRecord, LifecycleTypeCorrect, OneHandlerPerRun, PTL
        DEF LifecycleSpec

(* The counters a run reports when it was not given up are the dispositions *)
(* it has on record, on any number of servers and whatever fails.           *)
THEOREM ReportsAreOnRecord == LifecycleSpec => []CountsMatchComposition
<1>1. ArchivedCountIsRecorded /\ CountsAreSound => CountsMatchComposition
  BY DEF CountsAreSound, RunIsCounted, CountsMatchComposition
<1> QED BY <1>1, RunsAreOnRecord, CountsStaySound, PTL

-----------------------------------------------------------------------------
(* What is left open *)

(* A handler that is about to record a failure has nothing on record, or a  *)
(* call to the database has failed: what stops a run without one stops it   *)
(* before its cards are stored, since a run that has stored them completes. *)
FailIsExplained(h) ==
  job[h].pc = "fail" =>
    \/ \A v \in Vacancies : composition[job[h].run][v] = "none"
    \/ MaxFaults - faults >= 1

(* The completion of a run that is open is never refused: what the run has  *)
(* observed is its own, so none of it is archived, and it has archived      *)
(* nothing yet.                                                             *)
LEMMA OpenRunCompletes ==
  ASSUME TypeOK, RunOwnsItsRows, ArchivedCountIsRecorded, NEW r \in RunIds,
         RunIs(r, "running"), NEW status, NEW completion
  PROVE  CompleteAccepts(r, status, completion)
<1> SUFFICES ASSUME NEW v \in Unseen(r) PROVE composition[r][v] = "none"
  BY DEF CompleteAccepts, ToArchive
<1>1. v \in Vacancies /\ vacancies[v].lastRun # r
  BY DEF Unseen
<1>2. composition[r][v] \notin Observations
  BY <1>1 DEF RunOwnsItsRows, Recorded
<1>3. composition[r][v] # "archived"
  <2> SUFFICES ASSUME composition[r][v] = "archived" PROVE FALSE
    OBVIOUS
  <2>1. v \in Recorded(r, {"archived"})
    BY <1>1 DEF Recorded
  <2>2. runs[r] # NoRow /\ runs[r].status = "running"
    BY DEF RunIs
  <2> QED BY <2>1, <2>2 DEF ArchivedCountIsRecorded, Archives
<1> QED BY <1>1, <1>2, <1>3 DEF TypeOK

(* A failing call is counted, and no failure is forgotten.                  *)
LEMMA MoreFailures ==
  ASSUME NEW m \in Nat, NEW f \in Nat, NEW g \in Nat, f <= m, g <= f
  PROVE  /\ m - f >= 1 => m - g >= 1
         /\ m - f >= 2 => m - g >= 2
         /\ g < f => m - g >= 1
         /\ g < f /\ m - f >= 1 => m - g >= 2
OBVIOUS

LEMMA FailuresGrow ==
  ASSUME LifecycleTypeOK, [LifecycleNext]_vars
  PROVE  /\ MaxFaults - faults >= 1 => MaxFaults - faults' >= 1
         /\ MaxFaults - faults >= 2 => MaxFaults - faults' >= 2
         /\ DatabaseFails => MaxFaults - faults' >= 1
         /\ DatabaseFails /\ MaxFaults - faults >= 1 => MaxFaults - faults' >= 2
<1>1. /\ MaxFaults \in Nat /\ faults \in Nat /\ faults' \in Nat
      /\ faults <= MaxFaults /\ faults' <= faults
  BY FaultsFall, LifecycleAssumption
<1>2. DatabaseFails => faults' < faults
  BY FaultsFall
<1>3. /\ MaxFaults - faults >= 1 => MaxFaults - faults' >= 1
      /\ MaxFaults - faults >= 2 => MaxFaults - faults' >= 2
      /\ faults' < faults => MaxFaults - faults' >= 1
      /\ faults' < faults /\ MaxFaults - faults >= 1 => MaxFaults - faults' >= 2
  BY <1>1, MoreFailures, Zenon
<1> QED BY <1>2, <1>3, Zenon

LEMMA FailStaysExplained ==
  ASSUME LifecycleTypeOK, RunsHaveOneHandler, LiveRunStaysOpen, RunOwnsItsRows,
         ArchivedCountIsRecorded, CountsAreSound, [LifecycleNext]_vars,
         NEW h \in Handlers, FailIsExplained(h)
  PROVE  FailIsExplained(h)'
<1> SUFFICES ASSUME job'[h].pc = "fail"
             PROVE  \/ \A v \in Vacancies : composition'[job'[h].run][v] = "none"
                    \/ MaxFaults - faults' >= 1
  BY DEF FailIsExplained
<1>1. /\ MaxFaults - faults >= 1 => MaxFaults - faults' >= 1
      /\ MaxFaults - faults >= 2 => MaxFaults - faults' >= 2
      /\ DatabaseFails => MaxFaults - faults' >= 1
      /\ DatabaseFails /\ MaxFaults - faults >= 1 => MaxFaults - faults' >= 2
  BY FailuresGrow
<1>2. job'[h].pc \in Collecting /\ "fail" # "count"
  BY DEF Collecting
<1>3. CASE job'[h] = job[h] /\ composition'[job[h].run] = composition[job[h].run]
  BY <1>1, <1>3 DEF FailIsExplained
<1>4. CASE DatabaseFails
  BY <1>1, <1>4
<1>5. CASE /\ ~DatabaseFails
           /\ Count(h) \/ Scrape(h) \/ Apply(h) \/ Complete(h)
           /\ job'[h].run = job[h].run
  <2>1. job \in [Handlers -> Job] /\ job[h] \in Job /\ TypeOK
    BY DEF LifecycleTypeOK
  <2>2. ASSUME job[h].pc \in {"count", "scrape", "apply"}, UNCHANGED storeVars
        PROVE  \A v \in Vacancies : composition'[job'[h].run][v] = "none"
    BY <1>5, <2>2 DEF CountsAreSound, CountIsSound, storeVars
  <2>3. CASE Count(h)
    BY <2>2, <2>3 DEF Count, At
  <2>4. CASE Scrape(h)
    BY <2>2, <2>4 DEF Scrape, At
  <2>5. CASE Apply(h)
    <3>1. ASSUME NEW added, NEW updated,
                 Becomes(h, [job[h] EXCEPT !.pc = "complete", !.added = added,
                               !.updated = updated])
          PROVE  FALSE
      BY <2>1, <3>1 DEF Becomes, Job
    <3> QED BY <1>5, <2>2, <2>5, <3>1 DEF Apply, At
  <2>6. CASE Complete(h)
    <3>1. job[h].pc = "complete" /\ job[h].run \in RunIds /\ RunIs(job[h].run, "running")
      BY <2>6 DEF Complete, At, LifecycleTypeOK, LiveRunStaysOpen, Working, Collecting
    <3>2. CompleteAccepts(job[h].run, FinalStatus(h), FinalCompletion(h))
      BY <2>1, <3>1, OpenRunCompletes
    <3>3. ~Replies(h, job[h].run, "200")
      BY ReplyEffect
    <3> QED BY <1>5, <2>6, <3>2, <3>3 DEF Complete
  <2> QED BY <1>5, <2>3, <2>4, <2>5, <2>6
<1> QED BY <1>2, <1>3, <1>4, <1>5, HoldsAfter

(* An open run keeps its handler: it gets one when it is opened, and loses  *)
(* it only to a crash or to a failing database.                             *)
LEMMA OrphanStep ==
  ASSUME OneServer, LifecycleTypeOK, RunsHaveOneHandler, RecordsAreOfTheSource,
         \A h \in Handlers : FailIsExplained(h), NoOrphanRun, [LifecycleNext]_vars
  PROVE  NoOrphanRun'
<1> SUFFICES ASSUME NEW r \in RunIds, runs'[r] # NoRow, runs'[r].status = "running",
                    \E sv \in Servers : up'[sv],
                    ~\E h \in Handlers : job'[h].pc \in Collecting /\ job'[h].run = r
             PROVE  \/ /\ MaxFaults - faults' >= 1
                       /\ \A v \in Vacancies : composition'[r][v] = "none"
                    \/ MaxFaults - faults' >= 2
  BY DEF NoOrphanRun, RunIs
<1>1. /\ MaxFaults - faults >= 1 => MaxFaults - faults' >= 1
      /\ MaxFaults - faults >= 2 => MaxFaults - faults' >= 2
      /\ DatabaseFails => MaxFaults - faults' >= 1
      /\ DatabaseFails /\ MaxFaults - faults >= 1 => MaxFaults - faults' >= 2
  BY FailuresGrow
<1>2. ASSUME NEW sv \in Servers, Crash(sv) PROVE FALSE
  BY <1>2 DEF OneServer, Crash, LifecycleTypeOK
<1>3. ASSUME NEW sv \in Servers, Boot(sv) PROVE FALSE
  BY <1>3, RecoveredRows DEF Boot, LifecycleTypeOK, RunIs
<1>4. up' = up
  BY <1>2, <1>3
     DEF LifecycleNext, HandlerStep, Request, Start, Count, Scrape, Apply, Complete, Fail,
         SiteChanges, OtherRequest, vars
(* The handler that held it has let it go, and failed to say so.            *)
<1>5. CASE \E h \in Handlers : job[h].pc \in Collecting /\ job[h].run = r
  <2>1. PICK h \in Handlers : job[h].pc \in Collecting /\ job[h].run = r
    BY <1>5
  <2>2. HandlerStep(h)
    BY <1>2, <2>1, ForeignStep
  <2>3. Fail(h) /\ DatabaseFails /\ composition' = composition
    BY <2>1, <2>2, LetsGoByFailing DEF storeVars
  <2>4. \/ \A v \in Vacancies : composition[r][v] = "none"
        \/ MaxFaults - faults >= 1
    BY <2>1, <2>3 DEF Fail, At, FailIsExplained
  <2> QED BY <1>1, <2>3, <2>4
(* It has been opened, and could not be read.                               *)
<1>6. ASSUME NEW h \in Handlers, Start(h), StartRun(job[h].source, r)
      PROVE  MaxFaults - faults' >= 1 /\ \A v \in Vacancies : composition'[r][v] = "none"
  <2>1. job \in [Handlers -> Job] /\ job[h] \in Job /\ job[h].source \in Sources /\ TypeOK
    BY <1>6 DEF LifecycleTypeOK, Start, At
  <2>2. ~UNCHANGED storeVars
    BY <1>6 DEF StartRun, storeVars
  <2>3. ASSUME NEW q \in RunIds, StartRun(job[h].source, q),
               Becomes(h, [job[h] EXCEPT !.pc = "count", !.run = q])
        PROVE  FALSE
    <3>1. q = r
      BY <1>6, <2>1, <2>3, OpenedRunRow
    <3> QED BY <2>1, <2>3, <3>1 DEF Becomes, Job, Collecting
  <2>4. DatabaseFails
    BY <1>6, <2>2, <2>3 DEF Start, StartExclusiveRun
  <2>5. \A v \in Vacancies : composition'[r][v] = "none"
    BY <1>6 DEF StartRun, RecordsAreOfTheSource
  <2> QED BY <1>1, <2>4, <2>5
(* It was left open before.                                                 *)
<1>7. CASE /\ runs'[r] = runs[r] /\ composition'[r] = composition[r]
           /\ ~\E h \in Handlers : job[h].pc \in Collecting /\ job[h].run = r
  <2>1. \/ MaxFaults - faults >= 1 /\ \A v \in Vacancies : composition[r][v] = "none"
        \/ MaxFaults - faults >= 2
    BY <1>4, <1>7 DEF NoOrphanRun, RunIs
  <2> QED BY <1>1, <1>7, <2>1
<1> QED BY <1>3, <1>5, <1>6, <1>7, RunTouched

(* With one server, an open run has a handler that will end it, unless the  *)
(* process is down or the database has failed: once if the run has nothing  *)
(* on record, twice otherwise.                                              *)
THEOREM OneServerLeavesNoOrphan == OneServer => (LifecycleSpec => []NoOrphanRun)
<1> SUFFICES ASSUME OneServer PROVE LifecycleSpec => []NoOrphanRun
  OBVIOUS
<1> DEFINE Explained == \A h \in Handlers : FailIsExplained(h)
<1>1. LifecycleInit => NoOrphanRun /\ Explained
  BY DEF LifecycleInit, Init, NoOrphanRun, FailIsExplained, RunIs, Idle
<1>2. LifecycleTypeOK /\ RunsHaveOneHandler /\ LiveRunStaysOpen /\ RunOwnsItsRows
        /\ ArchivedCountIsRecorded /\ CountsAreSound /\ Explained /\ [LifecycleNext]_vars
        => Explained'
  BY FailStaysExplained
<1>3. LifecycleTypeOK /\ RunsHaveOneHandler /\ RecordsAreOfTheSource /\ Explained
        /\ NoOrphanRun /\ [LifecycleNext]_vars => NoOrphanRun'
  BY OrphanStep
<1>4. LifecycleSpec => []LiveRunStaysOpen
  BY OneServerKeepsRunsOpen
<1>5. LifecycleSpec => []RunOwnsItsRows
  BY LifecycleImplementsStore, ActiveRowsStayOwned DEF StoreSpec
<1>6. LifecycleSpec => []RecordsAreOfTheSource /\ []ArchivedCountIsRecorded
  BY RunsAreOnRecord
<1>7. LifecycleSpec => []CountsAreSound
  BY CountsStaySound
<1> QED BY <1>1, <1>2, <1>3, <1>4, <1>5, <1>6, <1>7, LifecycleTypeCorrect,
           OneHandlerPerRun, PTL DEF LifecycleSpec

-----------------------------------------------------------------------------
(* Who archives *)

(* A vacancy goes from active to archived only when a handler completes its *)
(* run as a whole one.                                                      *)
LEMMA ArchivedByHandler ==
  ASSUME LifecycleTypeOK, [LifecycleNext]_vars, NEW v \in Vacancies,
         vacancies[v] # NoRow, vacancies[v].listing = "active",
         vacancies'[v].listing = "archived"
  PROVE  \E h \in Handlers, r \in RunIds :
           /\ job[h].pc = "complete" /\ job[h].run = r
           /\ CompleteRun(r, "success", "complete", FinalCounts(h))
           /\ FinalCounts(h) \in CountsGiven
           /\ WholeRun(h)
           /\ v \in Unseen(r)
<1>1. TypeOK /\ ~UNCHANGED vacancies
  BY DEF LifecycleTypeOK
<1>2. ASSUME NEW r \in RunIds, NEW cards \in Cards, ApplyObservedVacancies(r, cards)
      PROVE  FALSE
  <2>1. v \in Observed(r, cards) => vacancies'[v].listing = "active"
    BY <1>1, <1>2, AppliedRows
  <2>2. v \notin Observed(r, cards) => vacancies'[v] = vacancies[v]
    BY <1>1, <1>2, AppliedRows
  <2> QED BY <2>1, <2>2
<1>3. ASSUME NEW w \in Vacancies, NEW status \in UserStatuses,
             UpdateVacancyUserStatus(w, status)
      PROVE  FALSE
  BY <1>1, <1>3, MarkedRows
<1>4. ASSUME NEW r \in RunIds, NEW status \in Terminal, NEW completion \in Completions,
             NEW counts \in CountsGiven, CompleteRun(r, status, completion, counts)
      PROVE  Archives(status, completion) /\ v \in Unseen(r)
  <2>1. v \in ToArchive(r, status, completion)
    BY <1>1, <1>4, CompletedRows
  <2> QED BY <2>1 DEF ToArchive
<1>5. ASSUME NEW h \in Handlers, Apply(h) PROVE FALSE
  <2>1. job[h].run \in RunIds /\ job[h].cards \in Cards
    BY <1>5 DEF Apply, At, LifecycleTypeOK, Collecting, Job
  <2> QED BY <1>1, <1>2, <1>5, <2>1 DEF Apply, storeVars
<1>6. ASSUME NEW h \in Handlers, Fail(h) PROVE FALSE
  <2>1. /\ job[h].run \in RunIds /\ NoCounts \in CountsGiven
        /\ "failed" \in Terminal /\ "unknown" \in Completions
    BY <1>6, ReportIsGiven DEF Fail, At, LifecycleTypeOK, Collecting, Terminal, Completions
  <2>2. ~CompleteRun(job[h].run, "failed", "unknown", NoCounts)
    BY <1>4, <2>1 DEF Archives
  <2> QED BY <1>1, <1>6, <2>2 DEF Fail, storeVars
<1>7. PICK h \in Handlers : Complete(h)
  BY <1>1, <1>3, <1>5, <1>6
     DEF LifecycleNext, HandlerStep, Request, Start, StartExclusiveRun, StartRun, Count, Scrape,
         Crash, Boot, RecoverInterruptedRuns, SiteChanges, OtherRequest, CreateSource,
         storeVars, vars
<1>8. PICK r \in RunIds : r = job[h].run /\ job[h].pc = "complete" /\ job[h] \in Job
  BY <1>7 DEF Complete, At, LifecycleTypeOK, Collecting
<1>9. CompleteRun(r, FinalStatus(h), FinalCompletion(h), FinalCounts(h))
  BY <1>1, <1>7, <1>8 DEF Complete, storeVars
<1>10. Archives(FinalStatus(h), FinalCompletion(h)) /\ v \in Unseen(r)
  BY <1>4, <1>8, <1>9, ReportIsGiven
<1>11. FinalStatus(h) = "success" /\ FinalCompletion(h) = "complete" /\ WholeRun(h)
  BY <1>10 DEF Archives, FinalStatus, FinalCompletion
<1> QED BY <1>8, <1>9, <1>10, <1>11, ReportIsGiven

-----------------------------------------------------------------------------
(* The revisit rhythm *)

LEMMA RemainderOf ==
  ASSUME NEW n \in Nat, NEW d \in Nat \ {0}, NEW q \in Nat, NEW m \in 0..(d - 1),
         n = (d * q) + m
  PROVE  n % d = m
BY SMTT(30)

(* After the last of a round the next round begins.                         *)
LEMMA RoundCloses ==
  ASSUME NEW n \in Nat, NEW d \in Nat \ {0}, n % d = d - 1
  PROVE  (n + 1) % d = 0
<1> DEFINE q == n \div d
<1>1. n = (d * q) + (n % d) /\ q \in Nat
  BY SMTT(30)
<1> HIDE DEF q
<1>2. n + 1 = (d * (q + 1)) + 0
  BY <1>1, SMTT(30)
<1>3. n + 1 \in Nat /\ q + 1 \in Nat /\ 0 \in 0..(d - 1)
  BY <1>1
<1> QED BY <1>2, <1>3, RemainderOf

(* The runs of a source that CountTerminalNonFailedRuns counts.             *)
Finished(s) == {r \in RunIds : runs[r] # NoRow /\ runs[r].source = s
                               /\ runs[r].status \in {"success", "partial"}}

(* The plan of a run that is still open is the one that would be made now:  *)
(* the rhythm does not move on while the run holds its source.              *)
PlanIsCurrent(h) ==
  job[h].pc \in {"scrape", "apply", "complete"} /\ RunIs(job[h].run, "running") =>
    job[h].plan = Build(pagination[job[h].source], CountTerminalNonFailedRuns(job[h].source))

PlansAreCurrent == \A h \in Handlers : PlanIsCurrent(h)

(* Nobody changes what a text says of pagination.                           *)
LEMMA PaginationStays ==
  ASSUME [LifecycleNext]_vars
  PROVE  pagination' = pagination
BY DEF LifecycleNext, HandlerStep, Request, Start, Count, Scrape, Apply, Complete, Fail,
       Crash, Boot, SiteChanges, OtherRequest, vars

(* While a run stays open no run of its source is finished.                 *)
LEMMA RhythmWaits ==
  ASSUME LifecycleTypeOK, LockMatchesRun, [LifecycleNext]_vars, NEW r \in RunIds,
         RunIs(r, "running"), runs'[r] # NoRow, runs'[r].status = "running",
         NEW s, runs[r].source = s
  PROVE  Finished(s)' = Finished(s)
<1>1. TypeOK /\ [Next]_storeVars
  BY StoreStep, ExclusiveIsNext DEF LifecycleTypeOK
<1>2. ASSUME NEW q \in RunIds PROVE q \in Finished(s)' <=> q \in Finished(s)
  <2>1. CASE q = r
    BY <2>1 DEF Finished, RunIs
  <2>2. CASE runs[q] # NoRow /\ runs[q].status \in Terminal
    <3>1. runs'[q] = runs[q]
      BY <1>1, <2>2, TerminalStep
    <3> QED BY <3>1 DEF Finished
  <2>3. CASE q # r /\ RunIs(q, "running")
    <3>1. runs[q].source # s
      BY <2>3 DEF LockMatchesRun
    <3>2. runs'[q].source = runs[q].source
      BY <2>3, RowsStay DEF RunIs
    <3> QED BY <3>1, <3>2 DEF Finished
  <2>4. CASE runs[q] = NoRow
    <3>1. \A h \in Handlers : job[h].pc \in Collecting => job[h].run # q
      BY <2>4 DEF LifecycleTypeOK
    <3>2. runs'[q] = NoRow \/ runs'[q].status \notin {"success", "partial"}
      BY <2>4, <3>1, RunTouched
    <3> QED BY <2>4, <3>2 DEF Finished
  <2>5. runs[q] # NoRow => runs[q].status \in {"running"} \cup Terminal
    BY <1>1, RowShapes DEF RunRow
  <2> QED BY <2>1, <2>2, <2>3, <2>4, <2>5 DEF RunIs
<1> QED BY <1>2 DEF Finished

LEMMA PlanStaysCurrent ==
  ASSUME LifecycleTypeOK, RunsHaveOneHandler, LockMatchesRun, [LifecycleNext]_vars,
         NEW h \in Handlers, PlanIsCurrent(h)
  PROVE  PlanIsCurrent(h)'
<1> SUFFICES ASSUME job'[h].pc \in {"scrape", "apply", "complete"},
                    runs'[job'[h].run] # NoRow, runs'[job'[h].run].status = "running"
             PROVE  PlanIsCurrent(h)'
  BY DEF PlanIsCurrent, RunIs
<1>1. /\ job'[h].pc \in Collecting /\ job'[h].pc # "fail" /\ job'[h].pc # "count"
      /\ job \in [Handlers -> Job] /\ job[h] \in Job /\ pagination' = pagination
  BY PaginationStays DEF LifecycleTypeOK, Collecting
<1>2. ASSUME job[h].pc \in Collecting, job'[h].run = job[h].run, job'[h].source = job[h].source,
             RunIs(job[h].run, "running") =>
               job'[h].plan = Build(pagination[job[h].source],
                                    CountTerminalNonFailedRuns(job[h].source))
      PROVE  PlanIsCurrent(h)'
  <2>1. PICK r \in RunIds, s \in Sources :
          r = job[h].run /\ s = job[h].source /\ runs[r] # NoRow /\ runs[r].source = s
    BY <1>2 DEF LifecycleTypeOK, Collecting
  <2>2. runs[r].status \notin Terminal
    <3>1. TypeOK /\ [Next]_storeVars
      BY StoreStep, ExclusiveIsNext DEF LifecycleTypeOK
    <3>2. runs[r].status \in Terminal => runs'[r] = runs[r]
      BY <2>1, <3>1, TerminalStep
    <3> QED BY <1>2, <2>1, <3>2 DEF Terminal
  <2>3. RunIs(r, "running")
    BY <2>1, <2>2, RowShapes DEF LifecycleTypeOK, RunRow, RunIs
  <2>4. Finished(s)' = Finished(s)
    BY <1>2, <2>1, <2>3, RhythmWaits
  <2>5. CountTerminalNonFailedRuns(s)' = CountTerminalNonFailedRuns(s)
    BY <2>4 DEF CountTerminalNonFailedRuns, Finished
  <2>6. job'[h].plan = Build(pagination'[s], CountTerminalNonFailedRuns(s)')
    BY <1>1, <1>2, <2>1, <2>3, <2>5
  <2> QED BY <1>2, <2>1, <2>6 DEF PlanIsCurrent, CountTerminalNonFailedRuns
<1>3. CASE job[h].pc \in Collecting /\ job'[h] = job[h]
  BY <1>2, <1>3 DEF PlanIsCurrent
<1>4. ASSUME NEW answer, GivesUp(h, answer) PROVE FALSE
  BY <1>1, <1>4, GivesUpEffect
<1>5. CASE /\ job[h].pc \in Collecting
           /\ Count(h) \/ Scrape(h) \/ Apply(h) \/ Complete(h)
           /\ job'[h].run = job[h].run /\ job'[h].source = job[h].source
  <2>1. CASE Count(h)
    <3>1. job'[h].plan = Build(pagination[job[h].source],
                               CountTerminalNonFailedRuns(job[h].source))
      BY <1>1, <1>4, <2>1 DEF Count, Becomes, Job
    <3> QED BY <1>2, <1>5, <3>1
  <2>2. CASE Scrape(h) \/ Apply(h)
    <3>1. job'[h].plan = job[h].plan
      BY <1>1, <1>4, <2>2 DEF Scrape, Apply, Becomes, Job
    <3>2. job[h].pc \in {"scrape", "apply", "complete"}
      BY <2>2 DEF Scrape, Apply, At
    <3> QED BY <1>2, <1>5, <3>1, <3>2 DEF PlanIsCurrent
  <2>3. CASE Complete(h)
    <3>1. ~Replies(h, job[h].run, "200")
      BY <1>1, ReplyEffect DEF Collecting
    <3> QED BY <1>4, <2>3, <3>1 DEF Complete
  <2> QED BY <1>5, <2>1, <2>2, <2>3
<1> QED BY <1>1, <1>3, <1>5, HoldsAfter

(* A complete success is one more run that finished.                        *)
LEMMA OneMoreFinished ==
  ASSUME LifecycleTypeOK, IsFiniteSet({r \in RunIds : runs[r] # NoRow}),
         NEW r \in RunIds, NEW counts \in CountsGiven,
         CompleteRun(r, "success", "complete", counts), NEW s, s = runs[r].source
  PROVE  /\ CountTerminalNonFailedRuns(s) \in Nat
         /\ CountTerminalNonFailedRuns(s)' = CountTerminalNonFailedRuns(s) + 1
<1>1. TypeOK /\ "success" \in Terminal /\ "complete" \in Completions
  BY DEF LifecycleTypeOK, Terminal, Completions
<1>2. /\ runs[r].status = "running" /\ runs'[r] # NoRow
      /\ runs'[r].source = s /\ runs'[r].status = "success"
      /\ \A q \in RunIds \ {r} : runs'[q] = runs[q]
  BY <1>1, CompletedRunRow
<1>3. r \notin Finished(s) /\ Finished(s)' = Finished(s) \cup {r}
  BY <1>2 DEF Finished
<1>4. IsFiniteSet(Finished(s))
  <2>1. Finished(s) \subseteq {q \in RunIds : runs[q] # NoRow}
    BY DEF Finished
  <2> QED BY <2>1, FS_Subset
<1>5. Cardinality(Finished(s)) \in Nat
  BY <1>4, FS_CardinalityType
<1>6. Cardinality(Finished(s) \cup {r}) = Cardinality(Finished(s)) + 1
  BY <1>3, <1>4, FS_AddElement
<1>7. CountTerminalNonFailedRuns(s)' = Cardinality(Finished(s)')
  BY DEF CountTerminalNonFailedRuns, Finished
<1>8. CountTerminalNonFailedRuns(s) = Cardinality(Finished(s))
  BY DEF CountTerminalNonFailedRuns, Finished
<1> QED BY <1>3, <1>5, <1>6, <1>7, <1>8

(* A source with pagination archives only with every DefaultFullEvery-th    *)
(* run that finishes, on any number of servers: what was counted before the *)
(* scrape still holds when the run completes.                               *)
THEOREM ArchivalKeepsRhythm == LifecycleSpec => ArchivesInRhythm
<1> DEFINE Exist == {r \in RunIds : runs[r] # NoRow}
           Rhythm == \A v \in Vacancies :
             /\ pagination[v[1]] # NoPagination
             /\ vacancies[v] # NoRow
             /\ vacancies[v].listing = "active"
             /\ vacancies'[v].listing = "archived"
             => Cardinality({r \in RunIds : /\ runs'[r] # NoRow
                                            /\ runs'[r].source = v[1]
                                            /\ runs'[r].status \in {"success", "partial"}})
                  % DefaultFullEvery = 0
<1>1. LifecycleInit => IsFiniteSet(Exist) /\ PlansAreCurrent
  <2>1. LifecycleInit => Exist = {}
    BY DEF LifecycleInit, Init
  <2>2. LifecycleInit => PlansAreCurrent
    BY DEF LifecycleInit, PlansAreCurrent, PlanIsCurrent, Idle
  <2> QED BY <2>1, <2>2, FS_EmptySet
<1>2. LifecycleTypeOK /\ IsFiniteSet(Exist) /\ [LifecycleNext]_vars => IsFiniteSet(Exist)'
  BY StoreStep, ExclusiveIsNext, OpenedRunsAreFinite DEF LifecycleTypeOK
<1>3. LifecycleTypeOK /\ RunsHaveOneHandler /\ LockMatchesRun /\ PlansAreCurrent
        /\ [LifecycleNext]_vars => PlansAreCurrent'
  BY PlanStaysCurrent DEF PlansAreCurrent
<1>4. LifecycleTypeOK /\ IsFiniteSet(Exist) /\ PlansAreCurrent /\ [LifecycleNext]_vars
        => [Rhythm]_vars
  <2> SUFFICES ASSUME LifecycleTypeOK, IsFiniteSet(Exist), PlansAreCurrent, [LifecycleNext]_vars,
                      NEW v \in Vacancies, pagination[v[1]] # NoPagination,
                      vacancies[v] # NoRow, vacancies[v].listing = "active",
                      vacancies'[v].listing = "archived"
               PROVE  Cardinality({r \in RunIds : /\ runs'[r] # NoRow
                                                  /\ runs'[r].source = v[1]
                                                  /\ runs'[r].status \in {"success", "partial"}})
                        % DefaultFullEvery = 0
    OBVIOUS
  <2>1. PICK h \in Handlers, r \in RunIds :
           /\ job[h].pc = "complete" /\ job[h].run = r
           /\ CompleteRun(r, "success", "complete", FinalCounts(h))
           /\ FinalCounts(h) \in CountsGiven
           /\ WholeRun(h)
           /\ v \in Unseen(r)
    BY ArchivedByHandler
  <2>2. PICK s : s = v[1]
    OBVIOUS
  <2>3. runs[r].source = s /\ job[h].source = s
    BY <2>1, <2>2 DEF Unseen, LifecycleTypeOK, Collecting
  <2> DEFINE n == CountTerminalNonFailedRuns(s)
  <2>4. job[h].plan = Build(pagination[s], n)
    BY <2>1, <2>3 DEF PlansAreCurrent, PlanIsCurrent, CompleteRun, CompleteAccepts
  <2>5. n % DefaultFullEvery = DefaultFullEvery - 1
    BY <2>1, <2>2, <2>4 DEF WholeRun, Build, IsFullPass
  <2>6. n \in Nat /\ CountTerminalNonFailedRuns(s)' = n + 1
    BY <2>1, <2>3, OneMoreFinished
  <2> HIDE DEF n
  <2>7. (n + 1) % DefaultFullEvery = 0
    BY <2>5, <2>6, RevisitAssumption, RoundCloses
  <2> QED BY <2>2, <2>6, <2>7 DEF CountTerminalNonFailedRuns
<1>5. LifecycleSpec => []LockMatchesRun
  BY LifecycleImplementsStore, LockIsExact DEF StoreSpec
<1> QED BY <1>1, <1>2, <1>3, <1>4, <1>5, LifecycleTypeCorrect, OneHandlerPerRun, PTL
        DEF LifecycleSpec, ArchivesInRhythm

-----------------------------------------------------------------------------
(* The site and the archive *)

(* Every key of a listing has a first card, so its vacancy is observed.     *)
LEMMA ListedIsObserved ==
  ASSUME NEW r \in RunIds, NEW cards \in Cards, NEW k \in KeysOf(cards)
  PROVE  <<runs[r].source, k>> \in Observed(r, cards)
BY FirstCardOfKey DEF KeysOf, Observed

(* Without a search phrase and without pagination a run scrapes what the    *)
(* site lists, and by its end has all of it on record.                      *)
ListedIsOnRecord(h) ==
  job[h].pc # "idle" =>
    /\ ~job[h].narrowed
    /\ pagination[job[h].source] = NoPagination =>
         /\ job[h].pc = "apply" => job[h].listed = KeysOf(job[h].cards)
         /\ job[h].pc = "complete" =>
              \A k \in job[h].listed :
                composition[job[h].run][<<job[h].source, k>>] \in Observations

(* A handler's own step.                                                    *)
LEMMA ListedByOwnStep ==
  ASSUME Narrowings \subseteq {FALSE}, LifecycleTypeOK, [LifecycleNext]_vars,
         NEW h \in Handlers, ListedIsOnRecord(h),
         HandlerStep(h) \/ \E s \in Sources, narrowed \in Narrowings : Request(h, s, narrowed)
  PROVE  ListedIsOnRecord(h)'
<1>1. job \in [Handlers -> Job] /\ job[h] \in Job /\ pagination' = pagination /\ TypeOK
  BY PaginationStays DEF LifecycleTypeOK
<1>2. ASSUME NEW r, NEW answer, Replies(h, r, answer) PROVE ListedIsOnRecord(h)'
  BY <1>2, ReplyEffect DEF ListedIsOnRecord
<1>3. ASSUME NEW answer, GivesUp(h, answer), job[h].pc # "idle" PROVE ListedIsOnRecord(h)'
  <2>1. job'[h].pc = "fail" /\ job'[h].narrowed = job[h].narrowed
    BY <1>1, <1>3 DEF GivesUp, Becomes, Job
  <2> QED BY <1>3, <2>1 DEF ListedIsOnRecord
<1>4. ASSUME job[h].pc # "idle", job'[h].narrowed = job[h].narrowed,
             job'[h].pc \notin {"apply", "complete"}
      PROVE  ListedIsOnRecord(h)'
  BY <1>4 DEF ListedIsOnRecord
<1>5. CASE \E s \in Sources, narrowed \in Narrowings : Request(h, s, narrowed)
  <2>1. PICK s \in Sources, narrowed \in Narrowings : Request(h, s, narrowed)
    BY <1>5
  <2>2. ASSUME Becomes(h, [Idle EXCEPT !.pc = "start", !.source = s, !.narrowed = narrowed])
        PROVE  ListedIsOnRecord(h)'
    <3>1. job'[h].pc = "start" /\ job'[h].narrowed = narrowed /\ ~narrowed
      BY <1>1, <2>2 DEF Becomes, Idle
    <3> QED BY <3>1 DEF ListedIsOnRecord
  <2> QED BY <1>2, <2>1, <2>2 DEF Request
<1>6. CASE Start(h)
  <2>1. ASSUME NEW r \in RunIds, Becomes(h, [job[h] EXCEPT !.pc = "count", !.run = r])
        PROVE  job'[h].pc = "count" /\ job'[h].narrowed = job[h].narrowed
    BY <1>1, <2>1 DEF Becomes, Job
  <2>2. job[h].pc # "idle"
    BY <1>6 DEF Start, At
  <2> QED BY <1>2, <1>4, <1>6, <2>1, <2>2 DEF Start
<1>7. CASE Count(h)
  <2>1. ASSUME NEW plan, Becomes(h, [job[h] EXCEPT !.pc = "scrape", !.plan = plan])
        PROVE  job'[h].pc = "scrape" /\ job'[h].narrowed = job[h].narrowed
    BY <1>1, <2>1 DEF Becomes, Job
  <2>2. job[h].pc # "idle"
    BY <1>7 DEF Count, At
  <2> QED BY <1>3, <1>4, <1>7, <2>1, <2>2 DEF Count
<1>8. CASE Scrape(h)
  <2>1. job[h].pc = "scrape" /\ ~job[h].narrowed
    BY <1>8 DEF Scrape, At, ListedIsOnRecord
  <2>2. ASSUME NEW shown \in Shown(job[h].source, job[h].narrowed), NEW errors \in BOOLEAN,
               NEW cards \in Loaded(job[h].source, job[h].plan, shown),
               Becomes(h, [job[h] EXCEPT !.pc = "apply", !.cards = cards,
                             !.listed = KeysOf(site[job[h].source]), !.detailErrors = errors])
        PROVE  ListedIsOnRecord(h)'
    <3>1. /\ job'[h].pc = "apply" /\ job'[h].narrowed = job[h].narrowed
          /\ job'[h].source = job[h].source /\ job'[h].cards = cards
          /\ job'[h].listed = KeysOf(site[job[h].source])
      BY <1>1, <2>2 DEF Becomes, Job
    <3>2. pagination[job[h].source] = NoPagination => cards = site[job[h].source]
      BY <2>1 DEF Shown, Loaded
    <3> QED BY <1>1, <2>1, <3>1, <3>2 DEF ListedIsOnRecord, KeysOf
  <2> QED BY <1>3, <1>8, <2>1, <2>2 DEF Scrape
<1>9. CASE Apply(h)
  <2>1. PICK r \in RunIds, s \in Sources, cards \in Cards :
          /\ r = job[h].run /\ s = job[h].source /\ cards = job[h].cards
          /\ runs[r] # NoRow /\ runs[r].source = s
    BY <1>1, <1>9 DEF Apply, At, LifecycleTypeOK, Collecting, Job
  <2>2. job[h].pc = "apply" /\ ~job[h].narrowed
    BY <1>9 DEF Apply, At, ListedIsOnRecord
  <2>3. ASSUME ApplyObservedVacancies(r, cards), NEW added, NEW updated,
               Becomes(h, [job[h] EXCEPT !.pc = "complete", !.added = added,
                             !.updated = updated])
        PROVE  ListedIsOnRecord(h)'
    <3>1. /\ job'[h].pc = "complete" /\ job'[h].narrowed = job[h].narrowed
          /\ job'[h].source = s /\ job'[h].run = r /\ job'[h].listed = job[h].listed
      BY <1>1, <2>1, <2>3 DEF Becomes, Job
    <3>2. ASSUME pagination[s] = NoPagination, NEW k \in job[h].listed
          PROVE  composition'[r][<<s, k>>] \in Observations
      <4>1. k \in KeysOf(cards) /\ k \in Keys
        BY <2>1, <2>2, <3>2 DEF ListedIsOnRecord, KeysOf
      <4>2. <<s, k>> \in Observed(r, cards) /\ <<s, k>> \in Vacancies
        BY <2>1, <4>1, ListedIsObserved DEF Vacancies
      <4> QED BY <1>1, <2>3, <4>2, AppliedRows
    <3> QED BY <1>1, <2>2, <3>1, <3>2 DEF ListedIsOnRecord
  <2> QED BY <1>3, <1>9, <2>1, <2>2, <2>3 DEF Apply
<1>10. CASE Complete(h)
  <2>1. job[h].pc # "idle"
    BY <1>10 DEF Complete, At
  <2> QED BY <1>2, <1>3, <1>10, <2>1 DEF Complete
<1>11. CASE Fail(h)
  BY <1>2, <1>11 DEF Fail
<1> QED BY <1>5, <1>6, <1>7, <1>8, <1>9, <1>10, <1>11 DEF HandlerStep

LEMMA ListedStep ==
  ASSUME Narrowings \subseteq {FALSE}, LifecycleTypeOK, RunsHaveOneHandler,
         [LifecycleNext]_vars, NEW h \in Handlers, ListedIsOnRecord(h)
  PROVE  ListedIsOnRecord(h)'
<1> DEFINE Acts(g) == \/ HandlerStep(g)
                      \/ \E s \in Sources, narrowed \in Narrowings : Request(g, s, narrowed)
<1>1. CASE Acts(h)
  BY <1>1, ListedByOwnStep
<1>2. CASE job'[h] = Idle
  BY <1>2 DEF ListedIsOnRecord, Idle
<1>3. CASE ~Acts(h) /\ job'[h] # Idle
  <2>1. job'[h] = job[h]
    <3>1. ASSUME NEW g \in Handlers, g # h, Acts(g) PROVE job'[h] = job[h]
      BY <3>1, OwnStep
    <3>2. ASSUME NEW sv \in Servers, Crash(sv) PROVE job'[h] = job[h]
      BY <1>3, <3>2 DEF Crash
    <3> QED BY <1>3, <3>1, <3>2 DEF LifecycleNext, Boot, SiteChanges, OtherRequest, vars
  <2>2. job[h].pc = "complete" => composition'[job[h].run] = composition[job[h].run]
    BY <1>3, ForeignStep DEF Collecting
  <2>3. pagination' = pagination
    BY PaginationStays
  <2> QED BY <2>1, <2>2, <2>3 DEF ListedIsOnRecord
<1> QED BY <1>1, <1>2, <1>3

(* Without search phrases, a vacancy of a source without pagination is      *)
(* archived only when the site no longer listed it when the run looked: on  *)
(* any number of servers, whatever the site and the database do meanwhile.  *)
THEOREM ArchivalMeansDelisted ==
  Narrowings \subseteq {FALSE} => (LifecycleSpec => ArchivesOnlyDelisted)
<1> SUFFICES ASSUME Narrowings \subseteq {FALSE} PROVE LifecycleSpec => ArchivesOnlyDelisted
  OBVIOUS
<1> DEFINE Sound == \A h \in Handlers : ListedIsOnRecord(h)
           Delisted == \A v \in Vacancies :
             /\ pagination[v[1]] = NoPagination
             /\ vacancies[v] # NoRow
             /\ vacancies[v].listing = "active"
             /\ vacancies'[v].listing = "archived"
             => \E h \in Handlers : /\ job[h].pc = "complete"
                                    /\ job[h].source = v[1]
                                    /\ v[2] \notin job[h].listed
<1>1. LifecycleInit => Sound
  BY DEF LifecycleInit, ListedIsOnRecord, Idle
<1>2. LifecycleTypeOK /\ RunsHaveOneHandler /\ Sound /\ [LifecycleNext]_vars => Sound'
  BY ListedStep
<1>3. LifecycleTypeOK /\ RunOwnsItsRows /\ Sound /\ [LifecycleNext]_vars => [Delisted]_vars
  <2> SUFFICES ASSUME LifecycleTypeOK, RunOwnsItsRows, Sound, [LifecycleNext]_vars,
                      NEW v \in Vacancies, pagination[v[1]] = NoPagination,
                      vacancies[v] # NoRow, vacancies[v].listing = "active",
                      vacancies'[v].listing = "archived"
               PROVE  \E h \in Handlers : /\ job[h].pc = "complete"
                                          /\ job[h].source = v[1]
                                          /\ v[2] \notin job[h].listed
    OBVIOUS
  <2>1. PICK h \in Handlers, r \in RunIds :
           /\ job[h].pc = "complete" /\ job[h].run = r
           /\ CompleteRun(r, "success", "complete", FinalCounts(h))
           /\ FinalCounts(h) \in CountsGiven
           /\ WholeRun(h)
           /\ v \in Unseen(r)
    BY ArchivedByHandler
  <2>2. job[h].source = v[1]
    BY <2>1 DEF Unseen, LifecycleTypeOK, Collecting
  <2>3. ASSUME v[2] \in job[h].listed PROVE FALSE
    <3>1. v = <<v[1], v[2]>>
      BY DEF Vacancies
    <3>2. composition[r][v] \in Observations
      BY <2>1, <2>2, <2>3, <3>1 DEF ListedIsOnRecord
    <3>3. vacancies[v].lastRun = r
      BY <2>1, <3>2 DEF RunOwnsItsRows, Recorded, CompleteRun, CompleteAccepts
    <3> QED BY <2>1, <3>3 DEF Unseen
  <2> QED BY <2>1, <2>2, <2>3
<1>4. LifecycleSpec => []RunOwnsItsRows
  BY LifecycleImplementsStore, ActiveRowsStayOwned DEF StoreSpec
<1> QED BY <1>1, <1>2, <1>3, <1>4, LifecycleTypeCorrect, OneHandlerPerRun, PTL
        DEF LifecycleSpec, ArchivesOnlyDelisted
=============================================================================
