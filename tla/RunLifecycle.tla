---------------------------- MODULE RunLifecycle ----------------------------
(***************************************************************************)
(* The manual run, end to end: executeSourceRunWithQuery of                *)
(* internal/httpapi with runlog.Finish and runlog.Fail, as handler         *)
(* goroutines of one or more vacancy-server processes that share the       *)
(* database of VacancyStore.                                               *)
(*                                                                         *)
(* A handler touches the database in separate transactions and scrapes in  *)
(* between, so each of those is a step and everything else may happen      *)
(* between two of them: other handlers, the user, a change of the site, a  *)
(* crash of the process, a restart.  A database call may fail, up to       *)
(* MaxFaults times in a behaviour; "unread" is a call whose transaction    *)
(* committed and whose closing read of the row failed.                     *)
(***************************************************************************)
EXTENDS VacancyStore, RevisitPlan

CONSTANTS
  Servers,     \* vacancy-server processes on the same database file
  Handlers,    \* request goroutines
  ServerOf,    \* the process a handler runs in
  Paginations, \* what the sources may say: max_iterations, or NoPagination
  Listings,    \* the listings a site may show: sequences of cards
  Matching,    \* the vacancies a search phrase finds
  Narrowings,  \* may a manual run carry a search phrase? a set of BOOLEANs
  MaxFaults    \* bound on failing database calls

ASSUME LifecycleAssumption ==
  /\ ServerOf \in [Handlers -> Servers]
  /\ Paginations \subseteq [Sources -> Nat \cup {NoPagination}]
  /\ Listings \subseteq Cards /\ <<>> \in Listings
  /\ Matching \subseteq Keys
  /\ Narrowings \subseteq BOOLEAN
  /\ MaxFaults \in Nat
  /\ 0..MaxCards \subseteq Counts

VARIABLES
  site,    \* the listing each source's site shows now
  up,      \* is the process running?
  pagination,  \* max_iterations in the text of each source, or NoPagination
  job,     \* what each handler is doing
  faults   \* database failures still to come

vars == <<storeVars, site, up, pagination, job, faults>>

Pcs == {"idle", "start", "count", "scrape", "apply", "complete", "fail"}
Answers == {"none", "200", "404", "409", "422", "500", "502", "504"}

(* The pc values at which the handler holds an open run.                    *)
Collecting == {"count", "scrape", "apply", "complete", "fail"}

(* ... and has not given it up.                                             *)
Working == Collecting \ {"fail"}

NoPlan == [maxIterations |-> 0, completion |-> "complete"]

Job == [pc : Pcs, source : Sources \cup {NoRow}, narrowed : BOOLEAN,
        run : RunIds \cup {NoRow}, plan : Plan, cards : Cards,
        listed : SUBSET Keys, detailErrors : BOOLEAN,
        added : Counts, updated : Counts, answer : Answers]

Idle == [pc |-> "idle", source |-> NoRow, narrowed |-> FALSE, run |-> NoRow,
         plan |-> NoPlan, cards |-> <<>>, listed |-> {}, detailErrors |-> FALSE,
         added |-> 0, updated |-> 0, answer |-> "none"]

At(h, pc) == up[ServerOf[h]] /\ job[h].pc = pc

Becomes(h, row) == job' = [job EXCEPT ![h] = row]

(* The handler has answered; only the answer and its run are remembered.    *)
Replies(h, r, answer) == Becomes(h, [Idle EXCEPT !.run = r, !.answer = answer])

(* Mutants: an error is answered and the run is left as it is; an error is  *)
(* followed by another attempt.                                             *)
GivesUpSilently(h, answer) == Replies(h, job[h].run, answer)

GivesUpNever(h, answer) == Becomes(h, [job[h] EXCEPT !.pc = "count"])

(* The handler gives up the run, with the answer it will send.              *)
GivesUp(h, answer) == Becomes(h, [job[h] EXCEPT !.pc = "fail", !.answer = answer])

DatabaseFails == faults > 0 /\ faults' = faults - 1
DatabaseWorks == UNCHANGED faults

-----------------------------------------------------------------------------
(* Request to start *)

(* Bound: a request arrives only while there is a run id left for it.       *)
IdLeft == Cardinality({h \in Handlers : job[h].pc = "start"})
            < Cardinality({r \in RunIds : runs[r] = NoRow})

(* GetSource: any error of the read is answered 404.  A text that an older  *)
(* release stored may be one that config.Parse refuses now; what a text     *)
(* says is left out here, so any may be (see Collection).                   *)
Request(h, s, narrowed) ==
  /\ At(h, "idle")
  /\ IdLeft
  /\ \/ /\ sources[s] # NoRow
        /\ Becomes(h, [Idle EXCEPT !.pc = "start", !.source = s, !.narrowed = narrowed])
        /\ DatabaseWorks
     \/ /\ sources[s] # NoRow
        /\ Replies(h, NoRow, "422")
        /\ DatabaseWorks
     \/ /\ sources[s] = NoRow
        /\ Replies(h, NoRow, "404")
        /\ DatabaseWorks
     \/ /\ DatabaseFails
        /\ Replies(h, NoRow, "404")
  /\ UNCHANGED <<storeVars, site, up, pagination>>

Start(h) ==
  /\ At(h, "start")
  /\ \/ \E r \in RunIds :
          /\ StartExclusiveRun(job[h].source, r)
          /\ \/ /\ Becomes(h, [job[h] EXCEPT !.pc = "count", !.run = r])
                /\ DatabaseWorks
             \/ /\ DatabaseFails                            \* unread
                /\ Replies(h, NoRow, "500")
     \/ /\ ~MayStart(job[h].source)
        /\ Replies(h, NoRow, "409")
        /\ DatabaseWorks
        /\ UNCHANGED storeVars
     \/ /\ DatabaseFails
        /\ Replies(h, NoRow, "500")
        /\ UNCHANGED storeVars
  /\ UNCHANGED <<site, up, pagination>>

Count(h) ==
  /\ At(h, "count")
  /\ \/ /\ Becomes(h, [job[h] EXCEPT !.pc = "scrape",
             !.plan = Build(pagination[job[h].source],
                            CountTerminalNonFailedRuns(job[h].source))])
        /\ DatabaseWorks
     \/ /\ DatabaseFails
        /\ GivesUp(h, "500")
  /\ UNCHANGED <<storeVars, site, up, pagination>>

-----------------------------------------------------------------------------
(* The scrape (external site and browser) *)

KeysOf(cards) == {cards[i].key : i \in DOMAIN cards} \cap Keys

Prefix(cards, n) == [i \in 1..Least(Len(cards), n) |-> cards[i]]

(* What the page lists: the whole listing, or for a search phrase the       *)
(* matching cards, in whatever order the site's search gives them.          *)
Shown(s, narrowed) ==
  IF narrowed
  THEN {found \in Cards : {found[i] : i \in DOMAIN found}
          = {c \in {site[s][i] : i \in DOMAIN site[s]} : c.key \in Matching}}
  ELSE {site[s]}

(* What has been loaded when the cards are parsed.  A source without        *)
(* pagination is rendered whole; otherwise the first page shows one card,   *)
(* each pagination reveals at most one more, and the loop may stop early.   *)
Loaded(s, plan, cards) ==
  IF pagination[s] = NoPagination THEN {cards}
  ELSE {Prefix(cards, n) : n \in 1..(1 + plan.maxIterations)}

(* A detail page that fails, the run's deadline included, is only noted.    *)
Scrape(h) ==
  /\ At(h, "scrape")
  /\ \/ \E shown \in Shown(job[h].source, job[h].narrowed), detailErrors \in BOOLEAN :
          \E cards \in Loaded(job[h].source, job[h].plan, shown) :
            Becomes(h, [job[h] EXCEPT !.pc = "apply", !.cards = cards,
              !.listed = KeysOf(site[job[h].source]),
              !.detailErrors = detailErrors])
     \/ GivesUp(h, "502")
     \/ GivesUp(h, "504")
  /\ UNCHANGED <<storeVars, site, up, pagination, faults>>

-----------------------------------------------------------------------------
(* runlog.Finish and runlog.Fail *)

Apply(h) ==
  /\ At(h, "apply")
  /\ LET r == job[h].run  cards == job[h].cards
     IN \/ /\ ApplyObservedVacancies(r, cards)
           /\ Becomes(h, [job[h] EXCEPT !.pc = "complete",
                !.added = Delta(r, cards, "added"),
                !.updated = Delta(r, cards, "updated")])
           /\ DatabaseWorks
        \/ /\ ~ApplyAccepts(r, cards)
           /\ GivesUp(h, "500")
           /\ DatabaseWorks
           /\ UNCHANGED storeVars
        \/ /\ DatabaseFails
           /\ GivesUp(h, "500")
           /\ UNCHANGED storeVars
  /\ UNCHANGED <<site, up, pagination>>

WholeRun(h) == job[h].plan.completion = "complete" /\ ~job[h].detailErrors

FinalStatus(h) == IF WholeRun(h) THEN "success" ELSE "partial"
FinalCompletion(h) == IF WholeRun(h) THEN "complete" ELSE "incomplete"

FinalCounts(h) == [added |-> job[h].added, updated |-> job[h].updated,
                   seen |-> Len(job[h].cards)]

Complete(h) ==
  /\ At(h, "complete")
  /\ LET r == job[h].run
     IN \/ /\ CompleteRun(r, FinalStatus(h), FinalCompletion(h), FinalCounts(h))
           /\ \/ /\ Replies(h, r, "200")
                 /\ DatabaseWorks
              \/ /\ DatabaseFails                           \* unread
                 /\ GivesUp(h, "500")
        \/ /\ ~CompleteAccepts(r, FinalStatus(h), FinalCompletion(h))
           /\ GivesUp(h, "500")
           /\ DatabaseWorks
           /\ UNCHANGED storeVars
        \/ /\ DatabaseFails
           /\ GivesUp(h, "500")
           /\ UNCHANGED storeVars
  /\ UNCHANGED <<site, up, pagination>>

NoCounts == [added |-> 0, updated |-> 0, seen |-> 0]

(* The answer is the cause, whether or not the failure could be recorded.   *)
Fail(h) ==
  /\ At(h, "fail")
  /\ Replies(h, job[h].run, job[h].answer)
  /\ LET r == job[h].run
     IN \/ /\ CompleteRun(r, "failed", "unknown", NoCounts)
           /\ DatabaseWorks \/ DatabaseFails                \* unread
        \/ /\ ~CompleteAccepts(r, "failed", "unknown")
           /\ DatabaseWorks
           /\ UNCHANGED storeVars
        \/ /\ DatabaseFails
           /\ UNCHANGED storeVars
  /\ UNCHANGED <<site, up, pagination>>

HandlerStep(h) == Start(h) \/ Count(h) \/ Scrape(h) \/ Apply(h) \/ Complete(h) \/ Fail(h)

-----------------------------------------------------------------------------
(* The process and everything around the handlers *)

Crash(sv) ==
  /\ up[sv]
  /\ up' = [up EXCEPT ![sv] = FALSE]
  /\ job' = [h \in Handlers |-> IF ServerOf[h] = sv THEN Idle ELSE job[h]]
  /\ UNCHANGED <<storeVars, site, pagination, faults>>

(* Mutants: recovery whenever a process opens the database; recovery that   *)
(* sets the sources free and leaves the runs open.                          *)
BootAnyTime(sv) ==
  /\ RecoverInterruptedRuns
  /\ up' = [up EXCEPT ![sv] = TRUE]
  /\ UNCHANGED <<site, pagination, job, faults>>

BootSourcesOnly(sv) ==
  /\ ~up[sv]
  /\ sources' = [s \in Sources |-> IF s \in Interrupted THEN "failed" ELSE sources[s]]
  /\ up' = [up EXCEPT ![sv] = TRUE]
  /\ UNCHANGED <<runs, vacancies, composition, history, site, pagination, job, faults>>

(* main: open the database, recover, and only then listen.                  *)
Boot(sv) ==
  /\ ~up[sv]
  /\ RecoverInterruptedRuns
  /\ up' = [up EXCEPT ![sv] = TRUE]
  /\ UNCHANGED <<site, pagination, job, faults>>

SiteChanges(s, listing) ==
  /\ site' = [site EXCEPT ![s] = listing]
  /\ UNCHANGED <<storeVars, up, pagination, job, faults>>

(* The other requests that write: a new source, a mark on a vacancy.        *)
OtherRequest ==
  /\ \E sv \in Servers : up[sv]
  /\ \/ \E s \in Sources : CreateSource(s)
     \/ \E v \in Vacancies, status \in UserStatuses : UpdateVacancyUserStatus(v, status)
  /\ UNCHANGED <<site, up, pagination, job, faults>>

LifecycleInit ==
  /\ Init
  /\ site = [s \in Sources |-> <<>>]
  /\ up = [sv \in Servers |-> FALSE]
  /\ pagination \in Paginations
  /\ job = [h \in Handlers |-> Idle]
  /\ faults = MaxFaults

LifecycleNext ==
  \/ \E h \in Handlers, s \in Sources, narrowed \in Narrowings : Request(h, s, narrowed)
  \/ \E h \in Handlers : HandlerStep(h)
  \/ \E sv \in Servers : Crash(sv) \/ Boot(sv)
  \/ \E s \in Sources, listing \in Listings : SiteChanges(s, listing)
  \/ OtherRequest

LifecycleSpec == LifecycleInit /\ [][LifecycleNext]_vars

(* A goroutine that can go on does, since every call it makes is bounded    *)
(* (the scrape by the run timeout), and a stopped server is started again.  *)
Fairness == /\ \A h \in Handlers : WF_vars(HandlerStep(h))
            /\ \A sv \in Servers : WF_vars(Boot(sv))

FairLifecycleSpec == LifecycleSpec /\ Fairness

-----------------------------------------------------------------------------
(* A job's fields have the values its pc needs: a handler that has started  *)
(* knows its source, one that is collecting knows its run.                  *)
LifecycleTypeOK ==
  /\ TypeOK
  /\ site \in [Sources -> Listings]
  /\ up \in [Servers -> BOOLEAN]
  /\ pagination \in Paginations
  /\ faults \in 0..MaxFaults
  /\ job \in [Handlers -> Job]
  /\ \A h \in Handlers :
       /\ job[h].pc # "idle" => up[ServerOf[h]] /\ job[h].source \in Sources
       /\ job[h].pc \in Collecting =>
            /\ job[h].run \in RunIds
            /\ runs[job[h].run] # NoRow
            /\ runs[job[h].run].source = job[h].source

(* The handlers use the store only as ExclusiveSpec allows, whatever they   *)
(* are doing when a process crashes or a database call fails: with the      *)
(* theorems about VacancyStore, no interleaving of handlers breaks the lock.*)
StoreSpec == ExclusiveSpec

(* Exclusion reaches past the database: two handlers never collect the same *)
(* source at the same time, so a site never sees two browsers and no        *)
(* observation is applied to a run another handler owns.                    *)
OneCollectorPerSource ==
  \A h, g \in Handlers :
    job[h].pc \in Working /\ job[g].pc \in Working /\ job[h].source = job[g].source
      => h = g

(* While a handler is at work its run is open: recovery gives up only runs  *)
(* that no live process owns (the reason RecoverInterruptedRuns is kept out *)
(* of storage.Open).                                                        *)
LiveRunStaysOpen ==
  \A h \in Handlers :
    job[h].pc \in Working => RunIs(job[h].run, "running")

(* A run that is open belongs to a handler that will end it, unless the     *)
(* process is down: whatever the site shows or refuses, no source is left   *)
(* "marked running after a failure" (executeSourceRun).  A failing call to  *)
(* the database may leave a run open that has nothing on record (it was     *)
(* started and could not be read, or its failure could not be stored); for  *)
(* one that has, it takes two: one that stops the run, one that should have *)
(* recorded it.                                                             *)
NoOrphanRun ==
  \A r \in RunIds :
    RunIs(r, "running") =>
      \/ \E h \in Handlers : job[h].pc \in Collecting /\ job[h].run = r
      \/ \A sv \in Servers : ~up[sv]
      \/ MaxFaults - faults >= 1 /\ \A v \in Vacancies : composition[r][v] = "none"
      \/ MaxFaults - faults >= 2

(* The counters of a run that was not given up are the dispositions it has  *)
(* on record, although they are counted in one transaction and stored in    *)
(* another one; what it archived is counted by the store itself.            *)
CountsMatchComposition ==
  /\ ArchivedCountIsRecorded
  /\ \A r \in RunIds :
       RunIs(r, "success") \/ RunIs(r, "partial") =>
         /\ runs[r].added = Cardinality(Recorded(r, {"added"}))
         /\ runs[r].updated = Cardinality(Recorded(r, {"updated"}))

(* A success is answered only for a run that ended well and a failure, of   *)
(* the site (502) or of time (504), only for one recorded as failed, though *)
(* recording and answering are different steps.                             *)
AnswerTellsOutcome ==
  \A h \in Handlers :
    job[h].pc = "idle" /\ job[h].run # NoRow =>
      /\ job[h].answer = "200" =>
           RunIs(job[h].run, "success") \/ RunIs(job[h].run, "partial")
      /\ job[h].answer \in {"502", "504"} => RunIs(job[h].run, "failed")

(* A vacancy of a source without pagination is archived only when the site  *)
(* no longer listed it at the time the archiving run looked.                *)
ArchivesOnlyDelisted ==
  [][\A v \in Vacancies :
       /\ pagination[v[1]] = NoPagination
       /\ vacancies[v] # NoRow
       /\ vacancies[v].listing = "active"
       /\ vacancies'[v].listing = "archived"
       => \E h \in Handlers : /\ job[h].pc = "complete"
                              /\ job[h].source = v[1]
                              /\ v[2] \notin job[h].listed]_vars

(* A paginated source archives only when a full pass is due: the run  *)
(* that archives is the DefaultFullEvery-th, counted over the runs that did *)
(* not fail, although the plan is made from a count that was read before    *)
(* the scrape.                                                              *)
ArchivesInRhythm ==
  [][\A v \in Vacancies :
       /\ pagination[v[1]] # NoPagination
       /\ vacancies[v] # NoRow
       /\ vacancies[v].listing = "active"
       /\ vacancies'[v].listing = "archived"
       => Cardinality({r \in RunIds : /\ runs'[r] # NoRow
                                      /\ runs'[r].source = v[1]
                                      /\ runs'[r].status \in {"success", "partial"}})
            % DefaultFullEvery = 0]_vars

(* Every run ends: no source stays locked for ever, whatever crashes.       *)
EveryRunEnds ==
  \A r \in RunIds : RunIs(r, "running") ~> ~RunIs(r, "running")

(* Every request is answered or dies with its process.                      *)
EveryRequestEnds ==
  \A h \in Handlers : job[h].pc # "idle" ~> job[h].pc = "idle"
=============================================================================
