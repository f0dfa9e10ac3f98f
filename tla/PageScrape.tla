----------------------------- MODULE PageScrape -----------------------------
(***************************************************************************)
(* One scrape of one page (ScrapeWithQuery of internal/scraper): open the  *)
(* listing, ask it for the search phrase, wait for the list, load more of  *)
(* it until a stop rule applies, parse the cards, visit their detail pages.*)
(* Every browser call shares the deadline of the run; the site is external *)
(* and delivers what a search or pagination asked for whenever it likes,   *)
(* between any two calls.                                                  *)
(***************************************************************************)
EXTENDS Integers, Sequences, FiniteSets

CONSTANTS
  MaxIterations,              \* of the effective plan, or NoPagination
  MaxAttemptsWithoutNewData,  \* quiet iterations before the loop gives up
  PageSize,                   \* cards one pagination brings
  Listing,                    \* the cards of the whole listing, in their order
  Found,                      \* the cards that the site's own search finds
  HasStopSelector,            \* does the YAML name a stop selector?
  HasDetailPage,              \* does the YAML ask for detail pages?
  DetailLimits,               \* maxDetailPages: 0 in the server
  NoPagination

ASSUME PageAssumption ==
  /\ MaxIterations \in (Nat \ {0}) \cup {NoPagination}
  /\ MaxAttemptsWithoutNewData \in Nat \ {0}
  /\ PageSize \in Nat \ {0}
  /\ Listing \in Seq({"matching", "other", "missing"})
  /\ Found \in Seq({"matching", "missing"})
  /\ DetailLimits \subseteq Nat
  /\ HasStopSelector \in BOOLEAN /\ HasDetailPage \in BOOLEAN
  /\ NoPagination \notin Nat

VARIABLES
  call,       \* what is searched for and with which settings; it never changes
  pc,         \* the next browser call
  shown,      \* the listing in the document: "nothing", "whole" or "found"
  searching,  \* does the site still owe the answer to a search?
  loaded,     \* cards in the document
  pending,    \* cards the site still owes to earlier paginations
  iteration,  \* the current round of loadAll
  before,     \* the card count at the start of the round
  attempts,   \* noNewDataAttempts
  expired,    \* has the deadline of the run passed?
  cards,      \* the parsed vacancies: place in the listing and what stands there
  visited,    \* how many detail pages have been tried
  fetched,    \* DetailsFetched
  errors,     \* how many DetailErrors
  outcome,    \* "none", "ok", "error", "deadline"
  cutOff,     \* observed: has the deadline cut a call off?
  quiet,      \* observed: rounds in a row in which no card arrived
  stopSeen    \* observed: has the loop found a stop selector?

pageVars == <<call, pc, shown, searching, loaded, pending, iteration, before,
              attempts, expired, cards, visited, fetched, errors, outcome,
              cutOff, quiet, stopSeen>>

listVars   == <<shown, searching>>
loopVars   == <<iteration, before, attempts, quiet, stopSeen>>
resultVars == <<cards, visited, fetched, errors, cutOff>>

(* A phrase that is not blank, a URL template, search fields on the page    *)
(* (which may be filled in and never submitted), and maxDetailPages.        *)
Calls == [phrase : BOOLEAN, template : BOOLEAN,
          form : {"none", "submitted", "filled"}, details : DetailLimits]

(* Mutant: the fields on the page win over the template.                    *)
MeansFormFirst ==
  IF ~call.phrase THEN "none"
  ELSE IF call.form # "none" THEN "form"
  ELSE IF call.template THEN "url" ELSE "none"

(* How the phrase reaches the site.                                         *)
Means ==
  IF ~call.phrase THEN "none"
  ELSE IF call.template THEN "url"
  ELSE IF call.form # "none" THEN "form" ELSE "none"

Document == IF shown = "found" THEN Found ELSE Listing

Total == Len(Document)

Fewer(m, n) == IF m < n THEN m ELSE n

Goes(to) == pc' = to /\ UNCHANGED <<call, outcome>>

(* Every call before the details can fail, and fails once time is up; the   *)
(* error ends the scrape.                                                   *)
CallFails ==
  /\ pc \notin {"detail", "done"}
  /\ pc' = "done"
  /\ outcome' = IF expired THEN "deadline" ELSE "error"
  /\ cutOff' = expired
  /\ UNCHANGED <<call, listVars, loaded, pending, expired, loopVars, cards,
                 visited, fetched, errors>>

-----------------------------------------------------------------------------
(* What a page shows of a listing at first: all of it without pagination,   *)
(* some of it otherwise.                                                    *)
FirstCards(listing) ==
  IF MaxIterations = NoPagination THEN {Len(listing)}
  ELSE 0..Fewer(PageSize, Len(listing))

Navigate ==
  /\ pc = "open" /\ ~expired
  /\ shown' = IF Means = "url" THEN "found" ELSE "whole"
  /\ loaded' \in FirstCards(IF Means = "url" THEN Found ELSE Listing)
  /\ Goes(IF Means = "form" THEN "search" ELSE "wait")
  /\ UNCHANGED <<searching, pending, expired, loopVars, resultVars>>

(* runUISearch: the click or the key returns before the site has answered.  *)
Search ==
  /\ pc = "search" /\ ~expired
  /\ searching' = (call.form = "submitted")
  /\ Goes("wait")
  /\ UNCHANGED <<shown, loaded, pending, expired, loopVars, resultVars>>

(* The element waited for is there as soon as any list is, the one from     *)
(* before the search too.                                                   *)
WaitForList ==
  /\ pc = "wait" /\ ~expired
  /\ Goes(IF MaxIterations = NoPagination THEN "parse" ELSE "before")
  /\ UNCHANGED <<listVars, loaded, pending, expired, loopVars, resultVars>>

(* loadAll, one round: count, paginate, settle and look for a stop          *)
(* selector, count again.                                                   *)
CountBefore ==
  /\ pc = "before" /\ ~expired
  /\ before' = loaded
  /\ Goes("paginate")
  /\ UNCHANGED <<listVars, loaded, pending, expired, iteration, attempts, quiet,
                 stopSeen, resultVars>>

Paginate ==
  /\ pc = "paginate" /\ ~expired
  /\ pending' = pending + Fewer(Total - loaded - pending, PageSize)
  /\ Goes("stop")
  /\ UNCHANGED <<listVars, loaded, expired, loopVars, resultVars>>

(* The site may say that there is no more once everything was asked for.    *)
ShouldStop ==
  /\ pc = "stop" /\ ~expired
  /\ \/ /\ HasStopSelector /\ loaded + pending = Total
        /\ stopSeen' = TRUE
        /\ Goes("parse")
     \/ Goes("after") /\ UNCHANGED stopSeen
  /\ UNCHANGED <<listVars, loaded, pending, expired, iteration, before, attempts,
                 quiet, resultVars>>

LimitReached == iteration >= MaxIterations

(* Mutant: quiet rounds are added up over the whole loop.                   *)
AttemptsInAll(grew) == IF grew THEN attempts ELSE attempts + 1

AttemptsAfter(grew) == IF grew THEN 0 ELSE attempts + 1

CountAfter ==
  /\ pc = "after" /\ ~expired
  /\ attempts' = AttemptsAfter(loaded > before)
  /\ quiet' = IF loaded > before THEN 0 ELSE quiet + 1
  /\ IF attempts' >= MaxAttemptsWithoutNewData \/ LimitReached
     THEN Goes("parse") /\ UNCHANGED iteration
     ELSE Goes("before") /\ iteration' = iteration + 1
  /\ UNCHANGED <<listVars, loaded, pending, expired, before, stopSeen, resultVars>>

(* A card whose href is absent, blank or not a URL is skipped.              *)
Kept(href) == href # "missing"

Parse ==
  /\ pc = "parse" /\ ~expired
  /\ cards' = {<<i, Document[i]>> : i \in {j \in 1..loaded : Kept(Document[j])}}
  /\ IF HasDetailPage THEN Goes("detail")
     ELSE pc' = "done" /\ outcome' = "ok" /\ UNCHANGED call
  /\ UNCHANGED <<listVars, loaded, pending, expired, loopVars, visited, fetched,
                 errors, cutOff>>

(* How many detail pages are to be visited.                                 *)
ToVisit == IF call.details = 0 THEN Cardinality(cards)
           ELSE Fewer(call.details, Cardinality(cards))

(* Mutant: a page that fails is tried again.                                *)
DetailAgain ==
  /\ pc = "detail" /\ visited < ToVisit /\ ~expired
  /\ fetched' = fetched + 1
  /\ visited' = visited + 1
  /\ UNCHANGED <<call, pc, listVars, loaded, pending, expired, loopVars, cards,
                 errors, outcome, cutOff>>

(* enrichDetails: a page that fails is noted and the next one is tried,     *)
(* also when it fails because time is up.                                   *)
Detail ==
  /\ pc = "detail" /\ visited < ToVisit
  /\ \/ ~expired /\ fetched' = fetched + 1 /\ UNCHANGED <<errors, cutOff>>
     \/ errors' = errors + 1 /\ cutOff' = expired /\ UNCHANGED fetched
  /\ visited' = visited + 1
  /\ UNCHANGED <<call, pc, listVars, loaded, pending, expired, loopVars, cards,
                 outcome>>

(* Mutant: the first failing page ends the visits.                          *)
DetailsDoneEarly ==
  /\ pc = "detail" /\ (visited = ToVisit \/ errors > 0)
  /\ pc' = "done" /\ outcome' = "ok"
  /\ UNCHANGED <<call, listVars, loaded, pending, expired, loopVars, resultVars>>

DetailsDone ==
  /\ pc = "detail" /\ visited = ToVisit
  /\ pc' = "done" /\ outcome' = "ok"
  /\ UNCHANGED <<call, listVars, loaded, pending, expired, loopVars, resultVars>>

BrowserStep ==
  \/ Navigate \/ Search \/ WaitForList \/ CountBefore \/ Paginate \/ ShouldStop \/ CountAfter
  \/ Parse \/ Detail \/ DetailsDone \/ CallFails

-----------------------------------------------------------------------------
(* The site and the clock *)

CardArrives ==
  /\ pending > 0 /\ pc # "done"
  /\ pending' = pending - 1
  /\ loaded' = loaded + 1
  /\ UNCHANGED <<call, pc, listVars, expired, loopVars, resultVars, outcome>>

(* The answer to the search replaces the list and what was still to come.   *)
ResultsArrive ==
  /\ searching /\ pc # "done"
  /\ searching' = FALSE
  /\ shown' = "found"
  /\ loaded' \in FirstCards(Found)
  /\ pending' = 0
  /\ UNCHANGED <<call, pc, expired, loopVars, resultVars, outcome>>

DeadlinePasses ==
  /\ ~expired /\ pc # "done"
  /\ expired' = TRUE
  /\ UNCHANGED <<call, pc, listVars, loaded, pending, loopVars, resultVars, outcome>>

PageInit ==
  /\ call \in Calls
  /\ pc = "open" /\ shown = "nothing" /\ searching = FALSE
  /\ loaded = 0 /\ pending = 0
  /\ iteration = 1 /\ before = 0 /\ attempts = 0 /\ quiet = 0 /\ stopSeen = FALSE
  /\ expired = FALSE /\ cards = {}
  /\ visited = 0 /\ fetched = 0 /\ errors = 0
  /\ outcome = "none" /\ cutOff = FALSE

PageNext == BrowserStep \/ CardArrives \/ ResultsArrive \/ DeadlinePasses

(* A browser call returns: it succeeds, fails, or is cut off by the         *)
(* deadline.                                                                *)
PageSpec == PageInit /\ [][PageNext]_pageVars /\ WF_pageVars(BrowserStep)

-----------------------------------------------------------------------------
(* The counters stay within what has been loaded and visited.               *)
PageTypeOK ==
  /\ call \in Calls
  /\ pc \in {"open", "search", "wait", "before", "paginate", "stop", "after", "parse", "detail", "done"}
  /\ shown \in {"nothing", "whole", "found"} /\ searching \in BOOLEAN
  /\ loaded \in 0..Total /\ pending \in 0..(Total - loaded)
  /\ iteration \in Nat \ {0} /\ before \in Nat
  /\ attempts \in 0..MaxAttemptsWithoutNewData /\ quiet \in Nat /\ stopSeen \in BOOLEAN
  /\ cards \subseteq Nat \X {"matching", "other"} /\ IsFiniteSet(cards)
  /\ visited \in 0..ToVisit
  /\ fetched \in Nat /\ errors \in Nat /\ fetched + errors <= visited
  /\ expired \in BOOLEAN /\ cutOff \in BOOLEAN
  /\ outcome \in {"none", "ok", "error", "deadline"}

(* The loop never does more rounds than its plan allows, and gives up early *)
(* for lack of data only after the configured number of rounds in a row     *)
(* brought nothing: one slow answer does not end a collection.              *)
LoopStopsByRule ==
  /\ MaxIterations # NoPagination => iteration <= MaxIterations
  /\ pc = "parse" /\ MaxIterations # NoPagination =>
       \/ LimitReached
       \/ quiet >= MaxAttemptsWithoutNewData
       \/ stopSeen

(* A scrape that ends well accounts for every card: its detail page was     *)
(* fetched or is listed among the errors, so no card silently keeps the     *)
(* data of the listing in a run that may then call itself complete.  Only a *)
(* diagnostic limit leaves cards out, and always the same number.           *)
DetailsAccounted ==
  outcome = "ok" /\ HasDetailPage =>
    fetched + errors = IF call.details = 0 THEN Cardinality(cards)
                       ELSE Fewer(call.details, Cardinality(cards))

(* A phrase that goes into the URL is answered by the first page: the cards *)
(* are those the site found, whatever arrives when.  ("A URL template takes *)
(* priority over browser UI automation because it is deterministic"; a form *)
(* that has been submitted may still show the list from before the search.) *)
TemplateIsDeterministic ==
  outcome = "ok" /\ call.phrase /\ call.template =>
    \A card \in cards : card[2] = "matching"

(* A scrape whose deadline cut a browser call off is not reported as one    *)
(* that ended well.                                                         *)
DeadlineIsFailure == cutOff => outcome # "ok"

(* Every scrape ends.                                                       *)
ScrapeEnds == <>(pc = "done")
=============================================================================
