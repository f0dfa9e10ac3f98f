-------------------------- MODULE PageScrape_proofs --------------------------
(***************************************************************************)
(* Theorems about one scrape, for listings of any length, any plan, any    *)
(* number of quiet rounds, and a site and a deadline that come between any *)
(* two browser calls: the loop stops by its rules, every card is accounted *)
(* for, and a phrase in the URL decides what is parsed.                    *)
(***************************************************************************)
EXTENDS PageScrape, FiniteSetTheorems, TLAPS

-----------------------------------------------------------------------------
(* The invariant *)

Opening == {"open", "search", "wait"}
Looping == {"before", "paginate", "stop", "after"}
Ending  == {"detail", "done"}

(* The site owes no cards before the first pagination, and no answer to a   *)
(* search unless one was made.                                              *)
SiteOwesWhatWasAsked ==
  /\ pc = "open" => ~searching
  /\ pc \in Opening => pending = 0
  /\ pc = "search" => Means = "form"

(* Nothing is visited before the cards are parsed, and nothing has an       *)
(* outcome before the end.                                                  *)
NothingEarly ==
  /\ pc \notin Ending => visited = 0 /\ fetched = 0 /\ errors = 0
  /\ pc # "done" => outcome = "none"

(* The counter of the loop is the number of quiet rounds in a row, and the  *)
(* loop goes on below both limits only.                                     *)
LoopCounts ==
  /\ quiet = attempts
  /\ MaxIterations = NoPagination => pc \notin Looping
  /\ MaxIterations # NoPagination => iteration <= MaxIterations
  /\ pc \in Opening \cup Looping => attempts < MaxAttemptsWithoutNewData
  /\ pc = "parse" /\ MaxIterations # NoPagination =>
       LimitReached \/ quiet >= MaxAttemptsWithoutNewData \/ stopSeen

(* A detail page that was tried was fetched or is an error, and a scrape    *)
(* that ended well has tried them all.                                      *)
VisitsCount ==
  /\ fetched + errors = visited
  /\ outcome = "ok" /\ HasDetailPage => visited = ToVisit

(* With the phrase in the URL the document shows what was found from the    *)
(* first call on, and nothing will replace it.                              *)
UrlShowsFound ==
  Means = "url" =>
    /\ pc \notin {"open", "done"} => shown = "found"
    /\ ~searching
    /\ \A card \in cards : card[2] = "matching"

PageInv == PageTypeOK /\ SiteOwesWhatWasAsked /\ NothingEarly /\ LoopCounts /\ VisitsCount /\ UrlShowsFound

-----------------------------------------------------------------------------
(* Facts about the operators *)

(* Listings have lengths and counts are numbers.                            *)
LEMMA Lengths ==
  /\ Len(Listing) \in Nat /\ Len(Found) \in Nat /\ Total \in Nat
  /\ Document \in Seq({"matching", "other", "missing"})
  /\ \A i \in 1..Total : Document[i] \in {"matching", "other", "missing"}
<1>1. /\ Listing \in Seq({"matching", "other", "missing"})
      /\ Found \in Seq({"matching", "other", "missing"})
  BY PageAssumption
<1> QED BY <1>1 DEF Total, Document

LEMMA FewerIsLess ==
  ASSUME NEW m \in Nat, NEW n \in Nat
  PROVE  Fewer(m, n) \in Nat /\ Fewer(m, n) <= m /\ Fewer(m, n) <= n
BY DEF Fewer

LEMMA FirstCardsFit ==
  ASSUME NEW list, Len(list) \in Nat, NEW n \in FirstCards(list)
  PROVE  n \in 0..Len(list)
<1>1. Fewer(PageSize, Len(list)) \in Nat /\ Fewer(PageSize, Len(list)) <= Len(list)
  <2>1. PageSize \in Nat
    BY PageAssumption
  <2> QED BY <2>1, FewerIsLess
<1> QED BY <1>1 DEF FirstCards

LEMMA VisitsAreNumbers ==
  ASSUME PageTypeOK
  PROVE  ToVisit \in Nat
<1>1. Cardinality(cards) \in Nat /\ call.details \in Nat
  BY FS_CardinalityType, PageAssumption DEF PageTypeOK, Calls
<1> QED BY <1>1, FewerIsLess DEF ToVisit

-----------------------------------------------------------------------------
(* The steps *)

LEMMA PageInvInit == PageInit => PageInv
<1> SUFFICES ASSUME PageInit PROVE PageInv
  OBVIOUS
<1>1. IsFiniteSet({}) /\ Cardinality({}) = 0
  BY FS_EmptySet
<1>2. call.details \in Nat
  BY PageAssumption DEF PageInit, Calls
<1>3. ToVisit = 0
  BY <1>1, <1>2 DEF PageInit, ToVisit, Fewer
<1>4. PageTypeOK
  <2>1. Total \in Nat /\ MaxAttemptsWithoutNewData \in Nat
    BY Lengths, PageAssumption
  <2>2. /\ loaded \in 0..Total /\ pending \in 0..(Total - loaded)
        /\ attempts \in 0..MaxAttemptsWithoutNewData /\ visited \in 0..ToVisit
    BY <1>3, <2>1 DEF PageInit
  <2>3. cards \subseteq Nat \X {"matching", "other"} /\ IsFiniteSet(cards)
    BY <1>1 DEF PageInit
  <2>4. /\ fetched \in Nat /\ errors \in Nat /\ fetched + errors <= visited
        /\ iteration \in Nat \ {0} /\ before \in Nat /\ quiet \in Nat
    BY DEF PageInit
  <2>5. /\ call \in Calls /\ pc = "open" /\ shown = "nothing" /\ outcome = "none"
        /\ ~searching /\ searching \in BOOLEAN /\ stopSeen \in BOOLEAN
        /\ expired \in BOOLEAN /\ cutOff \in BOOLEAN
    BY DEF PageInit
  <2> QED BY <2>2, <2>3, <2>4, <2>5 DEF PageTypeOK
<1>5. SiteOwesWhatWasAsked /\ NothingEarly /\ VisitsCount /\ UrlShowsFound
  BY <1>3 DEF PageInit, SiteOwesWhatWasAsked, NothingEarly, VisitsCount, UrlShowsFound
<1>6. LoopCounts
  BY PageAssumption DEF PageInit, LoopCounts, Opening, Looping
<1> QED BY <1>4, <1>5, <1>6 DEF PageInv

LEMMA NavigateStep ==
  ASSUME PageInv, Navigate
  PROVE  PageInv'
<1> USE DEF PageInv, Navigate, Goes
<1>1. Means' = Means /\ ToVisit' = ToVisit
  BY DEF Means, ToVisit, resultVars
<1>2. PageTypeOK'
  <2>1. loaded' \in 0..Total'
    <3>1. loaded' \in 0..Len(IF Means = "url" THEN Found ELSE Listing)
      BY FirstCardsFit, Lengths
    <3> QED BY <3>1 DEF Total, Document
  <2>2. Total' \in Nat
    BY Lengths DEF Total, Document
  <2>3. pending' \in 0..(Total' - loaded')
    <3>1. pending' = 0
      BY DEF SiteOwesWhatWasAsked, Opening
    <3> HIDE DEF PageInv, Navigate, Goes
    <3>2. \A m \in Nat : \A n \in 0..m : 0 \in 0..(m - n)
      OBVIOUS
    <3> QED BY <2>1, <2>2, <3>1, <3>2
  <2> QED BY <1>1, <2>1, <2>3 DEF PageTypeOK, loopVars, resultVars
<1>3. SiteOwesWhatWasAsked'
  BY <1>1 DEF SiteOwesWhatWasAsked, Opening
<1>4. NothingEarly' /\ VisitsCount'
  BY <1>1 DEF NothingEarly, VisitsCount, Ending, resultVars
<1>5. LoopCounts'
  BY DEF LoopCounts, LimitReached, Opening, Looping, loopVars
<1>6. UrlShowsFound'
  BY <1>1 DEF UrlShowsFound, SiteOwesWhatWasAsked, resultVars
<1> QED BY <1>2, <1>3, <1>4, <1>5, <1>6

(* Searching leaves the loop and the results alone and goes on to the wait  *)
(* for the list.                                                            *)
LEMMA SearchStep ==
  ASSUME PageInv, Search
  PROVE  PageInv'
<1> USE DEF PageInv, Search, Goes
<1>1. Means' = Means /\ ToVisit' = ToVisit /\ Total' = Total
  BY DEF Means, ToVisit, Total, Document, resultVars
<1>2. PageTypeOK'
  BY <1>1 DEF PageTypeOK, loopVars, resultVars
<1>3. SiteOwesWhatWasAsked'
  BY DEF SiteOwesWhatWasAsked, Opening
<1>4. NothingEarly' /\ VisitsCount'
  BY <1>1 DEF NothingEarly, VisitsCount, Ending, resultVars
<1>5. LoopCounts'
  BY DEF LoopCounts, LimitReached, Opening, Looping, loopVars
<1>6. UrlShowsFound'
  BY <1>1 DEF UrlShowsFound, SiteOwesWhatWasAsked, resultVars
<1> QED BY <1>2, <1>3, <1>4, <1>5, <1>6

LEMMA WaitStep ==
  ASSUME PageInv, WaitForList
  PROVE  PageInv'
<1> USE DEF PageInv, WaitForList, Goes
<1>1. Means' = Means /\ ToVisit' = ToVisit /\ Total' = Total
  BY DEF Means, ToVisit, Total, Document, listVars, resultVars
<1>2. PageTypeOK'
  BY <1>1 DEF PageTypeOK, listVars, loopVars, resultVars
<1>3. SiteOwesWhatWasAsked'
  BY DEF SiteOwesWhatWasAsked, Opening
<1>4. NothingEarly' /\ VisitsCount'
  BY <1>1 DEF NothingEarly, VisitsCount, Ending, resultVars
<1>5. LoopCounts'
  BY DEF LoopCounts, LimitReached, Opening, Looping, loopVars
<1>6. UrlShowsFound'
  BY <1>1 DEF UrlShowsFound, listVars, resultVars
<1> QED BY <1>2, <1>3, <1>4, <1>5, <1>6

LEMMA CountBeforeStep ==
  ASSUME PageInv, CountBefore
  PROVE  PageInv'
<1> USE DEF PageInv, CountBefore, Goes
<1>1. Means' = Means /\ ToVisit' = ToVisit /\ Total' = Total
  BY DEF Means, ToVisit, Total, Document, listVars, resultVars
<1>2. PageTypeOK'
  BY <1>1, Lengths DEF PageTypeOK, listVars, resultVars
<1>3. SiteOwesWhatWasAsked'
  BY DEF SiteOwesWhatWasAsked, Opening
<1>4. NothingEarly' /\ VisitsCount'
  BY <1>1 DEF NothingEarly, VisitsCount, Ending, resultVars
<1>5. LoopCounts'
  BY DEF LoopCounts, LimitReached, Opening, Looping
<1>6. UrlShowsFound'
  BY <1>1 DEF UrlShowsFound, listVars, resultVars
<1> QED BY <1>2, <1>3, <1>4, <1>5, <1>6

(* What is asked for fits what the listing still has.                       *)
LEMMA PaginateStep ==
  ASSUME PageInv, Paginate
  PROVE  PageInv'
<1> USE DEF PageInv, Paginate, Goes
<1>1. Means' = Means /\ ToVisit' = ToVisit /\ Total' = Total
  BY DEF Means, ToVisit, Total, Document, listVars, resultVars
<1>2. PageTypeOK'
  <2>1. pending' \in 0..(Total - loaded)
    <3>1. Total - loaded - pending \in Nat /\ PageSize \in Nat /\ Total \in Nat
      BY Lengths, PageAssumption DEF PageTypeOK
    <3>2. /\ Fewer(Total - loaded - pending, PageSize) \in Nat
          /\ Fewer(Total - loaded - pending, PageSize) <= Total - loaded - pending
      BY <3>1, FewerIsLess
    <3> QED BY <3>1, <3>2 DEF PageTypeOK
  <2> QED BY <1>1, <2>1 DEF PageTypeOK, listVars, loopVars, resultVars
<1>3. SiteOwesWhatWasAsked'
  BY DEF SiteOwesWhatWasAsked, Opening
<1>4. NothingEarly' /\ VisitsCount'
  BY <1>1 DEF NothingEarly, VisitsCount, Ending, resultVars
<1>5. LoopCounts'
  BY DEF LoopCounts, LimitReached, Opening, Looping, loopVars
<1>6. UrlShowsFound'
  BY <1>1 DEF UrlShowsFound, listVars, resultVars
<1> QED BY <1>2, <1>3, <1>4, <1>5, <1>6

LEMMA ShouldStopStep ==
  ASSUME PageInv, ShouldStop
  PROVE  PageInv'
<1> USE DEF PageInv, ShouldStop, Goes
<1>1. Means' = Means /\ ToVisit' = ToVisit /\ Total' = Total
  BY DEF Means, ToVisit, Total, Document, listVars, resultVars
<1>2. PageTypeOK'
  BY <1>1 DEF PageTypeOK, listVars, resultVars
<1>3. SiteOwesWhatWasAsked'
  BY DEF SiteOwesWhatWasAsked, Opening
<1>4. NothingEarly' /\ VisitsCount'
  BY <1>1 DEF NothingEarly, VisitsCount, Ending, resultVars
<1>5. LoopCounts'
  BY DEF LoopCounts, LimitReached, Opening, Looping
<1>6. UrlShowsFound'
  BY <1>1 DEF UrlShowsFound, listVars, resultVars
<1> QED BY <1>2, <1>3, <1>4, <1>5, <1>6

(* The loop ends by its attempts or its limit, or begins a round within it. *)
LEMMA CountAfterStep ==
  ASSUME PageInv, CountAfter
  PROVE  PageInv'
<1> USE DEF PageInv, CountAfter, Goes
<1>1. Means' = Means /\ ToVisit' = ToVisit /\ Total' = Total
  BY DEF Means, ToVisit, Total, Document, listVars, resultVars
<1>2. MaxIterations \in Nat /\ MaxIterations # NoPagination /\ MaxAttemptsWithoutNewData \in Nat \ {0}
  BY PageAssumption DEF LoopCounts, Looping
<1>3. /\ attempts' = quiet' /\ attempts' \in 0..MaxAttemptsWithoutNewData
      /\ pc' = "before" => attempts' < MaxAttemptsWithoutNewData
  BY <1>2 DEF AttemptsAfter, LoopCounts, PageTypeOK, Opening, Looping
<1>4. iteration' \in Nat \ {0} /\ iteration' <= MaxIterations
  BY <1>2 DEF LimitReached, PageTypeOK, LoopCounts
<1>5. PageTypeOK'
  BY <1>1, <1>3, <1>4 DEF PageTypeOK, listVars, resultVars
<1>6. SiteOwesWhatWasAsked'
  BY DEF SiteOwesWhatWasAsked, Opening
<1>7. NothingEarly' /\ VisitsCount'
  BY <1>1 DEF NothingEarly, VisitsCount, Ending, resultVars
<1>8. LoopCounts'
  <2>1. pc' = "parse" => LimitReached' \/ quiet' >= MaxAttemptsWithoutNewData
    BY <1>3 DEF LimitReached
  <2>2. pc' \in {"before", "parse"}
    OBVIOUS
  <2> QED BY <1>2, <1>3, <1>4, <2>1, <2>2 DEF LoopCounts, Opening, Looping
<1>9. UrlShowsFound'
  BY <1>1 DEF UrlShowsFound, listVars, resultVars
<1> QED BY <1>5, <1>6, <1>7, <1>8, <1>9

(* The cards that are parsed are those of the document, those without a     *)
(* link left out.                                                           *)
LEMMA ParsedCards ==
  ASSUME PageTypeOK, Parse
  PROVE  /\ cards' \subseteq Nat \X {"matching", "other"}
         /\ IsFiniteSet(cards')
         /\ shown = "found" => \A card \in cards' : card[2] = "matching"
<1>1. loaded \in Nat /\ loaded <= Total /\ Total \in Nat
  BY Lengths DEF PageTypeOK
<1>2. \A i \in 1..loaded : i \in Nat /\ Document[i] \in {"matching", "other", "missing"}
  BY <1>1, Lengths
<1>3. cards' = {<<i, Document[i]>> : i \in {j \in 1..loaded : Document[j] # "missing"}}
  BY DEF Parse, Kept
<1>4. cards' \subseteq Nat \X {"matching", "other"}
  BY <1>2, <1>3
<1>5. IsFiniteSet({j \in 1..loaded : Document[j] # "missing"})
  <2>1. IsFiniteSet(1..loaded)
    BY <1>1, FS_Interval
  <2> QED BY <2>1, FS_Subset
<1>6. IsFiniteSet(cards')
  <2> DEFINE kept == {j \in 1..loaded : Document[j] # "missing"}
             f == [i \in kept |-> <<i, Document[i]>>]
  <2>1. f \in Surjection(kept, cards')
    BY <1>3 DEF Surjection
  <2> QED BY <1>5, <2>1, FS_Surjection
<1>7. ASSUME shown = "found", NEW card \in cards' PROVE card[2] = "matching"
  <2>1. Document = Found /\ Total = Len(Found)
    BY <1>7 DEF Document, Total
  <2>2. \A i \in 1..Len(Found) : Found[i] \in {"matching", "missing"}
    BY PageAssumption
  <2> QED BY <1>1, <1>3, <1>7, <2>1, <2>2
<1> QED BY <1>4, <1>6, <1>7

LEMMA ParseStep ==
  ASSUME PageInv, Parse
  PROVE  PageInv'
<1> USE DEF PageInv, Goes
<1>1. Means' = Means /\ Total' = Total /\ call' = call
  BY DEF Parse, Means, Total, Document, listVars
<1>2. visited = 0 /\ fetched = 0 /\ errors = 0
  BY DEF Parse, NothingEarly, Ending
<1>3. /\ cards' \subseteq Nat \X {"matching", "other"} /\ IsFiniteSet(cards')
      /\ Means = "url" => \A card \in cards' : card[2] = "matching"
  BY ParsedCards DEF UrlShowsFound, Parse
<1>4. ToVisit' \in Nat
  <2>1. Cardinality(cards') \in Nat /\ call'.details \in Nat
    BY <1>1, <1>3, FS_CardinalityType, PageAssumption DEF PageTypeOK, Calls
  <2> QED BY <2>1, FewerIsLess DEF ToVisit
<1>5. PageTypeOK'
  BY <1>1, <1>2, <1>3, <1>4 DEF PageTypeOK, Parse, listVars, loopVars
<1>6. SiteOwesWhatWasAsked' /\ NothingEarly' /\ VisitsCount'
  BY <1>2 DEF SiteOwesWhatWasAsked, NothingEarly, VisitsCount, Opening, Ending, Parse
<1>7. LoopCounts'
  BY DEF LoopCounts, Opening, Looping, Parse, loopVars
<1>8. UrlShowsFound'
  BY <1>1, <1>3 DEF UrlShowsFound, Parse, listVars
<1> QED BY <1>5, <1>6, <1>7, <1>8

(* Each visit ends in a page or an error.                                   *)
LEMMA DetailStep ==
  ASSUME PageInv, Detail
  PROVE  PageInv'
<1> USE DEF PageInv
<1>1. Means' = Means /\ ToVisit' = ToVisit /\ Total' = Total
  BY DEF Detail, Means, ToVisit, Total, Document, listVars
<1>2. /\ fetched' \in Nat /\ errors' \in Nat /\ visited' \in 0..ToVisit
      /\ fetched' + errors' = visited' /\ fetched' + errors' <= visited'
  BY VisitsAreNumbers DEF Detail, PageTypeOK, VisitsCount
<1>3. PageTypeOK'
  <2>1. cutOff' \in BOOLEAN
    BY DEF Detail, PageTypeOK
  <2> QED BY <1>1, <1>2, <2>1 DEF PageTypeOK, Detail, listVars, loopVars
<1>4. SiteOwesWhatWasAsked' /\ NothingEarly' /\ LoopCounts'
  BY DEF SiteOwesWhatWasAsked, NothingEarly, LoopCounts, LimitReached, Opening, Looping, Ending, Detail, loopVars
<1>5. VisitsCount'
  <2>1. outcome' # "ok"
    BY DEF NothingEarly, Detail
  <2> QED BY <1>2, <2>1 DEF VisitsCount
<1>6. UrlShowsFound'
  BY <1>1 DEF UrlShowsFound, Detail, listVars
<1> QED BY <1>3, <1>4, <1>5, <1>6

LEMMA DetailsDoneStep ==
  ASSUME PageInv, DetailsDone
  PROVE  PageInv'
<1> USE DEF PageInv, DetailsDone
<1>1. Means' = Means /\ ToVisit' = ToVisit /\ Total' = Total
  BY DEF Means, ToVisit, Total, Document, listVars, resultVars
<1>2. PageTypeOK'
  BY <1>1 DEF PageTypeOK, listVars, loopVars, resultVars
<1>3. SiteOwesWhatWasAsked' /\ NothingEarly' /\ LoopCounts' /\ VisitsCount'
  BY <1>1 DEF SiteOwesWhatWasAsked, NothingEarly, LoopCounts, LimitReached, VisitsCount,
              Opening, Looping, Ending, loopVars, resultVars
<1>4. UrlShowsFound'
  BY <1>1 DEF UrlShowsFound, listVars, resultVars
<1> QED BY <1>2, <1>3, <1>4

LEMMA FailureStep ==
  ASSUME PageInv, CallFails
  PROVE  PageInv'
<1> USE DEF PageInv, CallFails
<1>1. Means' = Means /\ ToVisit' = ToVisit /\ Total' = Total
  BY DEF Means, ToVisit, Total, Document, listVars
<1>2. PageTypeOK'
  BY <1>1 DEF PageTypeOK, listVars, loopVars
<1>3. SiteOwesWhatWasAsked' /\ NothingEarly' /\ LoopCounts' /\ VisitsCount'
  BY <1>1 DEF SiteOwesWhatWasAsked, NothingEarly, LoopCounts, LimitReached, VisitsCount,
              Opening, Looping, Ending, loopVars
<1>4. UrlShowsFound'
  BY <1>1 DEF UrlShowsFound, listVars
<1> QED BY <1>2, <1>3, <1>4

(* What the site does never takes a card away but by an answer to a search, *)
(* which a phrase in the URL never asks for.                                *)
LEMMA SiteStep ==
  ASSUME PageInv, CardArrives \/ ResultsArrive
  PROVE  PageInv'
<1> USE DEF PageInv
<1>1. Means' = Means /\ ToVisit' = ToVisit
  BY DEF CardArrives, ResultsArrive, Means, ToVisit, resultVars
<1>2. CASE CardArrives
  <2>1. Total' = Total /\ Total \in Nat
    BY <1>2, Lengths DEF CardArrives, Total, Document, listVars
  <2>2. loaded' \in 0..Total' /\ pending' \in 0..(Total' - loaded')
    BY <1>2, <2>1 DEF CardArrives, PageTypeOK
  <2>3. PageTypeOK'
    BY <1>1, <1>2, <2>2 DEF PageTypeOK, CardArrives, listVars, loopVars, resultVars
  <2>4. SiteOwesWhatWasAsked' /\ NothingEarly' /\ LoopCounts' /\ VisitsCount' /\ UrlShowsFound'
    BY <1>1, <1>2
       DEF CardArrives, SiteOwesWhatWasAsked, NothingEarly, LoopCounts, LimitReached,
           VisitsCount, UrlShowsFound, Opening, Looping, Ending, listVars, loopVars, resultVars
  <2> QED BY <2>3, <2>4
<1>3. CASE ResultsArrive
  <2>1. Total' = Len(Found) /\ Len(Found) \in Nat
    BY <1>3, Lengths DEF ResultsArrive, Total, Document
  <2>2. loaded' \in 0..Total'
    BY <1>3, <2>1, FirstCardsFit DEF ResultsArrive
  <2>3. pending' \in 0..(Total' - loaded')
    <3>1. \A m \in Nat : \A n \in 0..m : 0 \in 0..(m - n)
      OBVIOUS
    <3> HIDE DEF PageInv
    <3> QED BY <1>3, <2>1, <2>2, <3>1 DEF ResultsArrive
  <2>4. PageTypeOK'
    BY <1>1, <1>3, <2>2, <2>3 DEF PageTypeOK, ResultsArrive, loopVars, resultVars
  <2>5. SiteOwesWhatWasAsked' /\ NothingEarly' /\ LoopCounts' /\ VisitsCount' /\ UrlShowsFound'
    BY <1>1, <1>3
       DEF ResultsArrive, SiteOwesWhatWasAsked, NothingEarly, LoopCounts, LimitReached,
           VisitsCount, UrlShowsFound, Opening, Looping, Ending, loopVars, resultVars
  <2> QED BY <2>4, <2>5
<1> QED BY <1>2, <1>3

(* The clock touches nothing but itself.                                    *)
LEMMA ClockStep ==
  ASSUME PageInv, DeadlinePasses \/ UNCHANGED pageVars
  PROVE  PageInv'
<1>1. Means' = Means /\ ToVisit' = ToVisit /\ Total' = Total
  BY DEF DeadlinePasses, pageVars, Means, ToVisit, Total, Document, listVars, resultVars
<1> USE DEF PageInv, DeadlinePasses, pageVars, listVars, loopVars, resultVars
<1>2. PageTypeOK'
  <2>1. CASE DeadlinePasses
    BY <1>1, <2>1 DEF PageTypeOK
  <2>2. CASE UNCHANGED pageVars
    BY <1>1, <2>2 DEF PageTypeOK
  <2> QED BY <2>1, <2>2
<1>3. SiteOwesWhatWasAsked' /\ NothingEarly' /\ LoopCounts' /\ VisitsCount' /\ UrlShowsFound'
  BY <1>1 DEF SiteOwesWhatWasAsked, NothingEarly, LoopCounts, LimitReached, VisitsCount, UrlShowsFound
<1> QED BY <1>2, <1>3

-----------------------------------------------------------------------------
(* The theorems *)

(* The invariant holds whatever the browser, the site and the clock do.     *)
THEOREM PageInvariant == PageSpec => []PageInv
<1>1. PageInv /\ [PageNext]_pageVars => PageInv'
  BY NavigateStep, SearchStep, WaitStep, CountBeforeStep, PaginateStep, ShouldStopStep,
     CountAfterStep, ParseStep, DetailStep, DetailsDoneStep, FailureStep, SiteStep, ClockStep
  DEF PageNext, BrowserStep
<1> QED BY <1>1, PageInvInit, PTL DEF PageSpec

(* Every counter of a scrape keeps its shape and its bounds: more cards are *)
(* never in the document or owed than the listing has.                      *)
THEOREM PageTypeCorrect == PageSpec => []PageTypeOK
<1>1. PageInv => PageTypeOK
  BY DEF PageInv
<1> QED BY <1>1, PageInvariant, PTL

(* The loop never exceeds its plan, and ends before it only on a stop       *)
(* selector or on as many quiet rounds in a row as the text allows, however *)
(* the cards arrive between the two counts of a round.                      *)
THEOREM LoopEndsByRule == PageSpec => []LoopStopsByRule
<1>1. PageInv => LoopStopsByRule
  BY DEF PageInv, LoopCounts, LoopStopsByRule
<1> QED BY <1>1, PageInvariant, PTL

(* A scrape that ends well has tried every detail page it was to try, and   *)
(* each try is a page or an error, wherever the deadline falls.             *)
THEOREM EveryDetailIsAccounted == PageSpec => []DetailsAccounted
<1>1. PageInv => DetailsAccounted
  BY DEF PageInv, VisitsCount, DetailsAccounted, ToVisit
<1> QED BY <1>1, PageInvariant, PTL

(* A phrase in the URL parses only what the site found: no answer to a      *)
(* search is ever outstanding that could replace the document.              *)
THEOREM TemplateDecides == PageSpec => []TemplateIsDeterministic
<1>1. PageInv => TemplateIsDeterministic
  BY DEF PageInv, UrlShowsFound, TemplateIsDeterministic, Means
<1> QED BY <1>1, PageInvariant, PTL
=============================================================================
