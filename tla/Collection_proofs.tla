-------------------------- MODULE Collection_proofs --------------------------
(***************************************************************************)
(* Theorems about what the runs collect, for any texts, sites and handlers *)
(* whose contents and identities the store has: the handlers use the store *)
(* as ExclusiveSpec allows, a handler that has a run has it alone, and the *)
(* observations of a run are refused for nothing but what the site shows.  *)
(***************************************************************************)
EXTENDS Collection, VacancyStore_proofs

-----------------------------------------------------------------------------
(* The invariant *)

(* The texts that a handler may carry, and the documents it may read with   *)
(* one of them.                                                             *)
ParsedTexts == {t \in Texts \cup FirstTexts : Parse(t)}
Documents(t) == UNION {[1..n -> ItemsOf(t)] : n \in 0..MaxCards}

Starting == [pc : {"start"}, source : Sources, text : ParsedTexts, search : BOOLEAN]
Scraping == [pc : {"scrape"}, source : Sources, text : ParsedTexts, search : BOOLEAN,
             run : RunIds, plan : Plan]
Ending(t) == [pc : {"apply", "complete", "fail"}, source : Sources, text : {t},
              run : RunIds, plan : Plan, items : Documents(t)]
Failing  == [pc : {"fail"}, run : RunIds]
Works == {Resting} \cup Starting \cup Scraping \cup Failing
         \cup UNION {Ending(t) : t \in ParsedTexts}

CollectionTypeOK ==
  /\ text \in [Sources -> Texts \cup FirstTexts]
  /\ shown \in [Sources -> Sites]
  /\ work \in [Handlers -> Works]

(* A handler that has a run has it alone, and the run goes on until the     *)
(* handler ends it.                                                         *)
HasRun(h) == work[h].pc \in {"scrape", "apply", "complete", "fail"}

RunsAreHeld ==
  /\ \A h \in Handlers : HasRun(h) => RunIs(work[h].run, "running")
  /\ \A h, g \in Handlers : HasRun(h) /\ HasRun(g) /\ work[h].run = work[g].run => h = g

(* Nothing is on record for a run before its observations are applied.      *)
NothingRecordedEarly ==
  \A h \in Handlers : work[h].pc \in {"scrape", "apply"} =>
    \A v \in Vacancies : composition[work[h].run][v] = "none"

CollectionInv == CollectionTypeOK /\ RunsAreHeld /\ NothingRecordedEarly /\ RefusedForDataOnly

-----------------------------------------------------------------------------
(* Texts, documents and cards *)

(* What Parse makes sure of, as far as a run relies on it.                  *)
LEMMA ParsedText ==
  ASSUME NEW t \in ParsedTexts
  PROVE  /\ Range(FieldsOf(t)) \subseteq Fields
         /\ MaxIterations(t) \in Nat \cup {NoPagination}
         /\ \A search \in BOOLEAN : PageHost(t, search) \in Hosts
<1>1. t \in SourceText /\ Parse(t) /\ Validate(t)
  BY CollectionAssumption DEF ParsedTexts, Parse
<1>2. Range(FieldsOf(t)) \subseteq Fields
  <2>1. CASE t.identity = NoBlock
    BY <2>1 DEF FieldsOf, Range
  <2>2. CASE t.identity # NoBlock
    BY <1>1, <2>2 DEF FieldsOf, Validate, ValidateIdentity
  <2> QED BY <2>1, <2>2
<1>3. MaxIterations(t) \in Nat \cup {NoPagination}
  <2>1. CASE t.pagination = NoBlock
    BY <2>1 DEF MaxIterations
  <2>2. CASE t.pagination # NoBlock
    <3>1. t.pagination.maxIterations \in Int /\ t.pagination.maxIterations > 0
      BY <1>1, <2>2 DEF SourceText, Validate, ValidatePagination
    <3> QED BY <2>2, <3>1 DEF MaxIterations
  <2> QED BY <2>1, <2>2
<1>4. t.baseHost \in Hosts /\ t.searchHost \in Hosts \cup {NoBlock}
  BY <1>1 DEF SourceText, Validate
<1> QED BY <1>2, <1>3, <1>4 DEF PageHost

(* A posting that can be read has a key, or the site gave it none.          *)
LEMMA KeyOfItem ==
  ASSUME NEW t \in ParsedTexts, NEW item \in ItemsOf(t)
  PROVE  LET key == IdentityOf(item.link, item.content, FieldsOf(t), NoKey) IN
         /\ key \in Keys \cup {NoKey}
         /\ key = NoKey => NoIdentity(item, FieldsOf(t))
         /\ item.content \in Contents
<1> DEFINE key == IdentityOf(item.link, item.content, FieldsOf(t), NoKey)
<1>1. /\ item.content \in Contents
      /\ NoIdentity(item, FieldsOf(t)) \/ key \in Keys
  BY ParsedText, ReadingAssumption DEF ParsedTexts
<1>2. ASSUME NoIdentity(item, FieldsOf(t)) PROVE key = NoKey
  BY <1>2 DEF NoIdentity, IdentityOf
<1>3. NoKey \notin Keys
  BY ConstantsAssumption
<1> QED BY <1>1, <1>2, <1>3

(* The page has at most one card more than there are postings, and what is  *)
(* loaded of it is no longer.                                               *)
LEMMA PageIsList ==
  ASSUME NEW s \in Sources, shown[s] \subseteq Postings, NEW search \in BOOLEAN,
         NEW t, NEW whole \in PageOf(s, search), NEW page \in Loaded(t, whole)
  PROVE  page \in Seq(Postings) /\ Len(page) <= MaxCards
<1> DEFINE found == IF search THEN shown[s] \cap Matching ELSE shown[s]
<1>1. /\ IsFiniteSet(found) /\ found \subseteq Postings
      /\ Cardinality(found) \in Nat /\ Cardinality(found) + 1 <= MaxCards
  <2>1. found \subseteq Postings
    OBVIOUS
  <2>2. IsFiniteSet(found) /\ Cardinality(found) <= Cardinality(Postings)
    BY <2>1, CollectionAssumption, FS_Subset
  <2>3. Cardinality(found) \in Nat /\ Cardinality(Postings) \in Nat
    BY <2>2, CollectionAssumption, FS_CardinalityType
  <2> QED BY <2>1, <2>2, <2>3, CollectionAssumption, ConstantsAssumption
<1>2. ASSUME NEW list \in SetToSeqs(found)
      PROVE  list \in Seq(Postings) /\ Len(list) = Cardinality(found)
  <2>1. list \in [1..Cardinality(found) -> found]
    BY DEF SetToSeqs
  <2>2. list \in [1..Cardinality(found) -> Postings]
    BY <1>1, <2>1
  <2> HIDE DEF found
  <2> QED BY <1>1, <2>2
<1>3. whole \in Seq(Postings) /\ Len(whole) <= MaxCards
  <2>1. CASE whole \in SetToSeqs(found)
    <3>1. whole \in Seq(Postings) /\ Len(whole) = Cardinality(found)
      BY <1>2, <2>1
    <3> HIDE DEF found
    <3> QED BY <1>1, <3>1, ConstantsAssumption
  <2>2. ASSUME NEW list \in SetToSeqs(found) \ {<<>>}, whole = list \o <<list[1]>>
        PROVE  whole \in Seq(Postings) /\ Len(whole) <= MaxCards
    <3>1. list \in Seq(Postings) /\ Len(list) = Cardinality(found) /\ list # <<>>
      BY <1>2, <2>2
    <3> HIDE DEF found
    <3>2. list[1] \in Postings
      BY <3>1
    <3> QED BY <1>1, <2>2, <3>1, <3>2, ConstantsAssumption
  <2> QED BY <2>1, <2>2 DEF PageOf
<1>4. CASE page = whole
  BY <1>3, <1>4
<1>5. ASSUME NEW n \in 0..Len(whole), page = SubSeq(whole, 1, n)
      PROVE  page \in Seq(Postings) /\ Len(page) <= MaxCards
  <2>1. page \in Seq(Postings) /\ Len(page) = n
    BY <1>3, <1>5
  <2> QED BY <1>3, <2>1, ConstantsAssumption
<1> QED BY <1>4, <1>5 DEF Loaded

-----------------------------------------------------------------------------
(* The handlers and the store *)

(* What a handler carries, by where it is.                                  *)
LEMMA WorkShapes ==
  ASSUME NEW w \in Works
  PROVE  /\ w.pc \in {"idle", "start", "scrape", "apply", "complete", "fail"}
         /\ w.pc = "start" => w \in Starting
         /\ w.pc = "scrape" => w \in Scraping
         /\ w.pc \in {"apply", "complete"} => w.text \in ParsedTexts /\ w \in Ending(w.text)
         /\ w.pc = "fail" => \/ w \in Failing
                             \/ w.text \in ParsedTexts /\ w \in Ending(w.text)
         /\ w.pc \in {"scrape", "apply", "complete", "fail"} => w.run \in RunIds
<1>1. CASE w = Resting
  BY <1>1 DEF Resting
<1>2. CASE w \in Starting
  BY <1>2 DEF Starting
<1>3. CASE w \in Scraping
  BY <1>3 DEF Scraping
<1>4. CASE w \in Failing
  BY <1>4 DEF Failing
<1>5. ASSUME NEW t \in ParsedTexts, w \in Ending(t)
      PROVE  /\ w.pc \in {"apply", "complete", "fail"} /\ w.run \in RunIds
             /\ w.text = t
  BY <1>5 DEF Ending
<1> QED BY <1>1, <1>2, <1>3, <1>4, <1>5 DEF Works

(* Every card has a key the store knows, or none, and a content it knows.   *)
LEMMA CardsOfItems ==
  ASSUME NEW h \in Handlers, work[h].text \in ParsedTexts, work[h] \in Ending(work[h].text)
  PROVE  /\ CardsOf(h) \in Cards
         /\ DOMAIN CardsOf(h) = DOMAIN work[h].items
         /\ \A i \in DOMAIN CardsOf(h) :
              /\ CardsOf(h)[i].key \in Keys \cup {NoKey}
              /\ CardsOf(h)[i].key = NoKey =>
                   NoIdentity(work[h].items[i], FieldsOf(work[h].text))
<1> DEFINE t == work[h].text
           items == work[h].items
           key(i) == IdentityOf(items[i].link, items[i].content, FieldsOf(t), NoKey)
<1>1. PICK n \in 0..MaxCards : items \in [1..n -> ItemsOf(t)]
  BY DEF Ending, Documents
<1>2. \A i \in 1..n : /\ key(i) \in Keys \cup {NoKey}
                      /\ key(i) = NoKey => NoIdentity(items[i], FieldsOf(t))
                      /\ items[i].content \in Contents
  BY <1>1, KeyOfItem
<1>3. CardsOf(h) = [i \in 1..n |-> [key |-> key(i), content |-> items[i].content]]
  BY <1>1 DEF CardsOf
<1> HIDE DEF key, items, t
<1>4. CardsOf(h) \in [1..n -> Card]
  BY <1>2, <1>3 DEF Card
<1>5. DOMAIN CardsOf(h) = 1..n /\ \A i \in 1..n : CardsOf(h)[i].key = key(i)
  BY <1>3
<1> QED BY <1>1, <1>2, <1>4, <1>5 DEF Cards, items, t

LEMMA NothingIsReported == NoCounts \in CountsGiven
BY ConstantsAssumption DEF NoCounts, CountsGiven

(* Every step of a handler is a step of the store, or leaves it alone.      *)
LEMMA CollectionStoreStep ==
  ASSUME CollectionTypeOK, [CollectionNext]_collectionVars
  PROVE  [ExclusiveNext]_storeVars
<1>1. ASSUME NEW h \in Handlers, Start(h) PROVE [ExclusiveNext]_storeVars
  <2>1. work[h].source \in Sources
    BY <1>1, WorkShapes DEF Start, At, CollectionTypeOK, Starting
  <2> QED BY <1>1, <2>1 DEF Start, ExclusiveNext
<1>2. ASSUME NEW h \in Handlers, Apply(h) PROVE [ExclusiveNext]_storeVars
  <2>1. work[h].run \in RunIds /\ CardsOf(h) \in Cards
    BY <1>2, WorkShapes, CardsOfItems DEF Apply, At, CollectionTypeOK
  <2> QED BY <1>2, <2>1 DEF Apply, ExclusiveNext
<1>3. ASSUME NEW h \in Handlers, Finish(h) \/ Fail(h) PROVE [ExclusiveNext]_storeVars
  <2>1. work[h].run \in RunIds
    BY <1>3, WorkShapes DEF Finish, Fail, At, CollectionTypeOK
  <2>2. \E status \in Terminal, completion \in Completions :
          CompleteRun(work[h].run, status, completion, NoCounts)
    BY <1>3 DEF Finish, Fail, Terminal, Completions
  <2> QED BY <2>1, <2>2, NothingIsReported DEF ExclusiveNext
<1>4. ASSUME NEW s \in Sources, AddSource(s) PROVE [ExclusiveNext]_storeVars
  BY <1>4 DEF AddSource, ExclusiveNext
<1>5. ASSUME NEW h \in Handlers, NEW s \in Sources, NEW narrowed \in BOOLEAN,
             Request(h, s, narrowed)
      PROVE  [ExclusiveNext]_storeVars
  BY <1>5 DEF Request
<1>6. ASSUME NEW h \in Handlers, Scrape(h) PROVE [ExclusiveNext]_storeVars
  BY <1>6 DEF Scrape
<1>7. ASSUME NEW s \in Sources, NEW t \in Texts, Store(s, t) PROVE [ExclusiveNext]_storeVars
  BY <1>7 DEF Store
<1>8. ASSUME NEW s \in Sources, NEW postings \in Sites, SiteChanges(s, postings)
      PROVE  [ExclusiveNext]_storeVars
  BY <1>8 DEF SiteChanges
<1>9. CASE UNCHANGED collectionVars
  BY <1>9 DEF collectionVars
<1> QED BY <1>1, <1>2, <1>3, <1>4, <1>5, <1>6, <1>7, <1>8, <1>9 DEF CollectionNext

-----------------------------------------------------------------------------
(* What a handler carries *)

LEMMA BuildIsPlan ==
  ASSUME NEW limit \in Nat \cup {NoPagination}, NEW n
  PROVE  Build(limit, n) \in Plan
BY RevisitAssumption DEF Build, Plan, Least

(* What a scrape reads is a document of its text.                           *)
LEMMA ScrapedWork ==
  ASSUME CollectionTypeOK, NEW h \in Handlers, Scrape(h)
  PROVE  \/ work' = [work EXCEPT ![h] = [pc |-> "fail", run |-> work[h].run]]
         \/ \E items \in Documents(work[h].text) :
              work' = [work EXCEPT ![h] =
                [pc |-> "apply", source |-> work[h].source, text |-> work[h].text,
                 run |-> work[h].run, plan |-> work[h].plan, items |-> items]]
<1> DEFINE t == work[h].text
           search == work[h].search
<1>1. work[h] \in Scraping
  BY WorkShapes DEF Scrape, At, CollectionTypeOK
<1>2. t \in ParsedTexts /\ search \in BOOLEAN /\ work[h].source \in Sources
  BY <1>1 DEF Scraping
<1>3. shown[work[h].source] \subseteq Postings
  BY <1>2, CollectionAssumption DEF CollectionTypeOK
<1>4. PageHost(t, search) \in Hosts
  BY <1>2, ParsedText
<1>5. ASSUME NEW whole \in PageOf(work[h].source, search), NEW page \in Loaded(t, whole),
             NEW hrefs \in [DOMAIN page -> UNION Range(Hrefs)],
             NEW failures \in Failures(t, page),
             \A i \in DOMAIN page : hrefs[i] \in Hrefs[page[i]]
      PROVE  [i \in DOMAIN page |-> Item(t, page[i], hrefs[i], PageHost(t, search), failures[i])]
               \in Documents(t)
  <2>1. page \in Seq(Postings) /\ Len(page) <= MaxCards
    BY <1>2, <1>3, PageIsList
  <2>2. PICK n \in 0..MaxCards : DOMAIN page = 1..n
    BY <2>1, ConstantsAssumption
  <2>3. \A i \in 1..n : page[i] \in Postings
    BY <2>1, <2>2
  <2>4. \A i \in 1..n : failures[i] \in BOOLEAN
    BY <2>2 DEF Failures
  <2>5. \A i \in 1..n : Item(t, page[i], hrefs[i], PageHost(t, search), failures[i]) \in ItemsOf(t)
    <3> HIDE DEF t, search
    <3> QED BY <1>4, <1>5, <2>2, <2>3, <2>4 DEF ItemsOf
  <2> HIDE DEF t, search
  <2> QED BY <2>2, <2>5 DEF Documents
<1>6. CASE work' = [work EXCEPT ![h] = [pc |-> "fail", run |-> work[h].run]]
  BY <1>6
<1>7. CASE work' # [work EXCEPT ![h] = [pc |-> "fail", run |-> work[h].run]]
  BY <1>5, <1>7 DEF Scrape, Becomes
<1> QED BY <1>6, <1>7

(* The text a handler carries is one that Parse has passed, from the        *)
(* request to the end of the run.                                           *)
LEMMA CollectionTypeStep ==
  ASSUME CollectionTypeOK, [CollectionNext]_collectionVars
  PROVE  CollectionTypeOK'
<1>1. ASSUME NEW h \in Handlers, NEW s \in Sources, NEW narrowed \in BOOLEAN,
             Request(h, s, narrowed)
      PROVE  CollectionTypeOK'
  <2>1. text[s] \in ParsedTexts
    BY <1>1 DEF Request, CollectionTypeOK, ParsedTexts
  <2>2. (narrowed /\ CanSearch(text[s])) \in BOOLEAN
    OBVIOUS
  <2>3. [pc |-> "start", source |-> s, text |-> text[s],
         search |-> narrowed /\ CanSearch(text[s])] \in Works
    BY <2>1, <2>2 DEF Works, Starting
  <2> QED BY <1>1, <2>3 DEF Request, Becomes, CollectionTypeOK
<1>2. ASSUME NEW h \in Handlers, Start(h) PROVE CollectionTypeOK'
  <2>1. work[h] \in Starting
    BY <1>2, WorkShapes DEF Start, At, CollectionTypeOK
  <2>2. \A r \in RunIds :
          [pc |-> "scrape", source |-> work[h].source, text |-> work[h].text,
           search |-> work[h].search, run |-> r,
           plan |-> Build(MaxIterations(work[h].text),
                          CountTerminalNonFailedRuns(work[h].source))] \in Works
    BY <2>1, ParsedText, BuildIsPlan DEF Works, Starting, Scraping
  <2>3. Resting \in Works
    BY DEF Works
  <2> QED BY <1>2, <2>2, <2>3 DEF Start, Becomes, CollectionTypeOK
<1>3. ASSUME NEW h \in Handlers, Scrape(h) PROVE CollectionTypeOK'
  <2>1. work[h] \in Scraping
    BY <1>3, WorkShapes DEF Scrape, At, CollectionTypeOK
  <2>2. [pc |-> "fail", run |-> work[h].run] \in Works
    BY <2>1 DEF Works, Scraping, Failing
  <2>3. \A items \in Documents(work[h].text) :
          [pc |-> "apply", source |-> work[h].source, text |-> work[h].text,
           run |-> work[h].run, plan |-> work[h].plan, items |-> items] \in Works
    BY <2>1 DEF Works, Scraping, Ending
  <2> QED BY <1>3, <2>2, <2>3, ScrapedWork DEF Scrape, CollectionTypeOK
<1>4. ASSUME NEW h \in Handlers, Apply(h) PROVE CollectionTypeOK'
  <2>1. work[h].text \in ParsedTexts /\ work[h] \in Ending(work[h].text)
    BY <1>4, WorkShapes DEF Apply, At, CollectionTypeOK
  <2>2. Goes(h, "complete") \in Works /\ Goes(h, "fail") \in Works
    BY <2>1 DEF Goes, Works, Ending
  <2> QED BY <1>4, <2>2 DEF Apply, Becomes, CollectionTypeOK
<1>5. ASSUME NEW h \in Handlers, Finish(h) \/ Fail(h) PROVE CollectionTypeOK'
  <2>1. Resting \in Works
    BY DEF Works
  <2> QED BY <1>5, <2>1 DEF Finish, Fail, Becomes, CollectionTypeOK
<1>6. ASSUME NEW s \in Sources, NEW t \in Texts, Store(s, t) PROVE CollectionTypeOK'
  BY <1>6 DEF Store, CollectionTypeOK
<1>7. ASSUME NEW s \in Sources, NEW postings \in Sites, SiteChanges(s, postings)
      PROVE  CollectionTypeOK'
  BY <1>7 DEF SiteChanges, CollectionTypeOK
<1>8. ASSUME NEW s \in Sources, AddSource(s) PROVE CollectionTypeOK'
  BY <1>8 DEF AddSource, CollectionTypeOK
<1>9. CASE UNCHANGED collectionVars
  BY <1>9 DEF collectionVars, CollectionTypeOK
<1> QED BY <1>1, <1>2, <1>3, <1>4, <1>5, <1>6, <1>7, <1>8, <1>9 DEF CollectionNext

-----------------------------------------------------------------------------
(* Who has a run *)

(* A run is taken by the handler that opens it and given up when it ends:   *)
(* nobody else ends it, because nobody else has it.                         *)
LEMMA HeldStep ==
  ASSUME CollectionTypeOK, TypeOK, RunsAreHeld, [CollectionNext]_collectionVars
  PROVE  RunsAreHeld'
<1>1. ASSUME NEW h \in Handlers, Start(h) PROVE RunsAreHeld'
  <2>1. ~HasRun(h)
    BY <1>1 DEF Start, At, HasRun
  <2>2. CASE \E r \in RunIds :
               /\ StartExclusiveRun(work[h].source, r)
               /\ work' = [work EXCEPT ![h] =
                    [pc |-> "scrape", source |-> work[h].source, text |-> work[h].text,
                     search |-> work[h].search, run |-> r,
                     plan |-> Build(MaxIterations(work[h].text),
                                    CountTerminalNonFailedRuns(work[h].source))]]
    <3>1. PICK r \in RunIds :
            /\ StartRun(work[h].source, r)
            /\ work'[h].pc = "scrape" /\ work'[h].run = r
            /\ \A g \in Handlers \ {h} : work'[g] = work[g]
      BY <2>2 DEF StartExclusiveRun, CollectionTypeOK
    <3>2. work[h].source \in Sources
      BY <1>1, WorkShapes DEF Start, At, CollectionTypeOK, Starting
    <3>3. /\ runs[r] = NoRow /\ runs'[r] # NoRow /\ runs'[r].status = "running"
          /\ \A q \in RunIds \ {r} : runs'[q] = runs[q]
      BY <3>1, <3>2, OpenedRunRow
    <3>4. \A g \in Handlers \ {h} : HasRun(g) => work[g].run # r /\ work[g].run \in RunIds
      BY <3>3, WorkShapes DEF RunsAreHeld, RunIs, HasRun, CollectionTypeOK
    <3> QED BY <3>1, <3>3, <3>4 DEF RunsAreHeld, RunIs, HasRun
  <2>3. CASE work' = [work EXCEPT ![h] = Resting] /\ UNCHANGED storeVars
    <3>1. work'[h].pc = "idle" /\ \A g \in Handlers \ {h} : work'[g] = work[g]
      BY <2>3 DEF CollectionTypeOK, Resting
    <3> QED BY <2>3, <3>1 DEF RunsAreHeld, RunIs, HasRun, storeVars
  <2> QED BY <1>1, <2>2, <2>3 DEF Start, Becomes
<1>2. ASSUME NEW h \in Handlers, Scrape(h) PROVE RunsAreHeld'
  <2>1. HasRun(h)
    BY <1>2 DEF Scrape, At, HasRun
  <2>2. work'[h].run = work[h].run /\ \A g \in Handlers \ {h} : work'[g] = work[g]
    BY <1>2, ScrapedWork DEF CollectionTypeOK
  <2> QED BY <1>2, <2>1, <2>2 DEF RunsAreHeld, RunIs, HasRun, Scrape, storeVars
<1>3. ASSUME NEW h \in Handlers, Apply(h) PROVE RunsAreHeld'
  <2>1. HasRun(h) /\ UNCHANGED runs
    BY <1>3 DEF Apply, At, HasRun, ApplyObservedVacancies, storeVars
  <2>2. work[h] \in Ending(work[h].text)
    BY <1>3, WorkShapes DEF Apply, At, CollectionTypeOK
  <2>3. work'[h].run = work[h].run /\ \A g \in Handlers \ {h} : work'[g] = work[g]
    BY <1>3, <2>2 DEF Apply, Becomes, Goes, CollectionTypeOK, Ending
  <2> QED BY <2>1, <2>3 DEF RunsAreHeld, RunIs, HasRun
<1>4. ASSUME NEW h \in Handlers, Finish(h) \/ Fail(h) PROVE RunsAreHeld'
  <2>1. HasRun(h) /\ work[h].run \in RunIds
    BY <1>4, WorkShapes DEF Finish, Fail, At, HasRun, CollectionTypeOK
  <2>2. \A q \in RunIds \ {work[h].run} : runs'[q] = runs[q]
    BY <1>4, <2>1 DEF Finish, Fail, CompleteRun, TypeOK
  <2>3. work'[h].pc = "idle" /\ \A g \in Handlers \ {h} : work'[g] = work[g]
    BY <1>4 DEF Finish, Fail, Becomes, Resting, CollectionTypeOK
  <2>4. \A g \in Handlers \ {h} : HasRun(g) => work[g].run \in RunIds /\ work[g].run # work[h].run
    BY <2>1, WorkShapes DEF RunsAreHeld, HasRun, CollectionTypeOK
  <2> QED BY <2>2, <2>3, <2>4 DEF RunsAreHeld, RunIs, HasRun
<1>5. ASSUME NEW h \in Handlers, NEW s \in Sources, NEW narrowed \in BOOLEAN,
             Request(h, s, narrowed)
      PROVE  RunsAreHeld'
  <2>1. work'[h].pc = "start" /\ \A g \in Handlers \ {h} : work'[g] = work[g]
    BY <1>5 DEF Request, Becomes, CollectionTypeOK
  <2> QED BY <1>5, <2>1 DEF RunsAreHeld, RunIs, HasRun, Request, storeVars
<1>6. CASE UNCHANGED <<work, runs>>
  BY <1>6 DEF RunsAreHeld, RunIs, HasRun
<1> QED BY <1>1, <1>2, <1>3, <1>4, <1>5, <1>6
        DEF CollectionNext, Store, SiteChanges, AddSource, CreateSource, collectionVars, storeVars

(* Only a run's own handler writes its records, when it applies them or     *)
(* ends the run.                                                            *)
LEMMA UnrecordedStep ==
  ASSUME CollectionTypeOK, TypeOK, RunsAreHeld, RecordsAreOfTheSource, NothingRecordedEarly,
         [CollectionNext]_collectionVars
  PROVE  NothingRecordedEarly'
<1> DEFINE Early(h) == work[h].pc \in {"scrape", "apply"}
<1>1. ASSUME NEW h \in Handlers, Start(h) PROVE NothingRecordedEarly'
  <2>1. UNCHANGED composition /\ \A g \in Handlers \ {h} : work'[g] = work[g]
    BY <1>1 DEF Start, StartExclusiveRun, StartRun, storeVars, Becomes, CollectionTypeOK
  <2>2. work'[h].pc = "idle" \/ /\ work'[h].run \in RunIds /\ runs[work'[h].run] = NoRow
    BY <1>1 DEF Start, StartExclusiveRun, StartRun, Becomes, CollectionTypeOK, Resting
  <2> QED BY <2>1, <2>2 DEF NothingRecordedEarly, RecordsAreOfTheSource
<1>2. ASSUME NEW h \in Handlers, Scrape(h) PROVE NothingRecordedEarly'
  <2>1. work'[h].run = work[h].run /\ \A g \in Handlers \ {h} : work'[g] = work[g]
    BY <1>2, ScrapedWork DEF CollectionTypeOK
  <2>2. Early(h)
    BY <1>2 DEF Scrape, At
  <2> QED BY <1>2, <2>1, <2>2 DEF NothingRecordedEarly, Scrape, storeVars
<1>3. ASSUME NEW h \in Handlers, Apply(h) \/ Finish(h) \/ Fail(h) PROVE NothingRecordedEarly'
  <2>1. work'[h].pc \notin {"scrape", "apply"} /\ \A g \in Handlers \ {h} : work'[g] = work[g]
    <3>1. CASE Apply(h)
      <4>1. work[h] \in Ending(work[h].text)
        BY <3>1, WorkShapes DEF Apply, At, CollectionTypeOK
      <4> QED BY <3>1, <4>1 DEF Apply, Becomes, Goes, CollectionTypeOK, Ending
    <3>2. CASE Finish(h) \/ Fail(h)
      BY <3>2 DEF Finish, Fail, Becomes, Resting, CollectionTypeOK
    <3> QED BY <1>3, <3>1, <3>2
  <2>2. HasRun(h) /\ work[h].run \in RunIds
    BY <1>3, WorkShapes DEF Apply, Finish, Fail, At, HasRun, CollectionTypeOK
  <2>3. \A q \in RunIds \ {work[h].run} : composition'[q] = composition[q]
    BY <1>3, <2>2
       DEF Apply, Finish, Fail, ApplyObservedVacancies, CompleteRun, storeVars, TypeOK
  <2>4. \A g \in Handlers \ {h} : Early(g) => work[g].run \in RunIds \ {work[h].run}
    BY <2>2, WorkShapes DEF RunsAreHeld, HasRun, CollectionTypeOK
  <2> QED BY <2>1, <2>3, <2>4 DEF NothingRecordedEarly
<1>4. ASSUME NEW h \in Handlers, NEW s \in Sources, NEW narrowed \in BOOLEAN,
             Request(h, s, narrowed)
      PROVE  NothingRecordedEarly'
  <2>1. work'[h].pc = "start" /\ \A g \in Handlers \ {h} : work'[g] = work[g]
    BY <1>4 DEF Request, Becomes, CollectionTypeOK
  <2> QED BY <1>4, <2>1 DEF NothingRecordedEarly, Request, storeVars
<1>5. CASE UNCHANGED <<work, composition>>
  BY <1>5 DEF NothingRecordedEarly
<1> QED BY <1>1, <1>2, <1>3, <1>4, <1>5
        DEF CollectionNext, Store, SiteChanges, AddSource, CreateSource, collectionVars, storeVars

-----------------------------------------------------------------------------
(* Why observations are refused *)

(* A handler that has a run of its own with nothing on record can be        *)
(* refused for a card without a key only.                                   *)
LEMMA RefusedCard ==
  ASSUME CollectionTypeOK, TypeOK, RunsAreHeld, NothingRecordedEarly,
         NEW h \in Handlers, At(h, "apply"), ~ApplyAccepts(work[h].run, CardsOf(h))
  PROVE  \E i \in DOMAIN work[h].items : NoIdentity(work[h].items[i], FieldsOf(work[h].text))
<1> DEFINE r == work[h].run
           cards == CardsOf(h)
<1>1. work[h].text \in ParsedTexts /\ work[h] \in Ending(work[h].text) /\ r \in RunIds
  BY WorkShapes DEF At, CollectionTypeOK
<1>2. RunIs(r, "running") /\ runs[r].source \in Sources
  BY <1>1, RowShapes DEF RunsAreHeld, HasRun, At, RunIs, RunRow
<1>3. \A v \in Vacancies : composition[r][v] = "none"
  BY DEF NothingRecordedEarly, At
<1>4. /\ DOMAIN cards = DOMAIN work[h].items
      /\ \A i \in DOMAIN cards :
           /\ cards[i].key \in Keys \cup {NoKey}
           /\ cards[i].key = NoKey => NoIdentity(work[h].items[i], FieldsOf(work[h].text))
  BY <1>1, CardsOfItems
<1> HIDE DEF cards, r
<1>5. ASSUME \A i \in DOMAIN cards : cards[i].key # NoKey
      PROVE  \A v \in Observed(r, cards) : composition[r][v] = "none"
  <2>1. \A i \in Firsts(cards) : cards[i].key \in Keys
    BY <1>4, <1>5 DEF Firsts
  <2>2. Observed(r, cards) \subseteq Vacancies
    BY <1>2, <2>1 DEF Observed, Vacancies
  <2> QED BY <1>3, <2>2
<1>6. ~ApplyAccepts(r, cards)
  BY DEF r, cards
<1> QED BY <1>2, <1>4, <1>5, <1>6 DEF ApplyAccepts

LEMMA RefusedStep ==
  ASSUME CollectionTypeOK, TypeOK, RunsAreHeld, NothingRecordedEarly, RefusedForDataOnly,
         [CollectionNext]_collectionVars
  PROVE  RefusedForDataOnly'
<1> DEFINE Refused(w) == w.pc = "fail" /\ "items" \in DOMAIN w
           Fits(w) == Refused(w) =>
             \E i \in DOMAIN w.items : NoIdentity(w.items[i], FieldsOf(w.text))
<1>1. \A g \in Handlers : Fits(work[g])
  BY DEF RefusedForDataOnly, At
<1>2. ASSUME NEW h \in Handlers,
             \/ Start(h) \/ Finish(h) \/ Fail(h)
             \/ \E s \in Sources, narrowed \in BOOLEAN : Request(h, s, narrowed)
      PROVE  /\ work'[h].pc \in {"idle", "start", "scrape"}
             /\ \A g \in Handlers \ {h} : work'[g] = work[g]
  BY <1>2 DEF Start, Finish, Fail, Request, Becomes, Resting, CollectionTypeOK
<1>3. ASSUME NEW h \in Handlers, Scrape(h)
      PROVE  ~Refused(work'[h]) /\ \A g \in Handlers \ {h} : work'[g] = work[g]
  BY <1>3, ScrapedWork DEF CollectionTypeOK
<1>4. ASSUME NEW h \in Handlers, Apply(h)
      PROVE  Fits(work'[h]) /\ \A g \in Handlers \ {h} : work'[g] = work[g]
  <2>1. work[h] \in Ending(work[h].text)
    BY <1>4, WorkShapes DEF Apply, At, CollectionTypeOK
  <2>2. CASE work' = [work EXCEPT ![h] = Goes(h, "complete")]
    <3>1. work'[h].pc = "complete" /\ \A g \in Handlers \ {h} : work'[g] = work[g]
      BY <2>1, <2>2 DEF Goes, CollectionTypeOK, Ending
    <3> QED BY <3>1
  <2>3. CASE ~ApplyAccepts(work[h].run, CardsOf(h))
             /\ work' = [work EXCEPT ![h] = Goes(h, "fail")]
    <3>1. /\ work'[h].items = work[h].items /\ work'[h].text = work[h].text
          /\ \A g \in Handlers \ {h} : work'[g] = work[g]
      BY <2>1, <2>3 DEF Goes, CollectionTypeOK, Ending
    <3>2. \E i \in DOMAIN work[h].items :
            NoIdentity(work[h].items[i], FieldsOf(work[h].text))
      BY <1>4, <2>3, RefusedCard DEF Apply
    <3> QED BY <3>1, <3>2
  <2> QED BY <1>4, <2>2, <2>3 DEF Apply, Becomes
<1>5. CASE UNCHANGED work
  BY <1>1, <1>5 DEF RefusedForDataOnly, At
<1>6. ASSUME NEW h \in Handlers, Fits(work'[h]), \A g \in Handlers \ {h} : work'[g] = work[g]
      PROVE  RefusedForDataOnly'
  <2>1. \A g \in Handlers : Fits(work'[g])
    BY <1>1, <1>6
  <2> QED BY <2>1 DEF RefusedForDataOnly, At
<1>7. ASSUME NEW h \in Handlers, work'[h].pc \in {"idle", "start", "scrape"}
      PROVE  Fits(work'[h])
  BY <1>7
<1>8. ASSUME NEW h \in Handlers, ~Refused(work'[h]) PROVE Fits(work'[h])
  BY <1>8
<1> HIDE DEF Fits, Refused
<1> QED BY <1>2, <1>3, <1>4, <1>5, <1>6, <1>7, <1>8
        DEF CollectionNext, Store, SiteChanges, AddSource, collectionVars

-----------------------------------------------------------------------------
(* The theorems *)

(* The runs of a source use the store as the server may: every step of a    *)
(* collection is a step of ExclusiveSpec, or leaves the store as it is.     *)
THEOREM CollectionImplementsStore ==
  CollectionSpec => ExclusiveSpec /\ []CollectionTypeOK
<1>1. CollectionInit => Init /\ CollectionTypeOK
  BY DEF CollectionInit, CollectionTypeOK, Works
<1>2. CollectionTypeOK /\ [CollectionNext]_collectionVars =>
        CollectionTypeOK' /\ [ExclusiveNext]_storeVars
  BY CollectionTypeStep, CollectionStoreStep
<1> QED BY <1>1, <1>2, PTL DEF CollectionSpec, ExclusiveSpec

(* With any texts, sites, failing detail pages and texts replaced while a   *)
(* run goes on: the observations of a run are refused only because the site *)
(* showed a posting that has no identity by the text the run began with.    *)
THEOREM OnlyDataIsRefused == CollectionSpec => []RefusedForDataOnly
<1> DEFINE Inv == RunsAreHeld /\ NothingRecordedEarly /\ RefusedForDataOnly
<1>1. CollectionInit => Inv
  BY DEF CollectionInit, RunsAreHeld, HasRun, NothingRecordedEarly, RefusedForDataOnly, At, Resting
<1>2. CollectionTypeOK /\ TypeOK /\ RecordsAreOfTheSource /\ Inv
        /\ [CollectionNext]_collectionVars => Inv'
  BY HeldStep, UnrecordedStep, RefusedStep
<1>3. CollectionSpec => []CollectionTypeOK /\ [](TypeOK /\ RecordsAreOfTheSource)
  <2>1. ExclusiveSpec => Spec
    BY ExclusiveIsNext, PTL DEF ExclusiveSpec, Spec
  <2> QED BY <2>1, CollectionImplementsStore, TypeCorrect, RecordsHaveTheirSource, PTL
<1> QED BY <1>1, <1>2, <1>3, PTL DEF CollectionSpec

(* So what the store promises of archival holds of the collections: a       *)
(* complete success leaves active only what its run has seen.               *)
THEOREM CollectionsAreThorough ==
  CollectionSpec => CompleteSuccessLeavesOnlySeen /\ []RunOwnsItsRows
<1>1. ExclusiveSpec => Spec
  BY ExclusiveIsNext, PTL DEF ExclusiveSpec, Spec
<1> QED BY <1>1, CollectionImplementsStore, CompleteSuccessIsThorough, ActiveRowsStayOwned, PTL

-----------------------------------------------------------------------------
(* Canonical links *)

Queries(values) == Seq(ToSet(ParamNames) \X values)

(* The parameters up to one of those that are kept, in the order of Encode. *)
UpTo(query, kept, j) == {i \in kept : i = j \/ Before(query, i, j)}

(* The kept parameters are finitely many, and their names can be compared.  *)
LEMMA KeptIsFinite ==
  ASSUME NEW values, NEW q \in Queries(values)
  PROVE  /\ IsFiniteSet(Kept(q)) /\ Cardinality(Kept(q)) \in Nat
         /\ \A i \in Kept(q) : i \in Nat /\ NameOrder(q[i][1]) \in Nat
         /\ \A i, j \in Kept(q) :
              NameOrder(q[i][1]) = NameOrder(q[j][1]) => q[i][1] = q[j][1]
<1>1. Kept(q) \in SUBSET (1..Len(q)) /\ Len(q) \in Nat
  BY DEF Kept, Queries
<1>2. IsFiniteSet(Kept(q)) /\ Cardinality(Kept(q)) \in Nat
  <2>1. IsFiniteSet(1..Len(q))
    BY <1>1, FS_Interval
  <2>2. IsFiniteSet(Kept(q))
    BY <1>1, <2>1, FS_Subset
  <2> QED BY <2>2, FS_CardinalityType
<1>3. ASSUME NEW i \in Kept(q)
      PROVE  /\ i \in Nat /\ NameOrder(q[i][1]) \in DOMAIN ParamNames
             /\ ParamNames[NameOrder(q[i][1])] = q[i][1]
  <2>1. q[i] \in ToSet(ParamNames) \X values
    BY <1>1 DEF Queries
  <2>2. \E n \in DOMAIN ParamNames : ParamNames[n] = q[i][1]
    BY <2>1 DEF ToSet
  <2> QED BY <1>1, <2>2 DEF NameOrder
<1>4. DOMAIN ParamNames \subseteq Nat
  BY NamesAssumption
<1> QED BY <1>2, <1>3, <1>4

(* They are in one order.                                                   *)
LEMMA BeforeIsOrder ==
  ASSUME NEW values, NEW q \in Queries(values),
         NEW i \in Kept(q), NEW j \in Kept(q), NEW k \in Kept(q)
  PROVE  /\ ~Before(q, i, i)
         /\ Before(q, i, j) /\ Before(q, j, k) => Before(q, i, k)
         /\ i # j => Before(q, i, j) \/ Before(q, j, i)
BY KeptIsFinite DEF Before

(* So their places go up with that order                                    *)
LEMMA PlacesAreOrdered ==
  ASSUME NEW values, NEW q \in Queries(values), NEW i \in Kept(q), NEW j \in Kept(q)
  PROVE  /\ Place(q, Kept(q), i) \in 1..Cardinality(Kept(q))
         /\ Before(q, i, j) => Place(q, Kept(q), i) < Place(q, Kept(q), j)
<1> DEFINE kept == Kept(q)
           upTo(k) == UpTo(q, kept, k)
<1>1. ASSUME NEW k \in kept
      PROVE  /\ IsFiniteSet(upTo(k)) /\ k \in upTo(k)
             /\ Place(q, kept, k) = Cardinality(upTo(k))
             /\ Place(q, kept, k) \in 1..Cardinality(kept)
  <2>1. upTo(k) \in SUBSET kept /\ k \in upTo(k) /\ Place(q, kept, k) = Cardinality(upTo(k))
    BY DEF UpTo, Place
  <2>2. /\ IsFiniteSet(upTo(k)) /\ Cardinality(upTo(k)) <= Cardinality(kept)
        /\ Cardinality(upTo(k)) \in Nat
    BY <2>1, KeptIsFinite, FS_Subset, FS_CardinalityType
  <2>3. Cardinality(upTo(k)) # 0
    BY <2>1, <2>2, FS_EmptySet
  <2> HIDE DEF upTo, kept
  <2> QED BY <2>1, <2>2, <2>3, KeptIsFinite DEF kept
<1>2. ASSUME Before(q, i, j)
      PROVE  Cardinality(upTo(i)) < Cardinality(upTo(j))
  <2>1. upTo(i) \in SUBSET upTo(j)
    BY <1>2, BeforeIsOrder DEF UpTo
  <2>2. j \in upTo(j) /\ j \notin upTo(i)
    BY <1>2, BeforeIsOrder DEF UpTo
  <2>3. IsFiniteSet(upTo(j)) /\ IsFiniteSet(upTo(i))
    BY <1>1
  <2> HIDE DEF upTo
  <2>4. /\ Cardinality(upTo(i)) <= Cardinality(upTo(j))
        /\ Cardinality(upTo(i)) # Cardinality(upTo(j))
    BY <2>1, <2>2, <2>3, FS_Subset
  <2> QED BY <2>3, <2>4, FS_CardinalityType
<1> HIDE DEF upTo
<1> QED BY <1>1, <1>2

(* and are the numbers up to how many there are.                            *)
LEMMA PlacesAreTaken ==
  ASSUME NEW values, NEW q \in Queries(values)
  PROVE  /\ \A i, j \in Kept(q) : Place(q, Kept(q), i) = Place(q, Kept(q), j) => i = j
         /\ \A n \in 1..Cardinality(Kept(q)) : \E j \in Kept(q) : Place(q, Kept(q), j) = n
<1> DEFINE kept == Kept(q)
           f == [j \in kept |-> Place(q, kept, j)]
           places == 1..Cardinality(kept)
<1>1. \A i, j \in kept : Place(q, kept, i) = Place(q, kept, j) => i = j
  <2> SUFFICES ASSUME NEW i \in kept, NEW j \in kept, i # j
               PROVE  Place(q, kept, i) # Place(q, kept, j)
    OBVIOUS
  <2>1. Place(q, kept, i) < Place(q, kept, j) \/ Place(q, kept, j) < Place(q, kept, i)
    BY BeforeIsOrder, PlacesAreOrdered
  <2>2. Place(q, kept, i) \in Nat /\ Place(q, kept, j) \in Nat
    BY PlacesAreOrdered
  <2> QED BY <2>1, <2>2
<1>2. f \in Injection(kept, places)
  BY <1>1, PlacesAreOrdered DEF Injection, IsInjective
<1>3. Cardinality(kept) \in Nat
  BY KeptIsFinite
<1>4. IsFiniteSet(places) /\ Cardinality(places) = Cardinality(kept)
  BY <1>3, FS_Interval
<1> HIDE DEF places
<1>5. f \in Surjection(kept, places)
  BY <1>2, <1>4, FS_Injection
<1>6. \A n \in places : \E j \in kept : f[j] = n
  BY <1>5 DEF Surjection
<1>7. \A n \in places : \E j \in kept : Place(q, kept, j) = n
  BY <1>6
<1> QED BY <1>1, <1>7 DEF places

(* Encode puts each of them at its place.                                   *)
LEMMA EncodePlaces ==
  ASSUME NEW values, NEW q \in Queries(values), NEW j \in Kept(q)
  PROVE  Encode(q, Kept(q))[Place(q, Kept(q), j)] = q[j]
<1>1. Place(q, Kept(q), j) \in 1..Cardinality(Kept(q))
  BY PlacesAreOrdered
<1>2. (CHOOSE i \in Kept(q) : Place(q, Kept(q), i) = Place(q, Kept(q), j)) = j
  BY PlacesAreTaken
<1> QED BY <1>1, <1>2 DEF Encode

(* The parameters that are kept of two queries, matched.                    *)
Matches(f, q, r) ==
  /\ f \in Bijection(Kept(q), Kept(r))
  /\ \A i \in Kept(q) : r[f[i]] = q[i]
  /\ \A i, k \in Kept(q) : q[i][1] = q[k][1] /\ i < k => f[i] < f[k]

(* Queries that match are encoded alike.                                    *)
LEMMA MatchesEncodeAlike ==
  ASSUME NEW values, NEW q \in Queries(values), NEW r \in Queries(values),
         NEW f, Matches(f, q, r)
  PROVE  Encode(q, Kept(q)) = Encode(r, Kept(r))
<1>1. /\ f \in [Kept(q) -> Kept(r)]
      /\ \A i, k \in Kept(q) : f[i] = f[k] => i = k
      /\ \A j \in Kept(r) : \E i \in Kept(q) : f[i] = j
  BY DEF Matches, Bijection, Injection, IsInjective, Surjection
<1>2. Cardinality(Kept(r)) = Cardinality(Kept(q))
  BY KeptIsFinite, FS_Bijection DEF Matches, ExistsBijection
<1>3. ASSUME NEW i \in Kept(q), NEW k \in Kept(q)
      PROVE  Before(q, i, k) <=> Before(r, f[i], f[k])
  <2>1. i \in Nat /\ k \in Nat /\ f[i] \in Nat /\ f[k] \in Nat
    BY <1>1, KeptIsFinite
  <2>2. r[f[i]] = q[i] /\ r[f[k]] = q[k]
    BY DEF Matches
  <2>3. q[i][1] = q[k][1] => (i < k <=> f[i] < f[k])
    <3>1. /\ q[i][1] = q[k][1] /\ i < k => f[i] < f[k]
          /\ q[k][1] = q[i][1] /\ k < i => f[k] < f[i]
      BY DEF Matches
    <3> QED BY <2>1, <3>1
  <2> QED BY <2>2, <2>3 DEF Before
<1>4. ASSUME NEW i \in Kept(q)
      PROVE  Place(r, Kept(r), f[i]) = Place(q, Kept(q), i)
  <2> DEFINE there == UpTo(q, Kept(q), i)
             here == UpTo(r, Kept(r), f[i])
             g == [k \in there |-> f[k]]
  <2>1. \A k \in there : f[k] \in here
    BY <1>1, <1>3 DEF UpTo
  <2>2. \A j \in here : \E k \in there : f[k] = j
    BY <1>1, <1>3 DEF UpTo
  <2>3. there \in SUBSET Kept(q)
    BY DEF UpTo
  <2>4. Place(q, Kept(q), i) = Cardinality(there) /\ Place(r, Kept(r), f[i]) = Cardinality(here)
    BY DEF Place, UpTo
  <2> HIDE DEF there, here
  <2>5. g \in Bijection(there, here)
    BY <1>1, <2>1, <2>2, <2>3 DEF Bijection, Injection, IsInjective, Surjection
  <2>6. IsFiniteSet(there)
    BY <2>3, KeptIsFinite, FS_Subset
  <2>7. Cardinality(here) = Cardinality(there)
    BY <2>5, <2>6, FS_Bijection DEF ExistsBijection
  <2> QED BY <2>4, <2>7
<1>5. ASSUME NEW n \in 1..Cardinality(Kept(q))
      PROVE  Encode(q, Kept(q))[n] = Encode(r, Kept(r))[n]
  <2>1. PICK i \in Kept(q) : Place(q, Kept(q), i) = n
    BY PlacesAreTaken
  <2>2. Encode(q, Kept(q))[n] = q[i]
    BY <2>1, EncodePlaces
  <2>3. f[i] \in Kept(r) /\ Place(r, Kept(r), f[i]) = n
    BY <1>1, <1>4, <2>1
  <2>4. Encode(r, Kept(r))[n] = r[f[i]]
    BY <2>3, EncodePlaces
  <2> QED BY <2>2, <2>4 DEF Matches
<1> QED BY <1>2, <1>5 DEF Encode

(* Queries that are encoded alike match, place by place.                    *)
LEMMA EncodedAlikeMatch ==
  ASSUME NEW values, NEW q \in Queries(values), NEW r \in Queries(values),
         Encode(q, Kept(q)) = Encode(r, Kept(r))
  PROVE  \E f : Matches(f, q, r)
<1> DEFINE Same(j, k) == Place(r, Kept(r), k) = Place(q, Kept(q), j)
           f == [j \in Kept(q) |-> CHOOSE k \in Kept(r) : Same(j, k)]
<1>1. Cardinality(Kept(q)) = Cardinality(Kept(r))
  <2>1. 1..Cardinality(Kept(q)) = 1..Cardinality(Kept(r))
    BY DEF Encode
  <2>2. Cardinality(Kept(q)) \in Nat /\ Cardinality(Kept(r)) \in Nat
    BY KeptIsFinite
  <2> QED BY <2>1, <2>2
<1>2. ASSUME NEW j \in Kept(q) PROVE f[j] \in Kept(r) /\ Same(j, f[j])
  <2>1. \E k \in Kept(r) : Same(j, k)
    BY <1>1, PlacesAreOrdered, PlacesAreTaken
  <2> QED BY <2>1
<1> HIDE DEF f
<1>3. f \in [Kept(q) -> Kept(r)]
  BY <1>2 DEF f
<1>4. ASSUME NEW i \in Kept(q), NEW k \in Kept(q), f[i] = f[k] PROVE i = k
  BY <1>2, <1>4, PlacesAreTaken
<1>5. ASSUME NEW k \in Kept(r) PROVE \E j \in Kept(q) : f[j] = k
  <2>1. PICK j \in Kept(q) : Place(q, Kept(q), j) = Place(r, Kept(r), k)
    BY <1>1, PlacesAreOrdered, PlacesAreTaken
  <2>2. f[j] = k
    BY <1>2, <2>1, PlacesAreTaken
  <2> QED BY <2>2
<1>6. ASSUME NEW i \in Kept(q) PROVE r[f[i]] = q[i]
  BY <1>2, EncodePlaces
<1>7. ASSUME NEW i \in Kept(q), NEW k \in Kept(q), q[i][1] = q[k][1], i < k
      PROVE  f[i] < f[k]
  <2>1. Place(q, Kept(q), i) < Place(q, Kept(q), k)
    BY <1>7, PlacesAreOrdered DEF Before
  <2>2. Place(r, Kept(r), f[i]) < Place(r, Kept(r), f[k])
    BY <1>2, <2>1
  <2>3. /\ f[i] \in Kept(r) /\ f[k] \in Kept(r) /\ f[i] # f[k]
        /\ Place(r, Kept(r), f[i]) \in Nat /\ Place(r, Kept(r), f[k]) \in Nat
    BY <1>2, <1>4, <1>7, PlacesAreOrdered, KeptIsFinite
  <2>4. ~Before(r, f[k], f[i])
    BY <2>2, <2>3, PlacesAreOrdered
  <2>5. Before(r, f[i], f[k])
    BY <2>3, <2>4, BeforeIsOrder
  <2>6. r[f[i]][1] = r[f[k]][1]
    BY <1>6, <1>7
  <2> QED BY <2>3, <2>5, <2>6, KeptIsFinite DEF Before
<1>8. f \in Bijection(Kept(q), Kept(r))
  BY <1>3, <1>4, <1>5 DEF Bijection, Injection, IsInjective, Surjection
<1>9. Matches(f, q, r)
  BY <1>6, <1>7, <1>8 DEF Matches
<1> QED BY <1>9

(* CanonicalizeLink does what it is for: two links have one canonical form  *)
(* exactly when they lead to one place, whatever decorates them and in      *)
(* whatever order the names of their parameters come.                       *)
THEOREM CanonicalLinksAgree ==
  ASSUME NEW hosts, NEW paths, NEW values,
         NEW a \in Link(hosts, paths, values), NEW b \in Link(hosts, paths, values)
  PROVE  CanonicalizeLink(a) = CanonicalizeLink(b) <=> SameTarget(a, b)
<1>1. a.query \in Queries(values) /\ b.query \in Queries(values)
  BY DEF Link, Queries
<1>2. \A q : Telling(q) = Kept(q)
  BY DEF Telling, Kept, Tracking, Decorations
<1>3. SameTarget(a, b) <=>
        /\ a.host = b.host /\ a.path = b.path /\ \E f : Matches(f, a.query, b.query)
  BY <1>2 DEF SameTarget, Matches
<1>4. CanonicalizeLink(a) = CanonicalizeLink(b) <=>
        /\ a.host = b.host /\ a.path = b.path
        /\ Encode(a.query, Kept(a.query)) = Encode(b.query, Kept(b.query))
  BY DEF CanonicalizeLink, Link
<1> QED BY <1>1, <1>3, <1>4, MatchesEncodeAlike, EncodedAlikeMatch

(* A link that is resolved is still a link.                                 *)
LEMMA ResolvedLink ==
  ASSUME NEW p \in Postings, NEW href \in Hrefs[p], NEW host \in Hosts
  PROVE  ResolveReference(href, host)
           \in Link(Hosts \cup {NoHost, BaseHost}, STRING, Nat)
<1>1. href \in Link(Hosts \cup {NoHost, BaseHost}, STRING, Nat)
  BY CollectionAssumption
<1>2. [href EXCEPT !.host = host] \in Link(Hosts \cup {NoHost, BaseHost}, STRING, Nat)
  BY <1>1 DEF Link
<1> QED BY <1>1, <1>2 DEF ResolveReference

(* The links a posting may be stored under, by the hosts it was read from.  *)
LinkKeys(p) ==
  {<<"link", CanonicalizeLink(ResolveReference(href, host))>> : href \in Hrefs[p], host \in Hosts}

(* One key is of one posting, and those of one posting and one host are one.*)
LinksTellPostingsApart ==
  \A p, q \in Postings : \A a \in LinkKeys(p), b \in LinkKeys(q) :
    /\ a = b => p = q
    /\ p = q /\ a[2].host = b[2].host => a = b

(* That follows from where the links of the site lead (SiteAssumption).     *)
LEMMA LinksTellThemApart == LinksTellPostingsApart
<1> SUFFICES ASSUME NEW p \in Postings, NEW q \in Postings,
                    NEW href \in Hrefs[p], NEW ref \in Hrefs[q],
                    NEW host \in Hosts, NEW other \in Hosts
             PROVE  LET l == ResolveReference(href, host)  m == ResolveReference(ref, other)
                    IN /\ CanonicalizeLink(l) = CanonicalizeLink(m) => p = q
                       /\ p = q /\ CanonicalizeLink(l).host = CanonicalizeLink(m).host
                            => CanonicalizeLink(l) = CanonicalizeLink(m)
  BY DEF LinksTellPostingsApart, LinkKeys
<1> DEFINE l == ResolveReference(href, host)
           m == ResolveReference(ref, other)
<1>1. l.host = m.host => (p = q <=> SameTarget(l, m))
  BY SiteAssumption
<1>2. PICK hosts : /\ l \in Link(hosts, STRING, Nat)
                   /\ m \in Link(hosts, STRING, Nat)
  BY ResolvedLink
<1> HIDE DEF l, m
<1>3. CanonicalizeLink(l) = CanonicalizeLink(m) <=> SameTarget(l, m)
  BY <1>2, CanonicalLinksAgree
<1>4. CanonicalizeLink(l).host = l.host /\ CanonicalizeLink(m).host = m.host
  BY <1>2 DEF CanonicalizeLink, Link
<1>5. SameTarget(l, m) => l.host = m.host
  BY DEF SameTarget
<1> QED BY <1>1, <1>3, <1>4, <1>5 DEF l, m

-----------------------------------------------------------------------------
(* Links and postings *)

(* What is on record was sighted under one of the links of its posting.     *)
SightedAreLinks == \A seen \in sighted : seen[2] \in Postings /\ seen[1] \in LinkKeys(seen[2])

(* Observations are stored under a canonical link of the posting they show, *)
(* whichever text the run began with.                                       *)
LEMMA SightedStep ==
  ASSUME CollectionTypeOK, SightedAreLinks, [CollectionNext]_collectionVars
  PROVE  SightedAreLinks'
<1>1. ASSUME NEW h \in Handlers, Apply(h), sighted' # sighted
      PROVE  SightedAreLinks'
  <2> DEFINE t == work[h].text
             items == work[h].items
             cards == CardsOf(h)
  <2>1. t \in ParsedTexts /\ work[h] \in Ending(t)
    BY <1>1, WorkShapes DEF Apply, At, CollectionTypeOK
  <2>2. /\ \A i \in DOMAIN cards : cards[i].key # NoKey
        /\ sighted' = sighted \cup {<<cards[i].key, items[i].posting>> :
                                      i \in {j \in DOMAIN cards : cards[j].key[1] = "link"}}
    BY <1>1 DEF Apply, ApplyObservedVacancies, ApplyAccepts
  <2>3. ASSUME NEW i \in DOMAIN cards, cards[i].key[1] = "link"
        PROVE  items[i].posting \in Postings /\ cards[i].key \in LinkKeys(items[i].posting)
    <3>1. items[i] \in ItemsOf(t)
      BY <2>1, <2>3 DEF CardsOf, Ending, Documents
    <3>2. PICK p \in Postings : \E href \in Hrefs[p], host \in Hosts, failed \in BOOLEAN :
            items[i] = Item(t, p, href, host, failed)
      BY <3>1 DEF ItemsOf
    <3> PICK href \in Hrefs[p], host \in Hosts, failed \in BOOLEAN :
          items[i] = Item(t, p, href, host, failed)
      BY <3>2
    <3>3. items[i].posting = p /\ items[i].link = ResolveReference(href, host)
      BY DEF Item
    <3>4. cards[i].key = IdentityOf(items[i].link, items[i].content, FieldsOf(t), NoKey)
      BY <2>3 DEF CardsOf
    <3>5. cards[i].key # NoKey /\ cards[i].key[1] = "link"
      BY <2>2, <2>3
    <3>6. cards[i].key = <<"link", CanonicalizeLink(items[i].link)>>
      <4>1. \A content, fields, none :
              LET key == IdentityOf(items[i].link, content, fields, none) IN
              \/ key = none
              \/ key = <<"link", CanonicalizeLink(items[i].link)>>
              \/ key = <<"fallback", Fingerprint(content, fields)>>
        BY Zenon DEF IdentityOf
      <4>2. \/ cards[i].key = <<"link", CanonicalizeLink(items[i].link)>>
            \/ cards[i].key = <<"fallback", Fingerprint(items[i].content, FieldsOf(t))>>
        <5> HIDE DEF items, cards, t
        <5> QED BY <3>4, <3>5, <4>1
      <4> HIDE DEF items, cards, t
      <4> QED BY <3>5, <4>2
    <3> QED BY <3>3, <3>6 DEF LinkKeys
  <2> HIDE DEF t, items, cards
  <2> QED BY <2>2, <2>3 DEF SightedAreLinks
<1>2. CASE sighted' = sighted
  BY <1>2 DEF SightedAreLinks
<1> QED BY <1>1, <1>2
        DEF CollectionNext, Request, Start, Scrape, Finish, Fail, Store, SiteChanges, AddSource,
            collectionVars

(* Whatever is stored, patched and collected by whom, a link key in the     *)
(* store names one posting, and a posting has one for each host it was read *)
(* from, however its links are decorated.                                   *)
THEOREM LinksNamePostings == CollectionSpec => []LinkNamesPosting
<1>1. CollectionInit => SightedAreLinks
  BY DEF CollectionInit, SightedAreLinks
<1>2. CollectionTypeOK /\ SightedAreLinks /\ [CollectionNext]_collectionVars => SightedAreLinks'
  BY SightedStep
<1>3. SightedAreLinks => LinkNamesPosting
  BY LinksTellThemApart DEF SightedAreLinks, LinkNamesPosting, LinksTellPostingsApart
<1> QED BY <1>1, <1>2, <1>3, CollectionImplementsStore, PTL DEF CollectionSpec

-----------------------------------------------------------------------------
(* What a run has stored *)

(* Making a link canonical does not change its host.                        *)
LEMMA HostIsKept ==
  ASSUME NEW hosts, NEW paths, NEW values, NEW link \in Link(hosts, paths, values)
  PROVE  CanonicalizeLink(link).host = link.host
BY DEF CanonicalizeLink, Link

(* A run that goes on has its handler's source and has not called itself    *)
(* complete.                                                                *)
RunsAreOpened ==
  \A h \in Handlers : work[h].pc \in {"scrape", "apply", "complete"} =>
    /\ runs[work[h].run].source = work[h].source
    /\ runs[work[h].run].completion = "unknown"

(* What a run has read is on record and in the rows, every card of it and   *)
(* nothing else.                                                            *)
IsStored(h) ==
  LET cards == CardsOf(h)  record == composition[work[h].run]
      Vacancy(i) == <<work[h].source, cards[i].key>>
  IN /\ \A i \in DOMAIN cards :
          /\ cards[i].key # NoKey
          /\ cards[i].key[1] = "link" => <<cards[i].key, work[h].items[i].posting>> \in sighted
          /\ record[Vacancy(i)] \in Observations
     /\ \A v \in Vacancies : record[v] # "none" =>
          \E i \in DOMAIN cards : v = Vacancy(i) /\ vacancies[v].content = cards[i].content

CompleteIsStored == \A h \in Handlers : At(h, "complete") => IsStored(h)

LEMMA OpenedStep ==
  ASSUME CollectionTypeOK, TypeOK, RunsAreHeld, RunsAreOpened, [CollectionNext]_collectionVars
  PROVE  RunsAreOpened'
<1> DEFINE Going(w) == w.pc \in {"scrape", "apply", "complete"}
<1>1. ASSUME NEW h \in Handlers, Start(h) PROVE RunsAreOpened'
  <2>1. \A g \in Handlers \ {h} : work'[g] = work[g]
    BY <1>1 DEF Start, Becomes, CollectionTypeOK
  <2>2. work[h].source \in Sources
    BY <1>1, WorkShapes DEF Start, At, CollectionTypeOK, Starting
  <2>3. \/ work'[h].pc = "idle" /\ UNCHANGED runs
        \/ \E r \in RunIds : /\ StartRun(work[h].source, r)
                             /\ work'[h].run = r /\ work'[h].source = work[h].source
    BY <1>1 DEF Start, StartExclusiveRun, Becomes, CollectionTypeOK, Resting, storeVars
  <2>4. ASSUME NEW r \in RunIds, StartRun(work[h].source, r)
        PROVE  /\ runs[r] = NoRow
               /\ runs'[r].source = work[h].source /\ runs'[r].completion = "unknown"
               /\ \A q \in RunIds \ {r} : runs'[q] = runs[q]
    BY <2>2, <2>4 DEF StartRun, OpenedRun, TypeOK
  <2>5. \A g \in Handlers : Going(work[g]) => work[g].run \in RunIds /\ runs[work[g].run] # NoRow
    BY WorkShapes DEF RunsAreHeld, HasRun, RunIs, CollectionTypeOK
  <2> QED BY <2>1, <2>3, <2>4, <2>5 DEF RunsAreOpened
<1>2. ASSUME NEW h \in Handlers, Scrape(h) PROVE RunsAreOpened'
  <2>1. /\ work'[h].pc = "fail" \/ /\ work'[h].run = work[h].run
                                   /\ work'[h].source = work[h].source
        /\ \A g \in Handlers \ {h} : work'[g] = work[g]
    BY <1>2, ScrapedWork DEF CollectionTypeOK
  <2> QED BY <1>2, <2>1 DEF RunsAreOpened, Scrape, At, storeVars
<1>3. ASSUME NEW h \in Handlers, Apply(h) PROVE RunsAreOpened'
  <2>1. work[h] \in Ending(work[h].text)
    BY <1>3, WorkShapes DEF Apply, At, CollectionTypeOK
  <2>2. /\ work'[h].run = work[h].run /\ work'[h].source = work[h].source
        /\ \A g \in Handlers \ {h} : work'[g] = work[g]
    BY <1>3, <2>1 DEF Apply, Becomes, Goes, CollectionTypeOK, Ending
  <2>3. UNCHANGED runs /\ work[h].pc = "apply"
    BY <1>3 DEF Apply, At, ApplyObservedVacancies, storeVars
  <2> QED BY <2>2, <2>3 DEF RunsAreOpened
<1>4. ASSUME NEW h \in Handlers, Finish(h) \/ Fail(h) PROVE RunsAreOpened'
  <2>1. HasRun(h) /\ work[h].run \in RunIds
    BY <1>4, WorkShapes DEF Finish, Fail, At, HasRun, CollectionTypeOK
  <2>2. \A q \in RunIds \ {work[h].run} : runs'[q] = runs[q]
    BY <1>4, <2>1 DEF Finish, Fail, CompleteRun, TypeOK
  <2>3. work'[h].pc = "idle" /\ \A g \in Handlers \ {h} : work'[g] = work[g]
    BY <1>4 DEF Finish, Fail, Becomes, Resting, CollectionTypeOK
  <2>4. \A g \in Handlers \ {h} :
          Going(work[g]) => work[g].run \in RunIds /\ work[g].run # work[h].run
    BY <2>1, WorkShapes DEF RunsAreHeld, HasRun, CollectionTypeOK
  <2> QED BY <2>2, <2>3, <2>4 DEF RunsAreOpened
<1>5. ASSUME NEW h \in Handlers, NEW s \in Sources, NEW narrowed \in BOOLEAN,
             Request(h, s, narrowed)
      PROVE  RunsAreOpened'
  <2>1. work'[h].pc = "start" /\ \A g \in Handlers \ {h} : work'[g] = work[g]
    BY <1>5 DEF Request, Becomes, CollectionTypeOK
  <2> QED BY <1>5, <2>1 DEF RunsAreOpened, Request, storeVars
<1>6. CASE UNCHANGED <<work, runs>>
  BY <1>6 DEF RunsAreOpened
<1> QED BY <1>1, <1>2, <1>3, <1>4, <1>5, <1>6
        DEF CollectionNext, Store, SiteChanges, AddSource, CreateSource, collectionVars, storeVars

(* While a run waits to be completed nobody touches its record, or a row of *)
(* its source: the other runs at work are of other sources.                 *)
LEMMA OthersLeaveStored ==
  ASSUME CollectionTypeOK, TypeOK, LockMatchesRun, RunsAreHeld, RunsAreOpened,
         [CollectionNext]_collectionVars,
         NEW h \in Handlers, At(h, "complete"), work'[h] = work[h]
  PROVE  /\ runs'[work[h].run] = runs[work[h].run]
         /\ composition'[work[h].run] = composition[work[h].run]
         /\ sighted \subseteq sighted'
         /\ \A v \in Vacancies : v[1] = work[h].source => vacancies'[v] = vacancies[v]
<1> DEFINE r == work[h].run
           s == work[h].source
           Untouched == /\ runs'[r] = runs[r]
                        /\ composition'[r] = composition[r]
                        /\ sighted \subseteq sighted'
                        /\ \A v \in Vacancies : v[1] = s => vacancies'[v] = vacancies[v]
<1>1. HasRun(h) /\ r \in RunIds /\ RunIs(r, "running") /\ runs[r].source = s
  BY WorkShapes DEF At, HasRun, RunsAreHeld, RunsAreOpened, CollectionTypeOK
<1>2. ASSUME NEW g \in Handlers, g # h, HasRun(g)
      PROVE  /\ work[g].run \in RunIds \ {r}
             /\ runs[work[g].run].source # s
  <2>1. /\ work[g].run \in RunIds \ {r}
        /\ RunIs(work[g].run, "running")
    BY <1>1, <1>2, WorkShapes DEF RunsAreHeld, HasRun, CollectionTypeOK
  <2> QED BY <1>1, <2>1 DEF LockMatchesRun
<1> HIDE DEF r, s
<1>3. ASSUME NEW g \in Handlers, Apply(g) PROVE Untouched
  <2>1. g # h /\ HasRun(g)
    BY <1>3 DEF Apply, At, HasRun
  <2>2. CASE UNCHANGED <<storeVars, sighted>>
    BY <2>2 DEF storeVars
  <2>3. CASE ApplyObservedVacancies(work[g].run, CardsOf(g)) /\ sighted \subseteq sighted'
    <3> DEFINE q == work[g].run
               cards == CardsOf(g)
    <3>1. \A v \in Observed(q, cards) : v[1] # s
      BY <1>2, <2>1 DEF Observed
    <3>2. UNCHANGED runs /\ composition'[r] = composition[r]
      BY <1>1, <1>2, <2>1, <2>3 DEF ApplyObservedVacancies, TypeOK
    <3>3. \A v \in Vacancies : v \notin Observed(q, cards) => vacancies'[v] = vacancies[v]
      BY <2>3 DEF ApplyObservedVacancies
    <3> QED BY <2>3, <3>1, <3>2, <3>3
  <2> QED BY <1>3, <2>2, <2>3 DEF Apply
<1>4. ASSUME NEW g \in Handlers, Finish(g) \/ Fail(g) PROVE Untouched
  <2>1. HasRun(g) /\ work'[g].pc = "idle"
    BY <1>4 DEF Finish, Fail, At, HasRun, Becomes, Resting, CollectionTypeOK
  <2>2. g # h
    BY <2>1 DEF At
  <2>3. PICK status \in Terminal, completion \in Completions :
          CompleteRun(work[g].run, status, completion, NoCounts)
    BY <1>4 DEF Finish, Fail, Terminal, Completions
  <2>4. UNCHANGED sighted
    BY <1>4 DEF Finish, Fail
  <2>5. runs'[r] = runs[r] /\ composition'[r] = composition[r]
    BY <1>1, <1>2, <2>1, <2>2, <2>3 DEF CompleteRun, TypeOK
  <2>6. ASSUME NEW v \in Vacancies, v[1] = s PROVE vacancies'[v] = vacancies[v]
    <3>1. v \notin ToArchive(work[g].run, status, completion)
      BY <1>2, <2>1, <2>2, <2>6 DEF ToArchive, Unseen
    <3> QED BY <2>3, <3>1 DEF CompleteRun
  <2> QED BY <2>4, <2>5, <2>6
<1>5. ASSUME NEW g \in Handlers, Start(g) PROVE Untouched
  <2>1. work[g].source \in Sources
    BY <1>5, WorkShapes DEF Start, At, CollectionTypeOK, Starting
  <2>2. UNCHANGED <<vacancies, composition, sighted>>
    BY <1>5 DEF Start, StartExclusiveRun, StartRun, storeVars
  <2>3. runs'[r] = runs[r]
    <3>1. CASE UNCHANGED storeVars
      BY <3>1 DEF storeVars
    <3>2. ASSUME NEW q \in RunIds, StartRun(work[g].source, q) PROVE runs'[r] = runs[r]
      BY <1>1, <2>1, <3>2, OpenedRunRow DEF RunIs
    <3> QED BY <1>5, <3>1, <3>2 DEF Start, StartExclusiveRun
  <2> QED BY <2>2, <2>3
<1>6. ASSUME NEW g \in Handlers, Scrape(g) PROVE Untouched
  BY <1>6 DEF Scrape, storeVars
<1>7. ASSUME UNCHANGED <<runs, vacancies, composition, sighted>> PROVE Untouched
  BY <1>7
<1> HIDE DEF Untouched
<1>8. Untouched
  BY <1>3, <1>4, <1>5, <1>6, <1>7
     DEF CollectionNext, Request, Store, SiteChanges, AddSource, CreateSource,
         collectionVars, storeVars
<1> QED BY <1>8 DEF Untouched, r, s

(* The step that applies the observations of a run stores them all.         *)
LEMMA AppliedIsStored ==
  ASSUME CollectionTypeOK, TypeOK, RunsAreHeld, RunsAreOpened, NothingRecordedEarly,
         NEW h \in Handlers, Apply(h), work'[h].pc = "complete"
  PROVE  IsStored(h)'
<1> DEFINE r == work[h].run
           s == work[h].source
           items == work[h].items
           cards == CardsOf(h)
           Vacancy(i) == <<s, cards[i].key>>
<1>1. work[h].text \in ParsedTexts /\ work[h] \in Ending(work[h].text) /\ work[h].pc = "apply"
  BY WorkShapes DEF Apply, At, CollectionTypeOK
<1>2. r \in RunIds /\ s \in Sources /\ runs[r].source = s
  BY <1>1 DEF Ending, RunsAreOpened
<1>3. \A v \in Vacancies : composition[r][v] = "none"
  BY <1>1 DEF NothingRecordedEarly
<1>4. cards \in Cards /\ \A i \in DOMAIN cards : cards[i].key \in Keys \cup {NoKey}
  BY <1>1, CardsOfItems
<1>5. Goes(h, "fail").pc = "fail"
  BY <1>1 DEF Goes, Ending
<1>6. /\ ApplyObservedVacancies(r, cards)
      /\ work' = [work EXCEPT ![h] = Goes(h, "complete")]
      /\ sighted' = sighted \cup
           {<<cards[i].key, items[i].posting>> : i \in {j \in DOMAIN cards : cards[j].key[1] = "link"}}
  BY <1>5 DEF Apply, Becomes, CollectionTypeOK
<1>7. /\ work'[h].run = r /\ work'[h].source = s /\ work'[h].items = items
      /\ work'[h].text = work[h].text
  BY <1>1, <1>6 DEF Goes, Ending, CollectionTypeOK
<1>8. CardsOf(h)' = cards
  BY <1>7 DEF CardsOf
<1> HIDE DEF r, s, items, cards
<1>9. \A i \in DOMAIN cards : cards[i].key \in Keys
  BY <1>4, <1>6 DEF ApplyObservedVacancies, ApplyAccepts
<1>10. ASSUME NEW i \in DOMAIN cards PROVE composition'[r][Vacancy(i)] \in Observations
  <2>1. PICK first \in Firsts(cards) : cards[first].key = cards[i].key
    BY <1>4, FirstCardOfKey
  <2>2. Vacancy(i) \in Observed(r, cards) /\ Vacancy(i) \in Vacancies
    BY <1>2, <1>9, <2>1 DEF Observed, Vacancies
  <2> QED BY <1>2, <1>4, <1>6, <2>2, AppliedRows
<1>11. ASSUME NEW v \in Vacancies, composition'[r][v] # "none"
       PROVE  \E i \in DOMAIN cards : v = Vacancy(i) /\ vacancies'[v].content = cards[i].content
  <2>1. v \in Observed(r, cards)
    BY <1>2, <1>3, <1>4, <1>6, <1>11, AppliedRows
  <2>2. PICK i \in Firsts(cards) : cards[i].key = v[2] /\ ContentOf(cards, v) = cards[i].content
    BY <1>4, <2>1, ContentOfFirst
  <2>3. v = Vacancy(i)
    BY <1>2, <2>1, <2>2 DEF Observed
  <2>4. vacancies'[v].content = ContentOf(cards, v)
    BY <1>6, <2>1 DEF ApplyObservedVacancies, ObservedRow
  <2> QED BY <2>2, <2>3, <2>4 DEF Firsts
<1>12. \A i \in DOMAIN cards : cards[i].key # NoKey
  BY <1>9, ConstantsAssumption
<1>13. \A i \in DOMAIN cards :
         cards[i].key[1] = "link" => <<cards[i].key, items[i].posting>> \in sighted'
  BY <1>6
<1> QED BY <1>7, <1>8, <1>10, <1>11, <1>12, <1>13 DEF IsStored

(* It stays stored until the run is completed.                              *)
LEMMA StoredStep ==
  ASSUME CollectionTypeOK, TypeOK, LockMatchesRun, RunsAreHeld, RunsAreOpened,
         RecordsAreOfTheSource, NothingRecordedEarly, CompleteIsStored,
         [CollectionNext]_collectionVars
  PROVE  CompleteIsStored'
<1> SUFFICES ASSUME NEW h \in Handlers, work'[h].pc = "complete" PROVE IsStored(h)'
  BY DEF CompleteIsStored, At
<1>1. CASE work'[h] = work[h]
  <2>1. At(h, "complete") /\ IsStored(h)
    BY <1>1 DEF CompleteIsStored, At
  <2>2. /\ composition'[work[h].run] = composition[work[h].run]
        /\ sighted \subseteq sighted'
        /\ \A v \in Vacancies : v[1] = work[h].source => vacancies'[v] = vacancies[v]
    BY <1>1, <2>1, OthersLeaveStored
  <2>3. work[h].run \in RunIds /\ runs[work[h].run].source = work[h].source
    BY <2>1, WorkShapes DEF At, RunsAreOpened, CollectionTypeOK
  <2>4. \A v \in Vacancies : composition[work[h].run][v] # "none" => v[1] = work[h].source
    BY <2>3 DEF RecordsAreOfTheSource
  <2>5. CardsOf(h)' = CardsOf(h)
    BY <1>1 DEF CardsOf
  <2> QED BY <1>1, <2>1, <2>2, <2>4, <2>5 DEF IsStored
<1>2. CASE work'[h] # work[h]
  <2>1. ASSUME NEW g \in Handlers,
               \/ Start(g) \/ Finish(g) \/ Fail(g)
               \/ \E s \in Sources, narrowed \in BOOLEAN : Request(g, s, narrowed)
        PROVE  FALSE
    <3>1. work'[g].pc # "complete" /\ (g # h => work'[h] = work[h])
      BY <2>1 DEF Start, Finish, Fail, Request, Becomes, Resting, CollectionTypeOK
    <3> QED BY <1>2, <3>1
  <2>2. ASSUME NEW g \in Handlers, Scrape(g) PROVE FALSE
    <3>1. work'[g].pc # "complete" /\ (g # h => work'[h] = work[h])
      BY <2>2, ScrapedWork DEF CollectionTypeOK
    <3> QED BY <1>2, <3>1
  <2>3. ASSUME NEW g \in Handlers, Apply(g) PROVE g = h
    BY <1>2, <2>3 DEF Apply, Becomes, CollectionTypeOK
  <2>4. Apply(h)
    BY <1>2, <2>1, <2>2, <2>3
       DEF CollectionNext, Store, SiteChanges, AddSource, collectionVars
  <2> QED BY <2>4, AppliedIsStored
<1> QED BY <1>1, <1>2

-----------------------------------------------------------------------------
(* What a complete run leaves *)

(* Every card of the run has an active row, and every active row has one.   *)
LeavesItsCards(h) ==
  LET cards == CardsOf(h)
      Vacancy(i) == <<work[h].source, cards[i].key>>
  IN /\ \A i \in DOMAIN work[h].items : ~work[h].items[i].failed
     /\ \A i \in DOMAIN cards : Vacancy(i) \in ActiveNext(work[h].source)
     /\ \A v \in ActiveNext(work[h].source) : \E i \in DOMAIN cards :
          v = Vacancy(i) /\ vacancies'[v].content = cards[i].content

(* Completing a run leaves active what the run has stored, as it was.       *)
LEMMA CompletionLeavesCards ==
  ASSUME CollectionTypeOK, TypeOK, RunsAreHeld, RunsAreOpened, RunOwnsItsRows, LastRunSawVacancy,
         CompleteIsStored, NEW h \in Handlers, Finish(h),
         runs'[work[h].run].completion = "complete"
  PROVE  LeavesItsCards(h)
<1> DEFINE r == work[h].run
           s == work[h].source
           cards == CardsOf(h)
           Vacancy(i) == <<s, cards[i].key>>
<1>1. work[h].text \in ParsedTexts /\ work[h] \in Ending(work[h].text) /\ work[h].pc = "complete"
  BY WorkShapes DEF Finish, At, CollectionTypeOK
<1>2. r \in RunIds /\ s \in Sources /\ RunIs(r, "running") /\ runs[r].source = s
  BY <1>1 DEF Ending, RunsAreOpened, RunsAreHeld, HasRun
<1>3. IsStored(h)
  BY <1>1 DEF CompleteIsStored, At
<1>4. WholeRun(h) /\ CompleteRun(r, "success", "complete", NoCounts)
  <2>1. CASE ~WholeRun(h)
    <3>1. CompleteRun(r, "partial", "incomplete", NoCounts)
      BY <2>1 DEF Finish
    <3>2. runs'[r].completion = "incomplete"
      BY <1>2, <3>1, NothingIsReported, CompletedRunRow DEF Terminal, Completions
    <3> QED BY <3>2
  <2> QED BY <2>1 DEF Finish
<1>5. \A v \in Vacancies :
        /\ v \in Unseen(r) => vacancies'[v].listing = "archived"
        /\ v \notin Unseen(r) => vacancies'[v] = vacancies[v]
  <2>1. ASSUME NEW v \in Vacancies, v \in Unseen(r)
        PROVE  ArchivedRow(r, v).listing = "archived"
    BY <2>1, RowShapes DEF Unseen, ArchivedRow, VacancyRow
  <2> QED BY <1>4, <2>1 DEF CompleteRun, ToArchive, Archives
<1>6. \A i \in DOMAIN cards : Vacancy(i) \in Vacancies
  <2>1. \A i \in DOMAIN cards : cards[i].key \in Keys
    BY <1>1, <1>3, CardsOfItems DEF IsStored
  <2> QED BY <1>2, <2>1 DEF Vacancies
<1> HIDE DEF r, s, cards
<1>7. ASSUME NEW i \in DOMAIN cards PROVE Vacancy(i) \in ActiveNext(s)
  <2>1. composition[r][Vacancy(i)] \in Observations
    BY <1>3, <1>7 DEF IsStored, r, s, cards
  <2>2. /\ vacancies[Vacancy(i)] # NoRow /\ vacancies[Vacancy(i)].listing = "active"
        /\ vacancies[Vacancy(i)].lastRun = r
    BY <1>2, <1>6, <1>7, <2>1 DEF RunOwnsItsRows, Recorded
  <2>3. vacancies'[Vacancy(i)] = vacancies[Vacancy(i)]
    BY <1>5, <1>6, <1>7, <2>2 DEF Unseen
  <2> QED BY <1>6, <1>7, <2>2, <2>3 DEF ActiveNext
<1>8. ASSUME NEW v \in ActiveNext(s)
      PROVE  \E i \in DOMAIN cards : v = Vacancy(i) /\ vacancies'[v].content = cards[i].content
  <2>1. v \in Vacancies /\ vacancies'[v] = vacancies[v] /\ v \notin Unseen(r)
    BY <1>5, <1>8 DEF ActiveNext
  <2>2. vacancies[v].lastRun = r /\ vacancies[v] # NoRow
    BY <1>2, <1>8, <2>1 DEF ActiveNext, Unseen
  <2>3. composition[r][v] # "none"
    BY <2>1, <2>2 DEF LastRunSawVacancy, Observations
  <2>4. \E i \in DOMAIN cards : v = Vacancy(i) /\ vacancies[v].content = cards[i].content
    BY <1>3, <2>1, <2>3 DEF IsStored, r, s, cards
  <2> QED BY <2>1, <2>4
<1>9. \A i \in DOMAIN work[h].items : ~work[h].items[i].failed
  BY <1>4 DEF WholeRun
<1>10. \A i \in DOMAIN cards : Vacancy(i) \in ActiveNext(s)
  BY <1>7
<1>11. \A v \in ActiveNext(s) : \E i \in DOMAIN cards :
         v = Vacancy(i) /\ vacancies'[v].content = cards[i].content
  BY <1>8
<1> QED BY <1>9, <1>10, <1>11 DEF LeavesItsCards, s, cards

(* The identity of an item is its link, or what its fields show.            *)
LEMMA KeyByFields ==
  ASSUME NEW link, NEW content, NEW fields, IdentityOf(link, content, fields, NoKey) # NoKey
  PROVE  IdentityOf(link, content, fields, NoKey) =
           IF fields = <<>> THEN <<"link", CanonicalizeLink(link)>>
           ELSE <<"fallback", Fingerprint(content, fields)>>
BY Zenon DEF IdentityOf

LEMMA SamePrint ==
  ASSUME NEW c, NEW d, NEW fields
  PROVE  Fingerprint(c, fields) = Fingerprint(d, fields)
           <=> \A i \in DOMAIN fields : c[fields[i]] = d[fields[i]]
BY DEF Fingerprint

(* An item whose detail page did not fail is its posting, complete.         *)
LEMMA WholeItem ==
  ASSUME NEW t, NEW item \in ItemsOf(t), ~item.failed
  PROVE  /\ item.posting \in Postings
         /\ item.content = Complete(t, item.posting)
         /\ CanonicalizeLink(item.link).host = item.link.host
         /\ <<"link", CanonicalizeLink(item.link)>> \in LinkKeys(item.posting)
<1>1. PICK p \in Postings : \E href \in Hrefs[p], host \in Hosts, failed \in BOOLEAN :
        item = Item(t, p, href, host, failed)
  BY DEF ItemsOf
<1> PICK href \in Hrefs[p], host \in Hosts, failed \in BOOLEAN :
      item = Item(t, p, href, host, failed)
  BY <1>1
<1>2. /\ item.posting = p /\ item.link = ResolveReference(href, host)
      /\ item.content = Complete(t, p)
  BY DEF Item
<1>3. CanonicalizeLink(item.link).host = item.link.host
  BY <1>2, ResolvedLink, HostIsKept
<1> QED BY <1>2, <1>3 DEF LinkKeys

(* The rows of a listing that is named by links, or by fields; the rows and *)
(* the hosts of a posting, and the rows that agree with one in the fields.  *)
NamedByLinks(s, rows, items, cards) ==
  /\ \A i \in DOMAIN items :
       /\ items[i].posting \in Postings
       /\ cards[i].key \in LinkKeys(items[i].posting)
       /\ cards[i].key[2].host = items[i].link.host
       /\ <<s, cards[i].key>> \in rows
       /\ <<cards[i].key, items[i].posting>> \in sighted
  /\ \A v \in rows : \E i \in DOMAIN items : v = <<s, cards[i].key>>

NamedByFields(s, rows, items, cards, content, fields) ==
  /\ \A i \in DOMAIN items :
       /\ cards[i].key = <<"fallback", Fingerprint(items[i].content, fields)>>
       /\ <<s, cards[i].key>> \in rows
  /\ \A v \in rows : \E i \in DOMAIN items :
       v = <<s, cards[i].key>> /\ content[v] = items[i].content

SightedRows(rows, p) == {v \in rows : <<v[2], p>> \in sighted}

HostsShown(items, p) ==
  {items[i].link.host : i \in {j \in DOMAIN items : items[j].posting = p}}

AgreeingRows(rows, content, fields, shows) ==
  {v \in rows : /\ v[2][1] = "fallback"
                /\ \A i \in DOMAIN fields : content[v][fields[i]] = shows[fields[i]]}

(* Rows named by links: a posting has one for each host it was shown on.    *)
LEMMA RowsByLink ==
  ASSUME LinksTellPostingsApart, SightedAreLinks,
         NEW s, NEW active, IsFiniteSet(active), NEW items, NEW cards,
         NamedByLinks(s, active, items, cards), NEW p \in Postings
  PROVE  Cardinality(SightedRows(active, p)) = Cardinality(HostsShown(items, p))
<1> DEFINE rows == SightedRows(active, p)
           named == HostsShown(items, p)
           f == [v \in rows |-> v[2][2].host]
<1> USE DEF SightedRows, HostsShown, NamedByLinks
<1>1. ASSUME NEW v \in rows
      PROVE  \E i \in DOMAIN items :
               /\ v = <<s, cards[i].key>> /\ items[i].posting = p
               /\ v[2] \in LinkKeys(p) /\ v[2][2].host = items[i].link.host
  <2>1. PICK i \in DOMAIN items : v = <<s, cards[i].key>>
    BY <1>1
  <2>2. v[2] = cards[i].key
    BY <2>1
  <2>3. v[2] \in LinkKeys(p)
    BY <1>1 DEF SightedAreLinks
  <2>4. items[i].posting = p
    BY <2>2, <2>3 DEF LinksTellPostingsApart
  <2> QED BY <2>1, <2>2, <2>3, <2>4
<1>2. f \in [rows -> named]
  <2>1. ASSUME NEW v \in rows PROVE v[2][2].host \in named
    <3>1. PICK i \in DOMAIN items : items[i].posting = p /\ v[2][2].host = items[i].link.host
      BY <1>1, <2>1
    <3> QED BY <3>1
  <2> QED BY <2>1
<1>3. ASSUME NEW v \in rows, NEW w \in rows, f[v] = f[w] PROVE v = w
  <2>1. PICK i \in DOMAIN items : v = <<s, cards[i].key>> /\ v[2] \in LinkKeys(p)
    BY <1>1
  <2>2. PICK k \in DOMAIN items : w = <<s, cards[k].key>> /\ w[2] \in LinkKeys(p)
    BY <1>1
  <2>3. v[2][2].host = w[2][2].host
    BY <1>3
  <2>4. v[2] = w[2]
    BY <2>1, <2>2, <2>3 DEF LinksTellPostingsApart
  <2> QED BY <2>1, <2>2, <2>4
<1>4. ASSUME NEW host \in named PROVE \E v \in rows : f[v] = host
  <2>1. PICK i \in DOMAIN items : items[i].posting = p /\ host = items[i].link.host
    OBVIOUS
  <2> DEFINE v == <<s, cards[i].key>>
  <2>2. v \in active /\ v[2] = cards[i].key
    OBVIOUS
  <2>3. v \in rows
    BY <2>1, <2>2
  <2> HIDE DEF v
  <2>4. f[v] = host
    BY <2>1, <2>2, <2>3
  <2> QED BY <2>3, <2>4
<1>5. IsFiniteSet(rows)
  BY FS_Subset
<1> HIDE DEF rows, named, f
<1>6. f \in Bijection(rows, named)
  BY <1>2, <1>3, <1>4 DEF Bijection, Injection, IsInjective, Surjection
<1>7. Cardinality(named) = Cardinality(rows)
  BY <1>5, <1>6, FS_Bijection DEF ExistsBijection
<1> QED BY <1>7 DEF rows, named

(* Rows named by what their fields show: a posting has one.                 *)
LEMMA RowsByFields ==
  ASSUME NEW s, NEW active, NEW items, NEW cards, NEW content, NEW fields,
         NamedByFields(s, active, items, cards, content, fields), NEW j \in DOMAIN items
  PROVE  Cardinality(AgreeingRows(active, content, fields, items[j].content)) = 1
<1> DEFINE rows == AgreeingRows(active, content, fields, items[j].content)
           Agrees(v) == /\ v[2][1] = "fallback"
                        /\ \A i \in DOMAIN fields :
                             content[v][fields[i]] = items[j].content[fields[i]]
           row == <<s, cards[j].key>>
<1> USE DEF NamedByFields, AgreeingRows
<1>1. ASSUME NEW v \in active PROVE Agrees(v) <=> v = row
  <2>1. PICK i \in DOMAIN items : v = <<s, cards[i].key>> /\ content[v] = items[i].content
    OBVIOUS
  <2>2. v[2] = cards[i].key /\ v[2][1] = "fallback"
    BY <2>1
  <2>3. Agrees(v) <=> Fingerprint(items[i].content, fields) = Fingerprint(items[j].content, fields)
    BY <2>1, <2>2, SamePrint
  <2>4. v = row <=> cards[i].key = cards[j].key
    BY <2>1
  <2>5. cards[i].key = cards[j].key
          <=> Fingerprint(items[i].content, fields) = Fingerprint(items[j].content, fields)
    <3>1. /\ cards[i].key = <<"fallback", Fingerprint(items[i].content, fields)>>
          /\ cards[j].key = <<"fallback", Fingerprint(items[j].content, fields)>>
      OBVIOUS
    <3> DEFINE a == Fingerprint(items[i].content, fields)
               b == Fingerprint(items[j].content, fields)
    <3> HIDE DEF a, b
    <3>2. cards[i].key = <<"fallback", a>> /\ cards[j].key = <<"fallback", b>>
      BY <3>1 DEF a, b
    <3>3. cards[i].key = cards[j].key <=> a = b
      BY <3>2
    <3> QED BY <3>3 DEF a, b
  <2> QED BY <2>3, <2>4, <2>5
<1>2. row \in active /\ \A v : v \in rows <=> v \in active /\ Agrees(v)
  OBVIOUS
<1> HIDE DEF Agrees, row, rows
<1>3. rows = {row}
  BY <1>1, <1>2
<1> QED BY <1>3, FS_Singleton DEF rows

(* Rows that mirror the cards of a run without failures mirror its postings. *)
LEMMA RowsMirrorItems ==
  ASSUME LinksTellPostingsApart, CollectionTypeOK, SightedAreLinks, CompleteIsStored,
         NEW h \in Handlers, At(h, "complete"), LeavesItsCards(h)
  PROVE  Mirrors(h)
<1> DEFINE t == work[h].text
           s == work[h].source
           items == work[h].items
           cards == CardsOf(h)
           fields == FieldsOf(t)
           active == ActiveNext(s)
<1>1. t \in ParsedTexts /\ work[h] \in Ending(t) /\ IsStored(h)
  BY WorkShapes DEF At, CollectionTypeOK, CompleteIsStored
<1>2. DOMAIN cards = DOMAIN items
  BY <1>1, CardsOfItems
<1>3. \A i \in DOMAIN items : items[i] \in ItemsOf(t) /\ ~items[i].failed
  BY <1>1 DEF Ending, Documents, LeavesItsCards
<1>4. \A i \in DOMAIN items :
        /\ items[i].posting \in Postings
        /\ items[i].content = Complete(t, items[i].posting)
        /\ CanonicalizeLink(items[i].link).host = items[i].link.host
        /\ <<"link", CanonicalizeLink(items[i].link)>> \in LinkKeys(items[i].posting)
  BY <1>3, WholeItem
<1>5. ASSUME NEW i \in DOMAIN items
      PROVE  /\ cards[i].content = items[i].content
             /\ cards[i].key = IF fields = <<>> THEN <<"link", CanonicalizeLink(items[i].link)>>
                               ELSE <<"fallback", Fingerprint(items[i].content, fields)>>
  <2>1. /\ cards[i].content = items[i].content
        /\ cards[i].key = IdentityOf(items[i].link, items[i].content, fields, NoKey)
    BY <1>5 DEF CardsOf
  <2>2. cards[i].key # NoKey
    BY <1>1, <1>2, <1>5 DEF IsStored
  <2> HIDE DEF cards, items, fields, t
  <2> QED BY <2>1, <2>2, KeyByFields
<1>6. \A i \in DOMAIN items :
        /\ <<s, cards[i].key>> \in active
        /\ cards[i].key[1] = "link" => <<cards[i].key, items[i].posting>> \in sighted
  BY <1>1, <1>2 DEF IsStored, LeavesItsCards
<1>7. ASSUME NEW v \in active
      PROVE  \E i \in DOMAIN items :
               v = <<s, cards[i].key>> /\ vacancies'[v].content = items[i].content
  <2>1. PICK i \in DOMAIN cards : v = <<s, cards[i].key>> /\ vacancies'[v].content = cards[i].content
    BY <1>7 DEF LeavesItsCards
  <2> HIDE DEF cards, items
  <2> QED BY <1>2, <1>5, <2>1
<1>8. active \subseteq Vacancies /\ IsFiniteSet(active)
  BY VacanciesFinite DEF ActiveNext
<1> DEFINE Stands(v, p) == StandsFor(v, vacancies'[v], t, p)
           Named(p) == IF fields # <<>> THEN {p}
             ELSE {items[i].link.host : i \in {j \in DOMAIN items : items[j].posting = p}}
<1>9. SUFFICES /\ \A v \in active : \E i \in DOMAIN items : Stands(v, items[i].posting)
               /\ \A j \in DOMAIN items :
                    Cardinality({v \in active : Stands(v, items[j].posting)})
                      = Cardinality(Named(items[j].posting))
  <2> DEFINE seen == {items[i].posting : i \in DOMAIN items}
  <2>1. /\ \A v \in active : \E p \in seen : Stands(v, p)
        /\ \A p \in seen : Cardinality({v \in active : Stands(v, p)}) = Cardinality(Named(p))
    <3> HIDE DEF active, items, Stands, Named
    <3> QED BY <1>9
  <2> QED BY <2>1 DEF Mirrors
<1> HIDE DEF t, s, items, cards, fields, active
<1>10. CASE fields = <<>>
  <2>1. ASSUME NEW i \in DOMAIN items
        PROVE  /\ cards[i].key \in LinkKeys(items[i].posting)
               /\ cards[i].key[2].host = items[i].link.host
               /\ <<cards[i].key, items[i].posting>> \in sighted
    <3>1. cards[i].key = <<"link", CanonicalizeLink(items[i].link)>>
      BY <1>5, <1>10, <2>1
    <3>2. cards[i].key[1] = "link" /\ cards[i].key[2] = CanonicalizeLink(items[i].link)
      BY <3>1
    <3> QED BY <1>4, <1>6, <2>1, <3>1, <3>2
  <2>2. \A v, p : Stands(v, p) <=> <<v[2], p>> \in sighted
    BY <1>10 DEF StandsFor, fields
  <2>3. ASSUME NEW v \in active PROVE \E i \in DOMAIN items : Stands(v, items[i].posting)
    <3>1. PICK i \in DOMAIN items : v = <<s, cards[i].key>>
      BY <1>7, <2>3
    <3>2. v[2] = cards[i].key
      BY <3>1
    <3> HIDE DEF Stands
    <3> QED BY <2>1, <2>2, <3>2
  <2>4. ASSUME NEW j \in DOMAIN items
        PROVE  Cardinality({v \in active : Stands(v, items[j].posting)})
                 = Cardinality(Named(items[j].posting))
    <3> DEFINE p == items[j].posting
    <3>1. NamedByLinks(s, active, items, cards)
      BY <1>4, <1>6, <1>7, <2>1 DEF NamedByLinks
    <3>2. p \in Postings /\ IsFiniteSet(active)
      BY <1>4, <1>8, <2>4
    <3>3. Cardinality(SightedRows(active, p)) = Cardinality(HostsShown(items, p))
      BY <3>1, <3>2, RowsByLink
    <3>4. Named(p) = HostsShown(items, p)
      BY <1>10 DEF HostsShown
    <3> HIDE DEF Stands, Named
    <3>5. {v \in active : Stands(v, p)} = SightedRows(active, p)
      BY <2>2 DEF SightedRows
    <3> QED BY <3>3, <3>4, <3>5
  <2> QED BY <2>3, <2>4
<1>11. CASE fields # <<>>
  <2> DEFINE content == [v \in Vacancies |-> vacancies'[v].content]
  <2>1. \A i \in DOMAIN items :
          cards[i].key = <<"fallback", Fingerprint(items[i].content, fields)>>
    BY <1>5, <1>11
  <2>2. ASSUME NEW v \in active, NEW i \in DOMAIN items
        PROVE  Stands(v, items[i].posting) <=>
                 /\ v[2][1] = "fallback"
                 /\ \A k \in DOMAIN fields :
                      content[v][fields[k]] = items[i].content[fields[k]]
    <3>1. content[v] = vacancies'[v].content /\ Complete(t, items[i].posting) = items[i].content
      BY <1>4, <1>8
    <3> HIDE DEF content
    <3> QED BY <1>11, <3>1 DEF StandsFor, fields
  <2>3. ASSUME NEW v \in active
        PROVE  \E i \in DOMAIN items : v = <<s, cards[i].key>> /\ content[v] = items[i].content
    BY <1>7, <1>8, <2>3
  <2> HIDE DEF content, Stands, Named
  <2>4. ASSUME NEW v \in active PROVE \E i \in DOMAIN items : Stands(v, items[i].posting)
    <3>1. PICK i \in DOMAIN items : v = <<s, cards[i].key>> /\ content[v] = items[i].content
      BY <2>3, <2>4
    <3>2. v[2][1] = "fallback"
      BY <2>1, <3>1
    <3> QED BY <2>2, <3>1, <3>2
  <2>5. ASSUME NEW j \in DOMAIN items
        PROVE  Cardinality({v \in active : Stands(v, items[j].posting)})
                 = Cardinality(Named(items[j].posting))
    <3>1. NamedByFields(s, active, items, cards, content, fields)
      BY <1>6, <2>1, <2>3 DEF NamedByFields
    <3>2. Cardinality(AgreeingRows(active, content, fields, items[j].content)) = 1
      BY <2>5, <3>1, RowsByFields
    <3>3. {v \in active : Stands(v, items[j].posting)}
            = AgreeingRows(active, content, fields, items[j].content)
      BY <2>2, <2>5 DEF AgreeingRows
    <3>4. Named(items[j].posting) = {items[j].posting}
      BY <1>11 DEF Named
    <3>5. Cardinality({items[j].posting}) = 1
      BY FS_Singleton
    <3> QED BY <3>2, <3>3, <3>4, <3>5
  <2> QED BY <2>4, <2>5
<1> QED BY <1>10, <1>11

(* Only the handler of a run calls it complete, in the step that ends it.   *)
LEMMA MirrorsStep ==
  ASSUME LinksTellPostingsApart, CollectionTypeOK, TypeOK, LockMatchesRun, RunsAreHeld,
         RunsAreOpened, RunOwnsItsRows, LastRunSawVacancy, CompleteIsStored, SightedAreLinks,
         [CollectionNext]_collectionVars,
         NEW h \in Handlers, At(h, "complete"), runs'[work[h].run].completion = "complete"
  PROVE  Mirrors(h)
<1>1. work'[h] # work[h]
  <2>1. ASSUME work'[h] = work[h] PROVE FALSE
    <3>1. runs'[work[h].run] = runs[work[h].run]
      BY <2>1, OthersLeaveStored
    <3>2. runs[work[h].run].completion = "unknown"
      BY DEF RunsAreOpened, At
    <3> QED BY <3>1, <3>2
  <2> QED BY <2>1
<1>2. ASSUME NEW g \in Handlers,
             \/ Start(g) \/ Apply(g) \/ Finish(g) \/ Fail(g)
             \/ \E s \in Sources, narrowed \in BOOLEAN : Request(g, s, narrowed)
      PROVE  g = h
  BY <1>1, <1>2 DEF Start, Apply, Finish, Fail, Request, Becomes, CollectionTypeOK
<1>3. ASSUME NEW g \in Handlers, Scrape(g) PROVE g = h
  BY <1>1, <1>3, ScrapedWork DEF CollectionTypeOK
<1>4. Finish(h)
  <2>1. \E g \in Handlers :
          \/ Start(g) \/ Scrape(g) \/ Apply(g) \/ Finish(g) \/ Fail(g)
          \/ \E s \in Sources, narrowed \in BOOLEAN : Request(g, s, narrowed)
    BY <1>1 DEF CollectionNext, Store, SiteChanges, AddSource, collectionVars
  <2>2. \/ Start(h) \/ Scrape(h) \/ Apply(h) \/ Finish(h) \/ Fail(h)
        \/ \E s \in Sources, narrowed \in BOOLEAN : Request(h, s, narrowed)
    BY <1>2, <1>3, <2>1
  <2> QED BY <2>2 DEF Start, Scrape, Apply, Fail, Request, At
<1> QED BY <1>4, CompletionLeavesCards, RowsMirrorItems

(* Whatever was stored, patched, failed and collected before, and by        *)
(* whichever identities: a run that ends as a complete success leaves one   *)
(* active row for each posting it was shown, or one for each host of its    *)
(* links, and no other.                                                     *)
THEOREM CompleteRunsMirrorTheSite == CollectionSpec => CompleteRunMirrorsSite
<1> DEFINE Inv == /\ SightedAreLinks /\ RunsAreHeld /\ NothingRecordedEarly
                  /\ RunsAreOpened /\ CompleteIsStored
           StoreInv == /\ TypeOK /\ LockMatchesRun /\ RecordsAreOfTheSource
                       /\ RunOwnsItsRows /\ LastRunSawVacancy
<1>1. CollectionInit => Inv
  BY DEF CollectionInit, SightedAreLinks, RunsAreHeld, NothingRecordedEarly, RunsAreOpened,
         CompleteIsStored, At, HasRun, Resting
<1>2. CollectionTypeOK /\ StoreInv /\ Inv /\ [CollectionNext]_collectionVars => Inv'
  BY SightedStep, HeldStep, UnrecordedStep, OpenedStep, StoredStep
<1>3. CollectionTypeOK /\ StoreInv /\ Inv /\ [CollectionNext]_collectionVars =>
        [\A h \in Handlers :
           At(h, "complete") /\ RunIs(work[h].run, "running")
             /\ runs'[work[h].run].completion = "complete" => Mirrors(h)]_collectionVars
  BY MirrorsStep, LinksTellThemApart
<1>4. CollectionSpec => [](CollectionTypeOK /\ StoreInv)
  <2>1. ExclusiveSpec => Spec
    BY ExclusiveIsNext, PTL DEF ExclusiveSpec, Spec
  <2> QED BY <2>1, CollectionImplementsStore, TypeCorrect, LockIsExact, RecordsHaveTheirSource,
             ActiveRowsStayOwned, LastRunIsRecorded, PTL
<1> HIDE DEF Inv, StoreInv
<1> QED BY <1>1, <1>2, <1>3, <1>4, PTL DEF CollectionSpec, CompleteRunMirrorsSite
=============================================================================
