----------------------------- MODULE Collection -----------------------------
(***************************************************************************)
(* What the runs of a source collect: the texts that PATCH stores, the     *)
(* listing a site shows, and the rows that the runs leave in VacancyStore. *)
(* RunLifecycle has the handlers' failures and crashes; here a handler     *)
(* carries the text it has read (executeSourceRunWithQuery) through its    *)
(* whole run, whatever is stored meanwhile, and every row is named by      *)
(* VacancyIdentity.                                                        *)
(***************************************************************************)
EXTENDS VacancyStore, RevisitPlan, VacancyIdentity

CONSTANTS
  Handlers,       \* request goroutines
  Texts,          \* the texts that a PATCH may bring
  FirstTexts,     \* the texts the database may hold from an older release
  Postings,       \* all postings of the site
  Matching,       \* the postings a search phrase finds
  Sites,          \* the sets of postings that a site may show
  Hrefs,          \* the links a posting may be shown with
  ListedValues,   \* what a card shows of a posting
  DetailValues    \* what its detail page shows

ASSUME CollectionAssumption ==
  /\ Texts \cup FirstTexts \subseteq SourceText
  /\ IsFiniteSet(Postings) /\ Cardinality(Postings) < MaxCards
  /\ Matching \subseteq Postings
  /\ Sites \subseteq SUBSET Postings
  /\ Hrefs \in [Postings -> SUBSET Link(Hosts \cup {NoHost, BaseHost}, STRING, Nat)]
  /\ ListedValues \in [Postings -> [Fields -> STRING]]
  /\ DetailValues \in [Postings -> [Fields -> STRING]]

-----------------------------------------------------------------------------
(* Which links lead to one posting (the sites, as the data model has them) *)

(* Parameters that decorate a link; the others tell where it leads.         *)
Decorations == {"utm_", "gclid", "fbclid"}
Telling(query) == {i \in DOMAIN query : query[i][1].family \notin Decorations}

(* Two links lead to one place: they have the same parameters to tell, in   *)
(* whatever order of the names, however they are decorated, and whatever    *)
(* the case of the host or the fragment.                                    *)
SameTarget(a, b) ==
  /\ a.host = b.host /\ a.path = b.path
  /\ \E f \in Bijection(Telling(a.query), Telling(b.query)) :
       /\ \A i \in Telling(a.query) : b.query[f[i]] = a.query[i]
       /\ \A i, k \in Telling(a.query) :
            a.query[i][1] = a.query[k][1] /\ i < k => f[i] < f[k]

(* On one host the links of a posting lead to one place, and those of two   *)
(* postings to two.                                                         *)
ASSUME SiteAssumption ==
  \A p, q \in Postings : \A a \in Hrefs[p], b \in Hrefs[q], x, y \in Hosts :
    LET l == ResolveReference(a, x)  m == ResolveReference(b, y)
    IN l.host = m.host => (p = q <=> SameTarget(l, m))

VARIABLES
  text,      \* column sources.config_yaml, one for each source
  shown,     \* the postings each site shows now
  work,      \* what each handler is doing
  sighted    \* observed: the link keys each posting has been stored under

collectionVars == <<storeVars, text, shown, work, sighted>>

Resting == [pc |-> "idle"]

At(h, pc) == work[h].pc = pc
Goes(h, pc) == [work[h] EXCEPT !.pc = pc]
Becomes(h, row) == work' = [work EXCEPT ![h] = row]

FieldsOf(t) == IF t.identity = NoBlock THEN <<>> ELSE t.identity

MaxIterations(t) ==
  IF t.pagination = NoBlock THEN NoPagination ELSE t.pagination.maxIterations

-----------------------------------------------------------------------------
(* A phrase narrows nothing in a text without a search, or with a search    *)
(* field that is filled and never submitted.                                *)
CanSearch(t) ==
  \/ t.searchHost # NoBlock
  \/ t.searchOnUI # NoBlock /\ (t.searchOnUI.submit \notin Blank \/ t.searchOnUI.enter)

(* The text is read and parsed before the source is taken. *)
Request(h, s, narrowed) ==
  /\ At(h, "idle")
  /\ sources[s] # NoRow
  /\ Parse(text[s])
  /\ Becomes(h, [pc |-> "start", source |-> s, text |-> text[s],
       search |-> narrowed /\ CanSearch(text[s])])
  /\ UNCHANGED <<storeVars, text, shown, sighted>>

(* The source is taken and the plan made; the count cannot change between   *)
(* the two, because nobody else may end a run of the source.                *)
Start(h) ==
  /\ At(h, "start")
  /\ LET job == work[h]
     IN \/ \E r \in RunIds :
             /\ StartExclusiveRun(job.source, r)
             /\ Becomes(h, [pc |-> "scrape", source |-> job.source, text |-> job.text,
                  search |-> job.search, run |-> r,
                  plan |-> Build(MaxIterations(job.text), CountTerminalNonFailedRuns(job.source))])
        \/ /\ ~MayStart(job.source)
           /\ Becomes(h, Resting)
           /\ UNCHANGED storeVars
  /\ UNCHANGED <<text, shown, sighted>>

-----------------------------------------------------------------------------
(* ScrapeWithQuery *)

(* With a search template the phrase opens another page, on a host of its   *)
(* own; the search on the page itself stays where it is.                    *)
PageHost(t, search) ==
  IF search /\ t.searchHost # NoBlock THEN t.searchHost ELSE t.baseHost

(* The postings on the page in any order, the first of them perhaps         *)
(* promoted on a second card.                                               *)
PageOf(s, search) ==
  LET found == IF search THEN shown[s] \cap Matching ELSE shown[s]
      lists == SetToSeqs(found)
  IN lists \cup {list \o <<list[1]>> : list \in lists \ {<<>>}}

(* The part that the page loop has loaded.                                  *)
Loaded(t, page) ==
  IF t.pagination = NoBlock THEN {page}
  ELSE {SubSeq(page, 1, n) : n \in 0..Len(page)}

(* A vacancy as the list shows it, and as its detail page completes it.     *)
Listed(t, p) == Text(t.selectors, ListedValues[p])

Complete(t, p) ==
  IF t.detail = NoBlock THEN Listed(t, p)
  ELSE OverwriteNonEmpty(Listed(t, p), Text(t.detail.selectors, DetailValues[p]))

(* Each detail page opens or fails; a text without one never fails there.   *)
Failures(t, page) ==
  IF t.detail = NoBlock THEN {[i \in DOMAIN page |-> FALSE]} ELSE [DOMAIN page -> BOOLEAN]

Item(t, p, href, host, failed) ==
  [posting |-> p, failed |-> failed, link |-> ResolveReference(href, host),
   content |-> IF failed THEN Listed(t, p) ELSE Complete(t, p)]

(* The site gives the item no identity to go by: a link without a host, or  *)
(* nothing in any of the identity fields.                                   *)
NoIdentity(item, fields) ==
  \/ item.link.host = NoHost
  \/ fields # <<>> /\ \A i \in DOMAIN fields :
                        fields[i] \in Fields /\ item.content[fields[i]] = ""

(* What can be read of the postings with one text.                          *)
ItemsOf(t) ==
  UNION {{Item(t, p, href, host, failed) :
            href \in Hrefs[p], host \in Hosts, failed \in BOOLEAN} : p \in Postings}

(* Contents and Keys are everything that can be read of the postings.       *)
ASSUME ReadingAssumption ==
  \A t \in Texts \cup FirstTexts : \A item \in ItemsOf(t) :
    /\ item.content \in Contents
    /\ Range(FieldsOf(t)) \subseteq Fields =>
         \/ NoIdentity(item, FieldsOf(t))
         \/ IdentityOf(item.link, item.content, FieldsOf(t), NoKey) \in Keys

Scrape(h) ==
  /\ At(h, "scrape")
  /\ LET t == work[h].text  search == work[h].search
     IN \/ \E whole \in PageOf(work[h].source, search) :
             \E page \in Loaded(t, whole) :
               \E hrefs \in [DOMAIN page -> UNION Range(Hrefs)], failures \in Failures(t, page) :
                 /\ \A i \in DOMAIN page : hrefs[i] \in Hrefs[page[i]]
                 /\ Becomes(h, [pc |-> "apply", source |-> work[h].source, text |-> t,
                      run |-> work[h].run, plan |-> work[h].plan,
                      items |-> [i \in DOMAIN page |->
                        Item(t, page[i], hrefs[i], PageHost(t, search), failures[i])]])
        \/ Becomes(h, [pc |-> "fail", run |-> work[h].run])
  /\ UNCHANGED <<storeVars, text, shown, sighted>>

-----------------------------------------------------------------------------
(* Finish *)

(* Mutant: the fields are read from the database when they are needed.      *)
CardsByStoredText(h) ==
  [i \in DOMAIN work[h].items |->
    LET item == work[h].items[i]
    IN [key |-> IdentityOf(item.link, item.content, FieldsOf(text[work[h].source]), NoKey),
        content |-> item.content]]

CardsOf(h) ==
  [i \in DOMAIN work[h].items |->
    LET item == work[h].items[i]
    IN [key |-> IdentityOf(item.link, item.content, FieldsOf(work[h].text), NoKey),
        content |-> item.content]]

Apply(h) ==
  /\ At(h, "apply")
  /\ LET r == work[h].run  cards == CardsOf(h)
     IN \/ /\ ApplyObservedVacancies(r, cards)
           /\ Becomes(h, Goes(h, "complete"))
           /\ sighted' = sighted \cup
                {<<cards[i].key, work[h].items[i].posting>> :
                   i \in {j \in DOMAIN cards : cards[j].key[1] = "link"}}
        \/ /\ ~ApplyAccepts(r, cards)
           /\ Becomes(h, Goes(h, "fail"))
           /\ UNCHANGED <<storeVars, sighted>>
  /\ UNCHANGED <<text, shown>>

(* Mutant: what failed in the details is only written to the metadata.      *)
WholeRunByPlan(h) == work[h].plan.completion = "complete"

WholeRun(h) ==
  /\ work[h].plan.completion = "complete"
  /\ \A i \in DOMAIN work[h].items : ~work[h].items[i].failed

NoCounts == [added |-> 0, updated |-> 0, seen |-> 0]

(* The counters are RunLifecycle's matter and are left at zero here.        *)
Finish(h) ==
  /\ At(h, "complete")
  /\ IF WholeRun(h) THEN CompleteRun(work[h].run, "success", "complete", NoCounts)
     ELSE CompleteRun(work[h].run, "partial", "incomplete", NoCounts)
  /\ Becomes(h, Resting)
  /\ UNCHANGED <<text, shown, sighted>>

Fail(h) ==
  /\ At(h, "fail")
  /\ CompleteRun(work[h].run, "failed", "unknown", NoCounts)
  /\ Becomes(h, Resting)
  /\ UNCHANGED <<text, shown, sighted>>

-----------------------------------------------------------------------------
(* PATCH with a text that was tested, and the site's own life *)

Store(s, t) ==
  /\ sources[s] # NoRow
  /\ Parse(t)
  /\ text' = [text EXCEPT ![s] = t]
  /\ UNCHANGED <<storeVars, shown, work, sighted>>

SiteChanges(s, postings) ==
  /\ shown' = [shown EXCEPT ![s] = postings]
  /\ UNCHANGED <<storeVars, text, work, sighted>>

AddSource(s) ==
  /\ CreateSource(s)
  /\ UNCHANGED <<text, shown, work, sighted>>

CollectionInit ==
  /\ Init
  /\ text \in [Sources -> FirstTexts]
  /\ shown \in [Sources -> Sites]
  /\ work = [h \in Handlers |-> Resting]
  /\ sighted = {}

CollectionNext ==
  \/ \E h \in Handlers, s \in Sources, narrowed \in BOOLEAN : Request(h, s, narrowed)
  \/ \E h \in Handlers : Start(h) \/ Scrape(h) \/ Apply(h) \/ Finish(h) \/ Fail(h)
  \/ \E s \in Sources, t \in Texts : Store(s, t)
  \/ \E s \in Sources, postings \in Sites : SiteChanges(s, postings)
  \/ \E s \in Sources : AddSource(s)

CollectionSpec == CollectionInit /\ [][CollectionNext]_collectionVars

-----------------------------------------------------------------------------
(* A link key names one posting, and a posting has one link key for each    *)
(* host it was collected from, however its link was decorated: upper case,  *)
(* tracking parameters, their order, a fragment (CanonicalizeLink).         *)
LinkNamesPosting ==
  \A a, b \in sighted :
    /\ a[1] = b[1] => a[2] = b[2]
    /\ a[2] = b[2] /\ a[1][2].host = b[1][2].host => a[1] = b[1]

(* The row stands for the posting, for a run that goes by the text t: it    *)
(* has a link key of it, or agrees with it in every identity field.         *)
StandsFor(v, row, t, p) ==
  IF FieldsOf(t) = <<>> THEN <<v[2], p>> \in sighted
  ELSE /\ v[2][1] = "fallback"
       /\ \A i \in DOMAIN FieldsOf(t) :
            row.content[FieldsOf(t)[i]] = Complete(t, p)[FieldsOf(t)[i]]

(* The rows of a source that are active after the step.                     *)
ActiveNext(s) ==
  {v \in Vacancies : v[1] = s /\ vacancies'[v] # NoRow /\ vacancies'[v].listing = "active"}

(* Those of the run's source are the postings that the run was shown: each  *)
(* row is one, and each has one row, or one for each host its links name.   *)
Mirrors(h) ==
  LET active == ActiveNext(work[h].source)
      seen == {work[h].items[i].posting : i \in DOMAIN work[h].items}
      Stands(v, p) == StandsFor(v, vacancies'[v], work[h].text, p)
      Named(p) == IF FieldsOf(work[h].text) # <<>> THEN {p}
        ELSE {work[h].items[i].link.host :
                i \in {j \in DOMAIN work[h].items : work[h].items[j].posting = p}}
  IN /\ \A v \in active : \E p \in seen : Stands(v, p)
     /\ \A p \in seen : Cardinality({v \in active : Stands(v, p)}) = Cardinality(Named(p))

(* When a run ends as a complete success the active rows of its source are  *)
(* what the run was shown, by the identity of the text the run began with,  *)
(* even if the text was replaced meanwhile and even if earlier runs         *)
(* collected under other identities or with detail pages that failed.       *)
CompleteRunMirrorsSite ==
  [][\A h \in Handlers :
       At(h, "complete") /\ RunIs(work[h].run, "running")
         /\ runs'[work[h].run].completion = "complete" => Mirrors(h)]_collectionVars

(* The observations of a run are refused only for what the site shows: a    *)
(* link without a host, or no value in any of the identity fields, if the   *)
(* text has any.  A text that passed Parse never refuses a posting by       *)
(* itself.                                                                  *)
RefusedForDataOnly ==
  \A h \in Handlers :
    At(h, "fail") /\ "items" \in DOMAIN work[h] =>
      \E i \in DOMAIN work[h].items : NoIdentity(work[h].items[i], FieldsOf(work[h].text))
=============================================================================
