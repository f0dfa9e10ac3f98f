-------------------------- MODULE VacancyIdentity ---------------------------
(***************************************************************************)
(* Which postings are one vacancy: CanonicalizeLink and vacancyIdentity of *)
(* internal/storage, with the reading of a card by internal/scraper that   *)
(* decides what they are given.                                            *)
(*                                                                         *)
(* A link is a host (in upper case or not), a path, the parameters of its  *)
(* query in their order, and a fragment or none.  The name of a parameter  *)
(* is a family (id, utm_*, gclid, fbclid) and its case.                    *)
(***************************************************************************)
EXTENDS SourceConfig, FiniteSets, SequencesExt

CONSTANTS
  ParamNames,  \* the names of query parameters, a sequence in byte order
  BaseHost     \* in an href: the host of the page, as in a relative link

ASSUME NamesAssumption == ParamNames \in Seq([family : STRING, upper : BOOLEAN])

Link(hosts, paths, values) ==
  [host : hosts, upper : BOOLEAN, path : paths,
   query : Seq(ToSet(ParamNames) \X values), fragment : BOOLEAN]

-----------------------------------------------------------------------------
(* CanonicalizeLink *)

(* Mutant: the name of a tracking parameter is compared as it is written.   *)
TrackingInLowerCase(name) ==
  name.family \in {"utm_", "gclid", "fbclid"} /\ ~name.upper

Tracking(name) == name.family \in {"utm_", "gclid", "fbclid"}

(* The parameters of a query that are not deleted, by their places.         *)
Kept(query) == {i \in DOMAIN query : ~Tracking(query[i][1])}

NameOrder(name) == CHOOSE n \in DOMAIN ParamNames : ParamNames[n] = name

(* Mutant: the parameters stay in the order of the link.                    *)
BeforeAsWritten(query, i, j) == i < j

(* url.Values.Encode sorts by name; equal names keep their order.           *)
Before(query, i, j) ==
  \/ NameOrder(query[i][1]) < NameOrder(query[j][1])
  \/ query[i][1] = query[j][1] /\ i < j

Place(query, kept, j) == Cardinality({i \in kept : i = j \/ Before(query, i, j)})

Encode(query, kept) ==
  [n \in 1..Cardinality(kept) |-> query[CHOOSE j \in kept : Place(query, kept, j) = n]]

(* Mutant: the fragment stays.                                              *)
CanonicalizeLinkKeepsFragment(link) ==
  [link EXCEPT !.upper = FALSE, !.query = Encode(@, Kept(@))]

CanonicalizeLink(link) ==
  [link EXCEPT !.upper = FALSE, !.fragment = FALSE, !.query = Encode(@, Kept(@))]

-----------------------------------------------------------------------------
(* vacancyIdentity *)

(* Mutant: an empty value is written like no value at all.                  *)
FingerprintOfGiven(content, fields) ==
  SelectSeq([i \in DOMAIN fields |-> content[fields[i]]], LAMBDA value : value # "")

(* The digest is taken over each field's name, length and value, so that    *)
(* different values never run into one another.                             *)
Fingerprint(content, fields) ==
  [i \in DOMAIN fields |-> <<fields[i], content[fields[i]]>>]

(* Without a host there is no identity, not even by fields.                 *)
IdentityOf(link, content, fields, none) ==
  IF link.host = NoHost THEN none
  ELSE IF fields = <<>> THEN <<"link", CanonicalizeLink(link)>>
  ELSE IF \E i \in DOMAIN fields : fields[i] \notin Fields THEN none
  ELSE IF \A i \in DOMAIN fields : content[fields[i]] = "" THEN none
  ELSE <<"fallback", Fingerprint(content, fields)>>

-----------------------------------------------------------------------------
(* Reading a card and its detail page *)

(* A relative link belongs to the host of the page that was opened.         *)
ResolveReference(link, host) ==
  IF link.host = BaseHost THEN [link EXCEPT !.host = host] ELSE link

(* A field without a selector is empty; one of spaces matches nothing.      *)
Text(selectors, values) ==
  [f \in Fields |-> IF selectors[f] = "valid" THEN values[f] ELSE ""]

(* What the detail page lacks stays as the list shows it.                   *)
OverwriteNonEmpty(content, details) ==
  [f \in Fields |-> IF details[f] # "" THEN details[f] ELSE content[f]]
=============================================================================
