---------------------------- MODULE MCCollection ----------------------------
(* Collection for TLC: a site with two postings that differ in their detail *)
(* pages only, and one whose link has no host and whose fields are empty;   *)
(* texts of every kind of identity, and three that Parse must refuse.       *)
EXTENDS Collection

CONSTANTS s1, p1, p2, p3, h1, h2

MCSources == {s1}
MCHandlers == {h1, h2}
MCHosts == {"site", "www"}
MCPostings == {p1, p2, p3}
MCMatching == {p1}
MCSites == {{p1, p2}, {p2, p3}}

Id   == [family |-> "id", upper |-> FALSE]
IdUp == [family |-> "id", upper |-> TRUE]
Page == [family |-> "page", upper |-> FALSE]
Utm  == [family |-> "utm_", upper |-> FALSE]
UtmUp == [family |-> "utm_", upper |-> TRUE]

MCParamNames == <<IdUp, UtmUp, Id, Page, Utm>>

Address(host, query) ==
  [host |-> host, upper |-> FALSE, path |-> "/jobs", query |-> query, fragment |-> FALSE]

(* The first posting is linked plainly, with its parameters in another      *)
(* order, or decorated; the second differs from it in one value, or in the  *)
(* case of a name only.                                                     *)
MCHrefs ==
  (p1 :> {Address("relative", <<<<Id, 1>>, <<Page, 1>>>>),
          [Address("site", <<<<UtmUp, 7>>, <<Page, 1>>, <<Id, 1>>, <<Utm, 8>>>>)
             EXCEPT !.upper = TRUE, !.fragment = TRUE]})
  @@ (p2 :> {Address("relative", <<<<Page, 1>>, <<IdUp, 1>>>>)})
  @@ (p3 :> {Address(NoHost, <<>>)})

Shows(title, company, salary) ==
  [title |-> title, company |-> company, salary |-> salary, description |-> ""]

(* One value stands in a different field of each posting.                   *)
MCListedValues ==
  (p1 :> Shows("Go", "", "")) @@ (p2 :> Shows("Go", "", "")) @@ (p3 :> Shows("", "", ""))
MCDetailValues ==
  (p1 :> Shows("", "TBA", "")) @@ (p2 :> Shows("", "", "TBA")) @@ (p3 :> Shows("", "", ""))

ByLink ==
  [known |-> TRUE, siteName |-> "given", baseHost |-> "site", searchHost |-> NoBlock,
   timeoutSeconds |-> 1, settleDelayMS |-> 0,
   selectors |-> [name \in ListSelectors |-> "valid"],
   pagination |-> NoBlock, detail |-> NoBlock, searchOnUI |-> NoBlock, identity |-> NoBlock]

BySearch == [ByLink EXCEPT !.searchHost = "www"]

ByFields == [ByLink EXCEPT
  !.identity = <<"title", "company", "salary">>,
  !.detail = [wait |-> "valid", timeoutSeconds |-> 1,
              selectors |-> [f \in Fields |-> IF f \in {"company", "salary"} THEN "valid" ELSE "empty"]]]

ByPages == [ByLink EXCEPT
  !.searchOnUI = [input |-> "valid", submit |-> "empty", enter |-> TRUE],
  !.pagination = [type |-> "scroll_or_button", attempts |-> 1, maxIterations |-> 1,
                  selectors |-> {"empty"}]]

ByLinkField == [ByLink EXCEPT !.identity = <<"link">>]

MCTexts == {BySearch, ByFields, ByPages, ByLinkField,
            [ByLink EXCEPT !.known = FALSE], [ByLink EXCEPT !.selectors["card"] = "invalid"]}

MCFirstTexts == {ByFields, ByLinkField}

MCContents ==
  {Shows(title, company, salary) :
     title \in {"", "Go"}, company \in {"", "TBA"}, salary \in {"", "TBA"}}
MCTracked == [c \in MCContents |-> <<c.title, c.company, c.salary>>]

(* Every identity that one of the texts can give to one of the postings.    *)
MCKeys ==
  UNION {UNION {{IdentityOf(ResolveReference(href, host), c, FieldsOf(t), NoKey) :
                   href \in Hrefs[p], host \in Hosts, c \in {Listed(t, p), Complete(t, p)}} :
                p \in {p1, p2, p3}} : t \in MCTexts \cup MCFirstTexts}
    \ {NoKey}

Symmetry == Permutations(RunIds) \cup Permutations(Handlers)
=============================================================================
