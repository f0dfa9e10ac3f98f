---------------------------- MODULE SourceConfig ----------------------------
(***************************************************************************)
(* internal/config: the YAML text that describes a source, and what Parse  *)
(* asks of it before it may be stored or run.  A selector is one of four   *)
(* kinds; an optional block that the text does not have is NoBlock.        *)
(***************************************************************************)
EXTENDS Integers, Sequences, Functions

CONSTANTS
  Hosts,    \* hosts a URL may name
  NoHost,   \* the host of a text that is not an absolute URL
  NoBlock   \* an optional block that is absent

Selector == {"empty", "spaces", "valid", "invalid"}
Blank == {"empty", "spaces"}

(* The fields a vacancy has, in a listing and on its detail page.           *)
Fields == {"title", "company", "salary", "description"}

ListSelectors == {"wait", "container", "card", "link"} \cup Fields

(* The shape of a text; known is FALSE if it has a field that Source lacks. *)
SourceText ==
  [known : BOOLEAN, siteName : {"blank", "given"},
   baseHost : Hosts \cup {NoHost},
   searchHost : Hosts \cup {NoBlock},
   timeoutSeconds : Int, settleDelayMS : Int,
   selectors : [ListSelectors -> Selector],
   pagination : [type : {"scroll_or_button", "other"}, attempts : Int,
                 maxIterations : Int, selectors : SUBSET Selector] \cup {NoBlock},
   detail : [wait : Selector, timeoutSeconds : Int,
             selectors : [Fields -> Selector]] \cup {NoBlock},
   searchOnUI : [input : Selector, submit : Selector, enter : BOOLEAN] \cup {NoBlock},
   identity : Seq(STRING) \cup {NoBlock}]

-----------------------------------------------------------------------------
RequiredSelectors(text) ==
  \A name \in {"container", "card", "title", "link"} : text.selectors[name] \notin Blank

(* A selector of spaces is not "", so it counts here as a field to read.    *)
ValidateDetailPage(text) ==
  text.detail # NoBlock =>
    /\ text.detail.wait \notin Blank
    /\ text.detail.timeoutSeconds > 0
    /\ Range(text.detail.selectors) # {"empty"}

(* Mutant: the names of the fields are not looked at.                       *)
ValidateIdentityAnyField(text) ==
  text.identity # NoBlock => Len(text.identity) > 0

ValidateIdentity(text) ==
  text.identity # NoBlock =>
    LET fields == text.identity IN
      /\ Len(fields) > 0
      /\ Range(fields) \subseteq Fields
      /\ \A i, j \in DOMAIN fields : fields[i] = fields[j] => i = j

ValidateCSSSelectors(text) ==
  "invalid" \notin
    Range(text.selectors)
      \cup (IF text.pagination = NoBlock THEN {} ELSE text.pagination.selectors)
      \cup (IF text.detail = NoBlock THEN {}
            ELSE {text.detail.wait} \cup Range(text.detail.selectors))
      \cup (IF text.searchOnUI = NoBlock THEN {}
            ELSE {text.searchOnUI.input, text.searchOnUI.submit})

ValidatePagination(text) ==
  text.pagination # NoBlock =>
    /\ text.pagination.type = "scroll_or_button"
    /\ text.pagination.attempts > 0
    /\ text.pagination.maxIterations > 0

Validate(text) ==
  /\ text.siteName # "blank"
  /\ text.baseHost # NoHost
  /\ text.timeoutSeconds > 0
  /\ text.settleDelayMS >= 0
  /\ RequiredSelectors(text)
  /\ ValidateDetailPage(text)
  /\ ValidateIdentity(text)
  /\ ValidateCSSSelectors(text)
  /\ ValidatePagination(text)

Parse(text) == text.known /\ Validate(text)
=============================================================================
