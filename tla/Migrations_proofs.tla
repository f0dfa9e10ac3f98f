------------------------- MODULE Migrations_proofs --------------------------
(***************************************************************************)
(* Theorems about opening a file, for any number of processes, rows and    *)
(* failures: the ledger never lies, what is handed out is ready, the       *)
(* process that replaced the table has checked it, and an identity is      *)
(* given once.                                                             *)
(***************************************************************************)
EXTENDS Migrations, TLAPS

(* What a process that is at a statement knows: its connection enforces     *)
(* foreign keys except around the second migration; the migrations before   *)
(* the one it looks at are recorded, and stay so.                           *)
Knows(p) ==
  /\ pc[p] \in {"ledger", "look", "verify", "open"} => enforced[p]
  /\ pc[p] = "apply" /\ item[p] = 1 => enforced[p]
  /\ pc[p] \in {"look", "disable", "apply"} /\ item[p] = 2 => 1 \in ledger
  /\ pc[p] = "disable" => item[p] = 2
  /\ pc[p] \in {"enable", "verify"} => item[p] = 2 /\ 2 \in ledger
  /\ pc[p] = "open" => 2 \in ledger
  /\ rebuilt[p] => pc[p] \in {"enable", "verify", "open"}
  /\ rebuilt[p] /\ pc[p] = "open" => Dangling = {}

MigrationsInv ==
  /\ MigrationsTypeOK
  /\ LedgerMatchesSchema
  /\ \A p \in Processes : Knows(p)

-----------------------------------------------------------------------------
(* The ledger as a set: the versions up to the schema.                      *)
LEMMA LedgerVersions ==
  ASSUME schema \in 0..Latest, ledger = 1..schema
  PROVE  /\ 1 \in ledger <=> schema # 0
         /\ 2 \in ledger <=> schema = 2
         /\ schema \in {0, 1, 2}
BY DEF Latest

LEMMA MigrationsInvInit == MigrationsInit => MigrationsInv
<1> SUFFICES ASSUME MigrationsInit PROVE MigrationsInv
  OBVIOUS
<1> USE DEF MigrationsInit
<1>1. MigrationsTypeOK
  BY MigrationsAssumption DEF MigrationsTypeOK, Row, Latest, Versions
<1>2. LedgerMatchesSchema
  <2>1. schema \in {0, 1} /\ ledger = 1..schema
    <3>1. 1..0 = {} /\ 1..1 = {1}
      OBVIOUS
    <3> QED BY <3>1
  <2>2. \A v \in Existing : rows[v].key = NoColumn
    BY DEF Existing
  <2> QED BY <2>1, <2>2 DEF LedgerMatchesSchema
<1>3. \A p \in Processes : Knows(p)
  BY DEF Knows
<1> QED BY <1>1, <1>2, <1>3 DEF MigrationsInv

(* A step that leaves the file alone and moves one process only has to show *)
(* where it moved to.                                                       *)
LEMMA OneMoves ==
  ASSUME MigrationsInv, NEW p \in Processes, UNCHANGED fileVars,
         stops' \in 0..MaxStops,
         NEW step \in {"closed", "ledger", "look", "disable", "apply", "enable", "verify", "open"},
         NEW i \in Versions, NEW e \in BOOLEAN, NEW b \in BOOLEAN,
         pc' = [pc EXCEPT ![p] = step], item' = [item EXCEPT ![p] = i],
         enforced' = [enforced EXCEPT ![p] = e], rebuilt' = [rebuilt EXCEPT ![p] = b],
         Knows(p)'
  PROVE  MigrationsInv'
<1> USE DEF MigrationsInv, fileVars
<1>1. MigrationsTypeOK'
  BY DEF MigrationsTypeOK
<1>2. LedgerMatchesSchema'
  BY DEF LedgerMatchesSchema, Existing
<1>3. ASSUME NEW q \in Processes, q # p
      PROVE  Knows(q)'
  <2>1. /\ pc'[q] = pc[q] /\ item'[q] = item[q]
        /\ enforced'[q] = enforced[q] /\ rebuilt'[q] = rebuilt[q]
    BY <1>3 DEF MigrationsTypeOK
  <2>2. Dangling' = Dangling
    BY DEF Dangling, Existing
  <2> QED BY <2>1, <2>2 DEF Knows
<1> QED BY <1>1, <1>2, <1>3

-----------------------------------------------------------------------------
(* The statements that leave the file alone *)

(* To go on to the next migration, or to hand out the store, is allowed to  *)
(* a process that enforces foreign keys, whose migration is recorded, and   *)
(* whose rebuilt table has been checked.                                    *)
LEMMA NextItemKeeps ==
  ASSUME MigrationsInv, NEW p \in Processes, NextItem(p),
         enforced[p], item[p] \in ledger, rebuilt[p] => item[p] = 2 /\ Dangling = {},
         UNCHANGED <<fileVars, enforced, rebuilt, stops>>
  PROVE  MigrationsInv'
<1> USE DEF MigrationsInv, MigrationsTypeOK, Versions, Latest
<1>0. /\ enforced' = [enforced EXCEPT ![p] = enforced[p]]
      /\ rebuilt' = [rebuilt EXCEPT ![p] = rebuilt[p]]
  OBVIOUS
<1>1. CASE item[p] = 2
  <2>1. pc' = [pc EXCEPT ![p] = "open"] /\ item' = [item EXCEPT ![p] = 2]
    BY <1>1 DEF NextItem, Goes
  <2>2. Knows(p)'
    BY <1>1, <2>1 DEF Knows, fileVars, Dangling, Existing
  <2>3. /\ stops' \in 0..MaxStops /\ enforced[p] \in BOOLEAN /\ rebuilt[p] \in BOOLEAN
        /\ 2 \in Versions /\ UNCHANGED fileVars
    OBVIOUS
  <2> HIDE DEF MigrationsInv, MigrationsTypeOK, Latest, Versions
  <2> QED BY <1>0, <2>1, <2>2, <2>3, OneMoves
<1>2. CASE item[p] = 1
  <2>1. pc' = [pc EXCEPT ![p] = "look"] /\ item' = [item EXCEPT ![p] = 2]
    BY <1>2 DEF NextItem, Goes
  <2>2. Knows(p)'
    BY <1>2, <2>1 DEF Knows, fileVars
  <2>3. /\ stops' \in 0..MaxStops /\ enforced[p] \in BOOLEAN /\ rebuilt[p] \in BOOLEAN
        /\ 2 \in Versions /\ UNCHANGED fileVars
    OBVIOUS
  <2> HIDE DEF MigrationsInv, MigrationsTypeOK, Latest, Versions
  <2> QED BY <1>0, <2>1, <2>2, <2>3, OneMoves
<1> QED BY <1>1, <1>2

(* A closed connection knows nothing.                                       *)
LEMMA ClosesKeeps ==
  ASSUME MigrationsInv, NEW p \in Processes, Closes(p),
         UNCHANGED fileVars, stops' \in 0..MaxStops
  PROVE  MigrationsInv'
<1>1. /\ pc' = [pc EXCEPT ![p] = "closed"] /\ enforced' = [enforced EXCEPT ![p] = FALSE]
      /\ rebuilt' = [rebuilt EXCEPT ![p] = FALSE] /\ item' = [item EXCEPT ![p] = item[p]]
      /\ item[p] \in Versions
  BY DEF Closes, Goes, MigrationsInv, MigrationsTypeOK
<1>2. Knows(p)'
  BY <1>1 DEF Knows, MigrationsInv, MigrationsTypeOK
<1> QED BY <1>1, <1>2, OneMoves

LEMMA LookKeeps ==
  ASSUME MigrationsInv, NEW p \in Processes, Look(p)
  PROVE  MigrationsInv'
<1>1. enforced[p] /\ ~rebuilt[p]
  BY DEF Look, At, MigrationsInv, Knows
<1>2. CASE item[p] \in ledger
  BY <1>1, <1>2, NextItemKeeps DEF Look
<1>3. CASE item[p] \notin ledger
  <2> DEFINE step == IF item[p] \in ForeignKeysMustBeDisabled THEN "disable" ELSE "apply"
  <2>1. /\ pc' = [pc EXCEPT ![p] = step] /\ item' = [item EXCEPT ![p] = item[p]]
        /\ enforced' = [enforced EXCEPT ![p] = enforced[p]]
        /\ rebuilt' = [rebuilt EXCEPT ![p] = rebuilt[p]]
        /\ item[p] \in Versions /\ enforced[p] \in BOOLEAN /\ rebuilt[p] \in BOOLEAN
        /\ UNCHANGED fileVars /\ stops' \in 0..MaxStops
    BY <1>3 DEF Look, Goes, MigrationsInv, MigrationsTypeOK
  <2>2. Knows(p)'
    BY <1>1, <2>1 DEF Look, At, Knows, ForeignKeysMustBeDisabled, fileVars,
                      MigrationsInv, MigrationsTypeOK
  <2> QED BY <2>1, <2>2, OneMoves
<1> QED BY <1>2, <1>3

LEMMA PragmasKeep ==
  ASSUME MigrationsInv, NEW p \in Processes,
         EnableKeys(p) \/ CreateLedger(p) \/ DisableKeys(p) \/ ReenableKeys(p)
  PROVE  MigrationsInv'
<1>0. /\ item[p] \in Versions /\ enforced[p] \in BOOLEAN /\ rebuilt[p] \in BOOLEAN
      /\ stops \in 0..MaxStops /\ 1 \in Versions /\ Knows(p)
      /\ enforced = [enforced EXCEPT ![p] = enforced[p]]
      /\ rebuilt = [rebuilt EXCEPT ![p] = rebuilt[p]] /\ item = [item EXCEPT ![p] = item[p]]
  BY DEF MigrationsInv, MigrationsTypeOK, Versions
<1> USE DEF At, Goes
<1>1. CASE EnableKeys(p)
  <2>1. Knows(p)'
    BY <1>0, <1>1 DEF EnableKeys, Knows, MigrationsInv, MigrationsTypeOK
  <2> QED BY <1>0, <1>1, <2>1, OneMoves DEF EnableKeys
<1>2. CASE CreateLedger(p)
  <2>1. Knows(p)'
    BY <1>0, <1>2 DEF CreateLedger, Knows, MigrationsInv, MigrationsTypeOK
  <2> QED BY <1>0, <1>2, <2>1, OneMoves DEF CreateLedger
<1>3. CASE DisableKeys(p)
  <2>1. Knows(p)'
    BY <1>0, <1>3 DEF DisableKeys, Knows, fileVars, MigrationsInv, MigrationsTypeOK
  <2> QED BY <1>0, <1>3, <2>1, OneMoves DEF DisableKeys
<1>4. CASE ReenableKeys(p)
  <2>1. Knows(p)'
    BY <1>0, <1>4 DEF ReenableKeys, Knows, fileVars, MigrationsInv, MigrationsTypeOK
  <2> QED BY <1>0, <1>4, <2>1, OneMoves DEF ReenableKeys
<1> QED BY <1>1, <1>2, <1>3, <1>4

LEMMA VerifyKeeps ==
  ASSUME MigrationsInv, NEW p \in Processes, Verify(p)
  PROVE  MigrationsInv'
<1>1. enforced[p] /\ item[p] = 2 /\ item[p] \in ledger /\ stops \in 0..MaxStops
  BY DEF Verify, At, MigrationsInv, MigrationsTypeOK, Knows
<1>2. CASE Dangling = {}
  BY <1>1, <1>2, NextItemKeeps DEF Verify
<1>3. CASE Dangling # {}
  BY <1>1, <1>3, ClosesKeeps DEF Verify
<1> QED BY <1>2, <1>3

-----------------------------------------------------------------------------
(* The statements that write to the file *)

(* What others know of the ledger survives, as it only grows; and a rebuilt *)
(* table that was checked stays so, as no row is lost and only references   *)
(* to rows that exist are added.                                            *)
LEMMA OthersKnow ==
  ASSUME NEW q \in Processes, Knows(q), ledger \subseteq ledger',
         pc'[q] = pc[q], item'[q] = item[q],
         enforced'[q] = enforced[q], rebuilt'[q] = rebuilt[q],
         Existing \subseteq Existing', children' \subseteq children \cup Existing
  PROVE  Knows(q)'
<1>1. Dangling' \subseteq Dangling
  BY DEF Dangling
<1> QED BY <1>1 DEF Knows

(* The first migration makes the tables of an empty file, the second gives  *)
(* each row its link as key; either fits what the ledger says before.       *)
LEMMA AppliedFile ==
  ASSUME MigrationsInv, NEW p \in Processes, Apply(p),
         StatementWorks(p), LedgerAccepts(p)
  PROVE  /\ rows' \in [Vacancies -> Row \cup {NoRow}]
         /\ schema' = item[p] /\ schema' \in 0..Latest
         /\ ledger' = ledger \cup {item[p]} /\ ledger' \subseteq Versions
         /\ LedgerMatchesSchema'
         /\ Existing' = Existing
         /\ children' = children
<1> USE DEF MigrationsInv, MigrationsTypeOK
<1>0. /\ item[p] \in {1, 2} /\ pc[p] = "apply" /\ Knows(p)
      /\ 1..0 = {} /\ 1..1 = {1} /\ 1..2 = {1, 2}
      /\ schema \in {0, 1, 2} /\ ledger = 1..schema
  BY DEF Apply, At, Versions, Latest, LedgerMatchesSchema
<1>1. /\ schema' = item[p] /\ ledger' = ledger \cup {item[p]} /\ children' = children
      /\ rows' = IF item[p] = 2 THEN RebuiltRows ELSE rows
  BY DEF Apply, RecordedVersions
<1>2. schema' \in 0..Latest /\ ledger' \subseteq Versions
  BY <1>0, <1>1 DEF Versions, Latest
<1>3. CASE item[p] = 1
  <2>1. schema = 0 /\ rows' = rows
    BY <1>1, <1>3 DEF StatementWorks
  <2>2. ledger' = 1..schema'
    BY <1>0, <1>1, <1>3, <2>1
  <2>3. LedgerMatchesSchema'
    BY <1>1, <1>3, <2>1, <2>2 DEF LedgerMatchesSchema, Existing
  <2> QED BY <1>1, <1>2, <2>1, <2>3 DEF Existing
<1>4. CASE item[p] = 2
  <2>1. schema = 1
    BY <1>0, <1>4 DEF LedgerAccepts, Knows
  <2>2. ledger' = 1..schema'
    BY <1>0, <1>1, <1>4, <2>1
  <2>3. /\ rows' = RebuiltRows
        /\ \A v \in Vacancies : rows[v] = NoRow => rows'[v] = NoRow
        /\ \A v \in Vacancies : rows[v] # NoRow =>
             /\ rows[v] \in Row
             /\ rows'[v] = [rows[v] EXCEPT !.key = rows[v].link]
    BY <1>1, <1>4 DEF RebuiltRows
  <2>4. \A v \in Vacancies : rows[v] # NoRow =>
          /\ rows'[v] # NoRow /\ rows'[v] \in Row
          /\ rows'[v].link = rows[v].link /\ rows'[v].key = rows[v].link
          /\ rows[v].link \in Links
    <3> SUFFICES ASSUME NEW v \in Vacancies, rows[v] # NoRow
                 PROVE  /\ rows'[v] # NoRow /\ rows'[v] \in Row
                        /\ rows'[v].link = rows[v].link /\ rows'[v].key = rows[v].link
                        /\ rows[v].link \in Links
      OBVIOUS
    <3>1. /\ rows[v] \in Row
          /\ rows'[v] = [rows[v] EXCEPT !.key = rows[v].link]
      BY <2>3
    <3>2. rows[v].link \in Links /\ rows'[v] = [link |-> rows[v].link, key |-> rows[v].link]
      BY <3>1 DEF Row
    <3>3. rows'[v] \in Row
      BY <3>2 DEF Row
    <3>4. rows'[v].link = rows[v].link /\ rows'[v].key = rows[v].link
      BY <3>2
    <3> QED BY <3>2, <3>3, <3>4, MigrationsNoRow
  <2>5. Existing' = Existing
    BY <2>3, <2>4 DEF Existing
  <2>6. LedgerMatchesSchema'
    <3>1. \A v \in Existing' : rows'[v].key # NoColumn
      BY <2>4, <2>5, MigrationsAssumption DEF Existing
    <3>2. \A v, w \in Existing' : rows'[v].key = rows'[w].key => v = w
      BY <1>4, <2>4, <2>5 DEF StatementWorks, LinksAreUnique, Existing
    <3> QED BY <1>1, <1>4, <2>2, <3>1, <3>2 DEF LedgerMatchesSchema
  <2>7. rows' \in [Vacancies -> Row \cup {NoRow}]
    BY <2>3, <2>4 DEF RebuiltRows
  <2> QED BY <1>1, <1>2, <2>5, <2>6, <2>7
<1> QED BY <1>0, <1>3, <1>4

LEMMA ApplyKeeps ==
  ASSUME MigrationsInv, NEW p \in Processes, Apply(p)
  PROVE  MigrationsInv'
<1> USE DEF MigrationsInv
<1>1. CASE ~(StatementWorks(p) /\ LedgerAccepts(p))
  <2>1. Closes(p) /\ UNCHANGED fileVars /\ stops' \in 0..MaxStops
    BY <1>1 DEF Apply, MigrationsTypeOK
  <2> QED BY <2>1, ClosesKeeps
<1>2. CASE StatementWorks(p) /\ LedgerAccepts(p)
  <2>0. /\ rows' \in [Vacancies -> Row \cup {NoRow}]
        /\ schema' \in 0..Latest
        /\ ledger' = ledger \cup {item[p]} /\ ledger' \subseteq Versions
        /\ LedgerMatchesSchema'
        /\ Existing' = Existing
        /\ children' = children
    BY <1>2, AppliedFile
  <2>1. /\ item[p] \in {1, 2} /\ pc[p] = "apply" /\ Knows(p) /\ ~rebuilt[p]
        /\ enforced' = enforced /\ stops' = stops
    BY <1>2 DEF Apply, At, MigrationsTypeOK, Versions, Knows
  <2>2. CASE item[p] = 1
    <3>1. /\ pc' = [pc EXCEPT ![p] = "look"] /\ item' = [item EXCEPT ![p] = 2]
          /\ rebuilt' = rebuilt
      BY <1>2, <2>2 DEF Apply, NextItem, Goes, ForeignKeysMustBeDisabled, Latest
    <3>2. MigrationsTypeOK'
      BY <2>0, <2>1, <3>1 DEF MigrationsTypeOK, Versions
    <3>3. Knows(p)'
      BY <2>0, <2>1, <2>2, <3>1 DEF Knows, MigrationsTypeOK
    <3>4. ASSUME NEW q \in Processes, q # p PROVE Knows(q)'
      BY <2>0, <2>1, <3>1, <3>4, OthersKnow DEF MigrationsTypeOK
    <3> QED BY <2>0, <3>2, <3>3, <3>4
  <2>3. CASE item[p] = 2
    <3>1. /\ pc' = [pc EXCEPT ![p] = "enable"] /\ item' = item
          /\ rebuilt' = [rebuilt EXCEPT ![p] = TRUE]
      BY <1>2, <2>3 DEF Apply, Goes, ForeignKeysMustBeDisabled
    <3>2. MigrationsTypeOK'
      BY <2>0, <2>1, <3>1 DEF MigrationsTypeOK
    <3>3. Knows(p)'
      BY <2>0, <2>1, <2>3, <3>1 DEF Knows, MigrationsTypeOK
    <3>4. ASSUME NEW q \in Processes, q # p PROVE Knows(q)'
      BY <2>0, <2>1, <3>1, <3>4, OthersKnow DEF MigrationsTypeOK
    <3> QED BY <2>0, <3>2, <3>3, <3>4
  <2> QED BY <2>1, <2>2, <2>3
<1> QED BY <1>1, <1>2

LEMMA ObserveKeeps ==
  ASSUME MigrationsInv, NEW p \in Processes, Observe(p)
  PROVE  MigrationsInv'
<1> USE DEF MigrationsInv
<1>0. /\ UNCHANGED <<schema, ledger, pc, item, enforced, rebuilt, stops>>
      /\ schema = 2
  <2>1. 2 \in ledger
    BY DEF Observe, At, Knows
  <2> QED BY <2>1, LedgerVersions DEF Observe, MigrationsTypeOK, LedgerMatchesSchema
<1>1. /\ MigrationsTypeOK' /\ LedgerMatchesSchema'
      /\ Existing \subseteq Existing' /\ children' \subseteq children \cup Existing
  <2>1. ASSUME NEW v \in Vacancies, NEW link \in Links, NEW key \in Links \cup Fingerprints,
               rows[v] = NoRow, \A w \in Existing : rows[w].key # key,
               rows' = [rows EXCEPT ![v] = [link |-> link, key |-> key]],
               children' = children
        PROVE  /\ MigrationsTypeOK' /\ LedgerMatchesSchema'
               /\ Existing \subseteq Existing' /\ children' \subseteq children \cup Existing
    <3>1. [link |-> link, key |-> key] \in Row
      BY DEF Row
    <3>2. MigrationsTypeOK'
      BY <1>0, <2>1, <3>1 DEF MigrationsTypeOK
    <3>3. /\ rows'[v] = [link |-> link, key |-> key]
          /\ \A w \in Existing : w # v /\ rows'[w] = rows[w] /\ w \in Existing'
          /\ Existing' \subseteq Existing \cup {v}
      BY <2>1 DEF Existing, MigrationsTypeOK
    <3>4. key # NoColumn
      BY MigrationsAssumption
    <3>5. LedgerMatchesSchema'
      BY <1>0, <2>1, <3>3, <3>4 DEF LedgerMatchesSchema
    <3> QED BY <2>1, <3>2, <3>3, <3>5
  <2>2. ASSUME NEW v \in Existing, children' = children \cup {v}, rows' = rows
        PROVE  /\ MigrationsTypeOK' /\ LedgerMatchesSchema'
               /\ Existing \subseteq Existing' /\ children' \subseteq children \cup Existing
    BY <1>0, <2>2 DEF MigrationsTypeOK, LedgerMatchesSchema, Existing
  <2> QED BY <2>1, <2>2 DEF Observe
<1>2. ASSUME NEW q \in Processes PROVE Knows(q)'
  BY <1>0, <1>1, OthersKnow
<1> QED BY <1>1, <1>2

-----------------------------------------------------------------------------
LEMMA MigrationsInvNext ==
  MigrationsInv /\ [MigrationsNext]_migrationVars => MigrationsInv'
<1> SUFFICES ASSUME MigrationsInv, [MigrationsNext]_migrationVars PROVE MigrationsInv'
  OBVIOUS
<1>1. ASSUME NEW p \in Processes, OpenStep(p) PROVE MigrationsInv'
  BY <1>1, PragmasKeep, LookKeeps, ApplyKeeps, VerifyKeeps DEF OpenStep
<1>2. ASSUME NEW p \in Processes, Observe(p) PROVE MigrationsInv'
  BY <1>2, ObserveKeeps
<1>3. ASSUME NEW p \in Processes, Stop(p) PROVE MigrationsInv'
  <2>1. Closes(p) /\ UNCHANGED fileVars /\ stops' \in 0..MaxStops
    BY <1>3, MigrationsAssumption DEF Stop, MigrationsInv, MigrationsTypeOK
  <2> QED BY <2>1, ClosesKeeps
<1>4. CASE UNCHANGED migrationVars
  BY <1>4 DEF migrationVars, fileVars, MigrationsInv, MigrationsTypeOK,
              LedgerMatchesSchema, Knows, Existing, Dangling
<1> QED BY <1>1, <1>2, <1>3, <1>4 DEF MigrationsNext

(* The state keeps its shape, the ledger fits the schema, and each process  *)
(* knows what its place in Open says, under any errors and crashes.         *)
THEOREM MigrationsTypeCorrect == MigrationsSpec => []MigrationsInv
BY MigrationsInvInit, MigrationsInvNext, PTL DEF MigrationsSpec

(* At every moment, whatever fails and however many processes race, the     *)
(* ledger says what the schema is and each row has a key that fits it.      *)
THEOREM LedgerNeverLies == MigrationsSpec => []LedgerMatchesSchema
<1>1. MigrationsInv => LedgerMatchesSchema
  BY DEF MigrationsInv
<1> QED BY <1>1, MigrationsTypeCorrect, PTL

(* A store that Open has returned has the latest schema and enforces        *)
(* foreign keys.                                                            *)
THEOREM HandedOutReady == MigrationsSpec => []OpenedIsReady
<1>1. MigrationsInv => OpenedIsReady
  BY LedgerVersions DEF MigrationsInv, MigrationsTypeOK, LedgerMatchesSchema, Knows,
                        OpenedIsReady, At, Latest
<1> QED BY <1>1, MigrationsTypeCorrect, PTL

(* The process that replaced the table returns only a store whose           *)
(* references are whole.                                                    *)
THEOREM RebuilderChecks == MigrationsSpec => []RebuiltIsChecked
<1>1. MigrationsInv => RebuiltIsChecked
  BY DEF MigrationsInv, Knows, RebuiltIsChecked, At
<1> QED BY <1>1, MigrationsTypeCorrect, PTL

(* No row and no reference is ever lost, and an identity key changes only   *)
(* once, from none to the link: a second process that is about to apply the *)
(* migration again is stopped by the ledger, not by its own earlier look.   *)
THEOREM IdentityIsGivenOnce == MigrationsSpec => IdentitySurvives
<1> DEFINE Kept == /\ children \subseteq children'
                   /\ \A v \in Existing :
                        /\ rows'[v] # NoRow
                        /\ rows'[v].link = rows[v].link
                        /\ rows'[v].key # rows[v].key =>
                             rows[v].key = NoColumn /\ rows'[v].key = rows[v].link
<1>1. MigrationsInv /\ [MigrationsNext]_migrationVars => [Kept]_migrationVars
  <2> SUFFICES ASSUME MigrationsInv, [MigrationsNext]_migrationVars PROVE Kept
    OBVIOUS
  <2>1. CASE UNCHANGED fileVars
    BY <2>1 DEF fileVars, Existing
  <2>2. ASSUME NEW p \in Processes, Apply(p), StatementWorks(p), LedgerAccepts(p)
        PROVE  Kept
    <3>1. schema' = item[p] /\ children' = children /\ Existing' = Existing
      BY <2>2, AppliedFile
    <3>2. CASE item[p] = 1
      <4>1. rows' = rows
        BY <2>2, <3>2 DEF Apply
      <4> QED BY <3>1, <4>1 DEF Existing
    <3>3. CASE item[p] = 2
      <4>1. schema < 2
        BY <2>2, <3>3, LedgerVersions
          DEF MigrationsInv, MigrationsTypeOK, LedgerMatchesSchema, LedgerAccepts, Latest
      <4>2. \A v \in Existing : rows[v].key = NoColumn /\ rows[v] \in Row
        BY <4>1 DEF MigrationsInv, MigrationsTypeOK, LedgerMatchesSchema, Existing
      <4>3. \A v \in Existing : rows'[v] = [rows[v] EXCEPT !.key = rows[v].link]
        BY <2>2, <3>3 DEF Apply, RebuiltRows, Existing
      <4>4. \A v \in Existing : rows'[v].key = rows[v].link /\ rows'[v].link = rows[v].link
        BY <4>2, <4>3 DEF Row
      <4> QED BY <3>1, <4>2, <4>4 DEF Existing
    <3> QED BY <2>2, <3>2, <3>3 DEF MigrationsInv, MigrationsTypeOK, Versions
  <2>3. ASSUME NEW p \in Processes, Observe(p) PROVE Kept
    BY <2>3 DEF Observe, MigrationsInv, MigrationsTypeOK, Existing
  <2>4. ASSUME NEW p \in Processes, OpenStep(p) \/ Stop(p), ~UNCHANGED fileVars
        PROVE  Apply(p) /\ StatementWorks(p) /\ LedgerAccepts(p)
    BY <2>4 DEF OpenStep, Stop, EnableKeys, CreateLedger, Look, DisableKeys, Apply,
                ReenableKeys, Verify
  <2>5. CASE UNCHANGED migrationVars
    BY <2>1, <2>5 DEF migrationVars
  <2> QED BY <2>1, <2>2, <2>3, <2>4, <2>5 DEF MigrationsNext
<1> QED BY <1>1, MigrationsTypeCorrect, PTL DEF MigrationsSpec, IdentitySurvives
=============================================================================
