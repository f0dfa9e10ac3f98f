----------------------------- MODULE Migrations ------------------------------
(***************************************************************************)
(* storage.Open: one or more processes bring one SQLite file to the latest *)
(* schema (applyMigrations, applyMigration) and then use it.               *)
(*                                                                         *)
(* A migration is one transaction, but the look at the ledger before it    *)
(* and the foreign-key pragmas and the check around it are statements of   *)
(* their own: another process, an error or a crash may come between any    *)
(* two of them.  The pragma belongs to the connection and is lost with it; *)
(* the file keeps what was committed.                                      *)
(***************************************************************************)
EXTENDS Integers

CONSTANTS
  Processes,     \* processes that open the file
  Vacancies,     \* ids of rows of the table vacancies
  Links,         \* canonical links
  Fingerprints,  \* fallback identity keys
  MaxStops,      \* bound on errors and crashes
  NoRow,         \* a vacancy that does not exist
  NoColumn       \* the identity key of a row while the table has no such column

ASSUME MigrationsAssumption ==
  /\ MaxStops \in Nat
  /\ NoColumn \notin Links \cup Fingerprints

Versions == 1..2
Latest == 2

(* Only the second migration replaces a table that others refer to.         *)
ForeignKeysMustBeDisabled == {2}

Row == [link : Links, key : Links \cup Fingerprints \cup {NoColumn}]
ASSUME MigrationsNoRow == NoRow \notin Row

VARIABLES
  schema,    \* file: the schema it has, 0 for an empty file
  ledger,    \* file: the versions in schema_migrations
  rows,      \* file: table vacancies
  children,  \* file: the vacancies that history and composition rows refer to
  pc,        \* the next statement of each process
  item,      \* the migration it looks at
  enforced,  \* is foreign_keys on for its connection?
  rebuilt,   \* observed: its connection has replaced the table
  stops      \* errors and crashes still to come

fileVars == <<schema, ledger, rows, children>>
migrationVars == <<fileVars, pc, item, enforced, rebuilt, stops>>

Existing == {v \in Vacancies : rows[v] # NoRow}

(* What PRAGMA foreign_key_check reports.                                   *)
Dangling == children \ Existing

At(p, step) == pc[p] = step
Goes(p, step) == pc' = [pc EXCEPT ![p] = step]

(* db.Close or the end of the process: the connection is gone.              *)
Closes(p) ==
  /\ Goes(p, "closed")
  /\ enforced' = [enforced EXCEPT ![p] = FALSE]
  /\ rebuilt' = [rebuilt EXCEPT ![p] = FALSE]
  /\ UNCHANGED item

-----------------------------------------------------------------------------
(* The statements of Open, in their order *)

EnableKeys(p) ==
  /\ At(p, "closed")
  /\ enforced' = [enforced EXCEPT ![p] = TRUE]
  /\ Goes(p, "ledger")
  /\ UNCHANGED <<fileVars, item, rebuilt, stops>>

(* CREATE TABLE IF NOT EXISTS: the ledger of a new file is empty.           *)
CreateLedger(p) ==
  /\ At(p, "ledger")
  /\ item' = [item EXCEPT ![p] = 1]
  /\ Goes(p, "look")
  /\ UNCHANGED <<fileVars, enforced, rebuilt, stops>>

NextItem(p) ==
  IF item[p] = Latest THEN Goes(p, "open") /\ UNCHANGED item
  ELSE Goes(p, "look") /\ item' = [item EXCEPT ![p] = @ + 1]

Look(p) ==
  /\ At(p, "look")
  /\ IF item[p] \in ledger THEN NextItem(p)
     ELSE /\ Goes(p, IF item[p] \in ForeignKeysMustBeDisabled THEN "disable" ELSE "apply")
          /\ UNCHANGED item
  /\ UNCHANGED <<fileVars, enforced, rebuilt, stops>>

(* Mutant: the pragma is forgotten.                                         *)
DisableKeysNot(p) ==
  /\ At(p, "disable")
  /\ Goes(p, "apply")
  /\ UNCHANGED <<fileVars, item, enforced, rebuilt, stops>>

DisableKeys(p) ==
  /\ At(p, "disable")
  /\ enforced' = [enforced EXCEPT ![p] = FALSE]
  /\ Goes(p, "apply")
  /\ UNCHANGED <<fileVars, item, rebuilt, stops>>

(* The links of two rows never meet in one unique key.                      *)
LinksAreUnique == \A v, w \in Existing : rows[v].link = rows[w].link => v = w

(* The first migration creates tables that must not exist; the second drops *)
(* a table, which an enforcing connection refuses while rows refer to it,   *)
(* and ends with a unique index on the keys it has filled.                  *)
StatementWorks(p) ==
  IF item[p] = 1 THEN schema = 0
  ELSE LinksAreUnique /\ (~enforced[p] \/ children \cap Existing = {})

(* Mutant: INSERT OR IGNORE.                                                *)
LedgerAcceptsAgain(p) == TRUE

(* The version is the primary key of the ledger.                            *)
LedgerAccepts(p) == item[p] \notin ledger

(* Mutant: the new table starts without the rows that have no history.      *)
RebuiltRowsInner ==
  [v \in Vacancies |-> IF rows[v] # NoRow /\ v \in children
                       THEN [rows[v] EXCEPT !.key = rows[v].link] ELSE NoRow]

(* Mutant: only rows with a history get a key.                              *)
RebuiltRowsUnfilled ==
  [v \in Vacancies |-> IF rows[v] # NoRow /\ v \in children
                       THEN [rows[v] EXCEPT !.key = rows[v].link] ELSE rows[v]]

(* Every row is copied, its canonical link is its identity key.             *)
RebuiltRows ==
  [v \in Vacancies |-> IF rows[v] = NoRow THEN NoRow
                       ELSE [rows[v] EXCEPT !.key = rows[v].link]]

(* Mutant: the second migration is not recorded.                            *)
RecordedFirst(p) == IF item[p] = 1 THEN ledger \cup {1} ELSE ledger

RecordedVersions(p) == ledger \cup {item[p]}

(* One transaction: the statements of the file and the row of the ledger,   *)
(* or an error that undoes both and closes the database.                    *)
Apply(p) ==
  /\ At(p, "apply")
  /\ IF StatementWorks(p) /\ LedgerAccepts(p)
     THEN /\ schema' = item[p]
          /\ ledger' = RecordedVersions(p)
          /\ rows' = IF item[p] = 2 THEN RebuiltRows ELSE rows
          /\ IF item[p] \in ForeignKeysMustBeDisabled
             THEN /\ Goes(p, "enable") /\ UNCHANGED item
                  /\ rebuilt' = [rebuilt EXCEPT ![p] = TRUE]
             ELSE NextItem(p) /\ UNCHANGED rebuilt
          /\ UNCHANGED <<children, enforced>>
     ELSE Closes(p) /\ UNCHANGED fileVars
  /\ UNCHANGED stops

(* Mutant: the check runs, the pragma is not set back.                      *)
ReenableKeysNot(p) ==
  /\ At(p, "enable")
  /\ Goes(p, "verify")
  /\ UNCHANGED <<fileVars, item, enforced, rebuilt, stops>>

ReenableKeys(p) ==
  /\ At(p, "enable")
  /\ enforced' = [enforced EXCEPT ![p] = TRUE]
  /\ Goes(p, "verify")
  /\ UNCHANGED <<fileVars, item, rebuilt, stops>>

(* Mutant: what the check reports is not read.                              *)
VerifyNothing(p) ==
  /\ At(p, "verify")
  /\ NextItem(p)
  /\ UNCHANGED <<fileVars, enforced, rebuilt, stops>>

Verify(p) ==
  /\ At(p, "verify")
  /\ IF Dangling = {} THEN NextItem(p) /\ UNCHANGED <<enforced, rebuilt>> ELSE Closes(p)
  /\ UNCHANGED <<fileVars, stops>>

OpenStep(p) ==
  \/ EnableKeys(p) \/ CreateLedger(p) \/ Look(p) \/ DisableKeys(p)
  \/ Apply(p) \/ ReenableKeys(p) \/ Verify(p)

-----------------------------------------------------------------------------
(* An opened store, and what may happen at any time *)

(* A run observes a new vacancy, by link or by fingerprint, or adds to the  *)
(* history of one that exists.                                              *)
Observe(p) ==
  /\ At(p, "open")
  /\ \/ \E v \in Vacancies, link \in Links, key \in Links \cup Fingerprints :
          /\ rows[v] = NoRow
          /\ key \in Fingerprints \cup {link}
          /\ \A w \in Existing : rows[w].key # key
          /\ rows' = [rows EXCEPT ![v] = [link |-> link, key |-> key]]
          /\ UNCHANGED children
     \/ \E v \in Existing : children' = children \cup {v} /\ UNCHANGED rows
  /\ UNCHANGED <<schema, ledger, pc, item, enforced, rebuilt, stops>>

(* Any statement fails (a busy or a full disk, a locked file), or the       *)
(* process dies: an open transaction is undone, the connection is closed.   *)
Stop(p) ==
  /\ stops > 0
  /\ ~At(p, "closed")
  /\ stops' = stops - 1
  /\ Closes(p)
  /\ UNCHANGED fileVars

(* The file as it is found: a new one, or one the release before the second *)
(* migration has used.  Foreign keys are a matter of each connection, so    *)
(* another tool may have left a row that refers to a vacancy that is gone.  *)
MigrationsInit ==
  /\ \/ /\ schema = 0 /\ ledger = {}
        /\ rows = [v \in Vacancies |-> NoRow] /\ children = {}
     \/ /\ schema = 1 /\ ledger = {1}
        /\ rows \in [Vacancies -> [link : Links, key : {NoColumn}] \cup {NoRow}]
        /\ LinksAreUnique
        /\ children \in SUBSET Vacancies
  /\ pc = [p \in Processes |-> "closed"]
  /\ item = [p \in Processes |-> 1]
  /\ enforced = [p \in Processes |-> FALSE]
  /\ rebuilt = [p \in Processes |-> FALSE]
  /\ stops = MaxStops

MigrationsNext == \E p \in Processes : OpenStep(p) \/ Observe(p) \/ Stop(p)

(* A process goes on with Open, and one that failed is started again.       *)
MigrationsSpec ==
  /\ MigrationsInit /\ [][MigrationsNext]_migrationVars
  /\ \A p \in Processes : WF_migrationVars(OpenStep(p))

-----------------------------------------------------------------------------
(* The shape of the state.                                                  *)
MigrationsTypeOK ==
  /\ schema \in 0..Latest /\ ledger \subseteq Versions
  /\ rows \in [Vacancies -> Row \cup {NoRow}]
  /\ children \subseteq Vacancies
  /\ pc \in [Processes -> {"closed", "ledger", "look", "disable", "apply",
                           "enable", "verify", "open"}]
  /\ item \in [Processes -> Versions]
  /\ enforced \in [Processes -> BOOLEAN] /\ rebuilt \in [Processes -> BOOLEAN]
  /\ stops \in 0..MaxStops

(* The ledger says what the schema is, at every moment and after every      *)
(* crash: no migration is half applied, none is recorded that was not, and  *)
(* none was left out.  A row has an identity key exactly when the schema    *)
(* has the column, and the keys are unique.                                 *)
LedgerMatchesSchema ==
  /\ ledger = 1..schema
  /\ \A v \in Existing : rows[v].key = NoColumn <=> schema < 2
  /\ \A v, w \in Existing : schema = 2 /\ rows[v].key = rows[w].key => v = w

(* Open returns a store only when its schema is the latest and its own      *)
(* connection enforces foreign keys, whichever of the migrations it or      *)
(* another process has applied.                                             *)
OpenedIsReady ==
  \A p \in Processes : At(p, "open") => schema = Latest /\ enforced[p]

(* The process that replaced the table never returns a store in which a     *)
(* row refers to a vacancy that is gone.  (Another process, or the same one *)
(* started again, does: the ledger already has the version by then.)        *)
RebuiltIsChecked ==
  \A p \in Processes : At(p, "open") /\ rebuilt[p] => Dangling = {}

(* No vacancy is lost, what refers to it is kept, and its identity is given *)
(* once: only a row that had no key gets its link as key, so a second       *)
(* process that looked at the ledger too early cannot turn fingerprints     *)
(* back into links.                                                         *)
IdentitySurvives ==
  [][/\ children \subseteq children'
     /\ \A v \in Existing :
          /\ rows'[v] # NoRow
          /\ rows'[v].link = rows[v].link
          /\ rows'[v].key # rows[v].key =>
               rows[v].key = NoColumn /\ rows'[v].key = rows[v].link]_migrationVars

(* A file that is opened again after every failure gets opened: no state    *)
(* that a crash or a race of two processes leaves behind bars the way.      *)
EventuallyOpens ==
  \A p \in Processes : At(p, "closed") ~> At(p, "open")
=============================================================================
