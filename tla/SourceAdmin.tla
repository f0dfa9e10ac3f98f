---------------------------- MODULE SourceAdmin -----------------------------
(***************************************************************************)
(* How a source gets its configuration: the dry run that issues a test     *)
(* token (internal/dryrun), and the requests that spend the token to       *)
(* create or change a source (createSource and updateSource of             *)
(* internal/httpapi over CreateSource, GetSource and UpdateSource of       *)
(* internal/storage).                                                      *)
(*                                                                         *)
(* The tokens live in the memory of the server, behind a mutex; the rows   *)
(* live in the database.  A request visits the two in separate steps, and  *)
(* a PATCH writes back a whole row that it read earlier, while other       *)
(* requests and the runs of the source go on.  A text that does not parse  *)
(* is refused before anything is touched and is not a step.                *)
(***************************************************************************)
EXTENDS Integers, FiniteSets

CONSTANTS
  Sources,   \* ids (fresh UUIDs)
  Slugs,     \* the unique human-readable keys
  Configs,   \* YAML texts that parse; a text determines its base_url
  Names,     \* names a user may give; a text stands for its own site_name
  Actives,   \* values of is_active a request may give
  Schedules, \* schedule type, value and time zone, taken together
  Refused,   \* the schedules that validateNewSource refuses
  Tokens,    \* random token values, each issued at most once
  Requests,  \* request goroutines
  TTL,       \* how long a token lives
  MaxTime,   \* bound on the clock
  NoRow,     \* a source that does not exist
  NoToken,   \* a token that is not in the table
  Omitted    \* a field that a request leaves out

ASSUME AdminAssumption ==
  /\ TTL \in Nat /\ MaxTime \in Nat
  /\ Actives \subseteq BOOLEAN
  /\ "manual" \in Schedules /\ Refused \subseteq Schedules \ {"manual"}
  /\ Names \cap Configs = {}
  /\ Omitted \notin BOOLEAN /\ Omitted \notin Configs \cup Slugs \cup Names \cup Schedules

Row == [slug : Slugs, config : Configs, name : Names \cup Configs, active : BOOLEAN,
        schedule : Schedules, status : {"idle", "running"}]
Entry == [config : Configs, expiresAt : Nat]

ASSUME AdminNoRow == NoRow \notin Row /\ NoToken \notin Tokens

(* The body of a POST and of a PATCH. *)
Creation == [slug : Slugs, config : Configs, name : Names \cup {Omitted},
             active : Actives \cup {Omitted}, schedule : Schedules \cup {Omitted}]
Change == [slug : Slugs \cup {Omitted}, config : Configs \cup {Omitted},
           name : Names \cup {Omitted}, active : Actives \cup {Omitted},
           schedule : Schedules \cup {Omitted}]

Given(field, otherwise) == IF field = Omitted THEN otherwise ELSE field

VARIABLES
  rows,     \* table sources; "idle" stands for every status but running
  tokens,   \* the token table of the dry-run service
  issued,   \* the token values that are used up
  now,      \* the clock
  request,  \* what each request is doing
  running,  \* observed: the sources that have an open run
  tested,   \* observed: the configurations that have passed a dry run
  writes    \* observed: how many writes each token has let through

adminVars == <<rows, tokens, issued, now, request, running, tested, writes>>

Idle == [pc |-> "idle"]
Job == [pc : {"insert", "consume", "write"}, id : Sources, token : Tokens \cup {NoToken},
        row : Row]

Becomes(q, job) == request' = [request EXCEPT ![q] = job]

-----------------------------------------------------------------------------
(* The dry run and its tokens *)

(* A dry run that finds a usable card issues a token for the exact text it  *)
(* was given.  One that does not changes nothing.                           *)
Test(c, t) ==
  /\ t \notin issued
  /\ issued' = issued \cup {t}
  /\ tokens' = [tokens EXCEPT ![t] = [config |-> c, expiresAt |-> now + TTL]]
  /\ tested' = tested \cup {c}
  /\ UNCHANGED <<rows, now, request, running, writes>>

(* Mutant: the lookup leaves the value in the table.                        *)
ConsumedTokensStay(t) == tokens

(* A value that is looked up is deleted, whether or not it fits.            *)
ConsumedTokens(t) == [tokens EXCEPT ![t] = NoToken]

(* Mutant: any live token will do.                                          *)
TokenFitsAny(t, c) == tokens[t] # NoToken /\ now <= tokens[t].expiresAt

TokenFits(t, c) ==
  tokens[t] # NoToken /\ now <= tokens[t].expiresAt /\ tokens[t].config = c

-----------------------------------------------------------------------------
(* POST /api/sources: consume, then insert *)

NewRow(body) ==
  [slug |-> body.slug, config |-> body.config, name |-> Given(body.name, body.config),
   active |-> Given(body.active, TRUE), schedule |-> Given(body.schedule, "manual"),
   status |-> "idle"]

ConsumeForCreate(q, id, body, t) ==
  /\ request[q].pc = "idle"
  /\ tokens' = ConsumedTokens(t)
  /\ Becomes(q, IF TokenFits(t, body.config)
                THEN [pc |-> "insert", id |-> id, token |-> t, row |-> NewRow(body)]
                ELSE Idle)
  /\ UNCHANGED <<rows, issued, now, running, tested, writes>>

SlugTaken(id, slug) ==
  \E s \in Sources \ {id} : rows[s] # NoRow /\ rows[s].slug = slug

(* A row that is refused is answered 422, with the token already spent.     *)
Accepts(id, row) == row.schedule \notin Refused /\ ~SlugTaken(id, row.slug)

Insert(q) ==
  /\ request[q].pc = "insert"
  /\ LET job == request[q]
     IN IF rows[job.id] = NoRow /\ Accepts(job.id, job.row)
        THEN /\ rows' = [rows EXCEPT ![job.id] = job.row]
             /\ writes' = [writes EXCEPT ![job.token] = @ + 1]
        ELSE UNCHANGED <<rows, writes>>
  /\ Becomes(q, Idle)
  /\ UNCHANGED <<tokens, issued, now, running, tested>>

-----------------------------------------------------------------------------
(* PATCH /api/sources/:id: read, consume if there is a new text, write *)

(* Mutant: a new text keeps the name.                                       *)
PatchedKeepsName(row, body) ==
  [slug |-> Given(body.slug, row.slug), config |-> Given(body.config, row.config),
   name |-> Given(body.name, row.name), active |-> Given(body.active, row.active),
   schedule |-> Given(body.schedule, row.schedule), status |-> row.status]

(* The row as read, with the fields of the request on top of it; a new text *)
(* brings its site_name when no name is given.                              *)
Patched(row, body) ==
  [slug |-> Given(body.slug, row.slug), config |-> Given(body.config, row.config),
   name |-> Given(body.name, Given(body.config, row.name)),
   active |-> Given(body.active, row.active),
   schedule |-> Given(body.schedule, row.schedule), status |-> row.status]

Read(q, id, body, t) ==
  /\ request[q].pc = "idle"
  /\ rows[id] # NoRow
  /\ Becomes(q, [pc |-> IF body.config = Omitted THEN "write" ELSE "consume", id |-> id,
                 token |-> IF body.config = Omitted THEN NoToken ELSE t,
                 row |-> Patched(rows[id], body)])
  /\ UNCHANGED <<rows, tokens, issued, now, running, tested, writes>>

Consume(q) ==
  /\ request[q].pc = "consume"
  /\ tokens' = ConsumedTokens(request[q].token)
  /\ Becomes(q, IF TokenFits(request[q].token, request[q].row.config)
                THEN [request[q] EXCEPT !.pc = "write"]
                ELSE Idle)
  /\ UNCHANGED <<rows, issued, now, running, tested, writes>>

(* Mutant: the update writes the status that was read.                      *)
UpdatedRowWhole(id, row) == row

(* The update names every column but the operational ones.                  *)
UpdatedRow(id, row) == [row EXCEPT !.status = rows[id].status]

Write(q) ==
  /\ request[q].pc = "write"
  /\ LET job == request[q]
     IN IF Accepts(job.id, job.row)
        THEN /\ rows' = [rows EXCEPT ![job.id] = UpdatedRow(job.id, job.row)]
             /\ writes' = IF job.token = NoToken THEN writes
                          ELSE [writes EXCEPT ![job.token] = @ + 1]
        ELSE UNCHANGED <<rows, writes>>
  /\ Becomes(q, Idle)
  /\ UNCHANGED <<tokens, issued, now, running, tested>>

(* The client is gone: its context stops the next database call.            *)
Abandon(q) ==
  /\ request[q].pc # "idle"
  /\ Becomes(q, Idle)
  /\ UNCHANGED <<rows, tokens, issued, now, running, tested, writes>>

-----------------------------------------------------------------------------
(* Around the requests *)

StartRun(id) ==
  /\ rows[id] # NoRow /\ rows[id].status # "running"
  /\ rows' = [rows EXCEPT ![id].status = "running"]
  /\ running' = running \cup {id}
  /\ UNCHANGED <<tokens, issued, now, request, tested, writes>>

EndRun(id) ==
  /\ id \in running
  /\ rows' = [rows EXCEPT ![id].status = "idle"]
  /\ running' = running \ {id}
  /\ UNCHANGED <<tokens, issued, now, request, tested, writes>>

Tick ==
  /\ now < MaxTime
  /\ now' = now + 1
  /\ UNCHANGED <<rows, tokens, issued, request, running, tested, writes>>

(* A restart recovers the open runs and forgets every token.                *)
Restart ==
  /\ request' = [q \in Requests |-> Idle]
  /\ tokens' = [t \in Tokens |-> NoToken]
  /\ rows' = [s \in Sources |->
       IF s \in running THEN [rows[s] EXCEPT !.status = "idle"] ELSE rows[s]]
  /\ running' = {}
  /\ UNCHANGED <<issued, now, tested, writes>>

AdminInit ==
  /\ rows = [s \in Sources |-> NoRow]
  /\ tokens = [t \in Tokens |-> NoToken]
  /\ issued = {}
  /\ now = 0
  /\ request = [q \in Requests |-> Idle]
  /\ running = {}
  /\ tested = {}
  /\ writes = [t \in Tokens |-> 0]

AdminNext ==
  \/ \E c \in Configs, t \in Tokens : Test(c, t)
  \/ \E q \in Requests, id \in Sources, t \in Tokens :
       \/ \E body \in Creation : ConsumeForCreate(q, id, body, t)
       \/ \E body \in Change : Read(q, id, body, t)
  \/ \E q \in Requests : Insert(q) \/ Consume(q) \/ Write(q) \/ Abandon(q)
  \/ \E id \in Sources : StartRun(id) \/ EndRun(id)
  \/ Tick
  \/ Restart

AdminSpec == AdminInit /\ [][AdminNext]_adminVars

-----------------------------------------------------------------------------
(* The tables hold rows of their own shape, and a request that is under way *)
(* carries a whole row.                                                     *)
AdminTypeOK ==
  /\ rows \in [Sources -> Row \cup {NoRow}]
  /\ tokens \in [Tokens -> Entry \cup {NoToken}]
  /\ issued \subseteq Tokens
  /\ now \in 0..MaxTime
  /\ request \in [Requests -> {Idle} \cup Job]
  /\ running \subseteq Sources
  /\ tested \subseteq Configs
  /\ writes \in [Tokens -> Nat]

(* Only a text that passed a dry run is ever stored, whatever requests race *)
(* for the tokens, across restarts too.                                     *)
StoredConfigWasTested ==
  \A s \in Sources : rows[s] # NoRow => rows[s].config \in tested

(* A token lets at most one write through, although it is taken from the    *)
(* table in one step and the row is written in a later one.                 *)
TokenLetsOneWriteThrough == \A t \in Tokens : writes[t] <= 1

(* The name of a source is one that a user gave or the site_name of the     *)
(* very text that is stored, also when requests that change the one or the  *)
(* other overlap: the row is written whole.                                 *)
NameFollowsText ==
  \A s \in Sources : rows[s] # NoRow => rows[s].name \in Names \cup {rows[s].config}

(* The status of a source is the run's alone: a PATCH that read the row     *)
(* before a run started or ended does not bring the old status back.        *)
StatusIsTheRuns ==
  \A s \in Sources : rows[s] # NoRow => (rows[s].status = "running" <=> s \in running)

(* A stored text changes only by a request that spent a token for it.       *)
ConfigChangeSpendsToken ==
  [][\A s \in Sources :
       rows[s] # NoRow /\ rows'[s] # NoRow /\ rows'[s].config # rows[s].config
         => writes' # writes]_adminVars
=============================================================================
