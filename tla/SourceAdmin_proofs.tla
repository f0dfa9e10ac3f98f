------------------------- MODULE SourceAdmin_proofs -------------------------
(***************************************************************************)
(* Theorems about the administration of sources, for any number of         *)
(* sources, texts, tokens and requests: only tested texts are stored, a    *)
(* token lets one write through, the name follows the text, and the status *)
(* is the run's.                                                           *)
(***************************************************************************)
EXTENDS SourceAdmin, TLAPS

(* A request that is about to write on the strength of a token.             *)
Spends(q) == request[q].pc = "insert" \/ (request[q].pc = "write" /\ request[q].token # NoToken)

(* A token that is still in the table has let nothing through; so has one   *)
(* that is not issued yet.                                                  *)
TokenIsFresh(t) ==
  /\ tokens[t] # NoToken => t \in issued /\ tokens[t].config \in tested
  /\ tokens[t] # NoToken \/ t \notin issued => writes[t] = 0
  /\ writes[t] <= 1

(* A request carries a row whose name fits its text; once it may write, its *)
(* text is tested; a PATCH has found its row.                               *)
JobIsSound(q) ==
  /\ request[q].pc # "idle" =>
       request[q].row.name \in Names \cup {request[q].row.config}
  /\ request[q].pc \in {"insert", "write"} => request[q].row.config \in tested
  /\ request[q].pc = "insert" => request[q].row.status = "idle" /\ request[q].token # NoToken
  /\ request[q].pc = "consume" => request[q].token # NoToken
  /\ request[q].pc \in {"consume", "write"} => rows[request[q].id] # NoRow

(* A token that is being spent is out of the table and has let nothing      *)
(* through yet, and only one request holds it.                              *)
SpendingIsExclusive ==
  /\ \A q \in Requests : Spends(q) =>
       /\ request[q].token \in issued
       /\ tokens[request[q].token] = NoToken
       /\ writes[request[q].token] = 0
  /\ \A p, q \in Requests :
       Spends(p) /\ Spends(q) /\ request[p].token = request[q].token => p = q

RunsHaveRows == \A s \in running : rows[s] # NoRow

AdminInv ==
  /\ AdminTypeOK
  /\ StoredConfigWasTested
  /\ NameFollowsText
  /\ StatusIsTheRuns
  /\ RunsHaveRows
  /\ \A t \in Tokens : TokenIsFresh(t)
  /\ \A q \in Requests : JobIsSound(q)
  /\ SpendingIsExclusive

-----------------------------------------------------------------------------
(* What the requests make of rows *)

LEMMA NewRowIsSound ==
  ASSUME NEW body \in Creation
  PROVE  /\ NewRow(body) \in Row
         /\ NewRow(body).name \in Names \cup {NewRow(body).config}
         /\ NewRow(body).config = body.config /\ NewRow(body).status = "idle"
BY AdminAssumption DEF Creation, NewRow, Given, Row

LEMMA PatchedIsSound ==
  ASSUME NEW body \in Change, NEW row \in Row, row.name \in Names \cup {row.config}
  PROVE  /\ Patched(row, body) \in Row
         /\ Patched(row, body).name \in Names \cup {Patched(row, body).config}
         /\ body.config = Omitted => Patched(row, body).config = row.config
BY AdminAssumption DEF Change, Patched, Given, Row

(* A row with another status is a row, and the rest of it stays.            *)
LEMMA StatusOnly ==
  ASSUME NEW row \in Row, NEW st \in {"idle", "running"}
  PROVE  LET other == [row EXCEPT !.status = st]
         IN /\ other \in Row /\ other # NoRow /\ other.status = st
            /\ other.name = row.name /\ other.config = row.config /\ other.slug = row.slug
BY AdminNoRow DEF Row

-----------------------------------------------------------------------------
LEMMA AdminInvInit == AdminInit => AdminInv
<1> SUFFICES ASSUME AdminInit PROVE AdminInv
  OBVIOUS
<1> USE DEF AdminInit
<1>1. AdminTypeOK
  BY AdminAssumption DEF AdminTypeOK
<1>2. StoredConfigWasTested /\ NameFollowsText /\ StatusIsTheRuns /\ RunsHaveRows
  BY DEF StoredConfigWasTested, NameFollowsText, StatusIsTheRuns, RunsHaveRows
<1>3. \A t \in Tokens : TokenIsFresh(t)
  BY DEF TokenIsFresh
<1>4. (\A q \in Requests : JobIsSound(q)) /\ SpendingIsExclusive
  BY DEF JobIsSound, SpendingIsExclusive, Spends, Idle
<1> QED BY <1>1, <1>2, <1>3, <1>4 DEF AdminInv

(* A dry run changes the table for a token that nobody holds.               *)
LEMMA TestKeeps ==
  ASSUME AdminInv, NEW c \in Configs, NEW t \in Tokens, Test(c, t)
  PROVE  AdminInv'
<1> USE DEF AdminInv, Test
<1>1. AdminTypeOK'
  <2>1. [config |-> c, expiresAt |-> now + TTL] \in Entry
    BY AdminAssumption DEF AdminTypeOK, Entry
  <2> QED BY <2>1 DEF AdminTypeOK
<1>2. (StoredConfigWasTested /\ NameFollowsText /\ StatusIsTheRuns /\ RunsHaveRows)'
  BY DEF StoredConfigWasTested, NameFollowsText, StatusIsTheRuns, RunsHaveRows
<1>3. \A u \in Tokens : TokenIsFresh(u)'
  BY DEF TokenIsFresh, AdminTypeOK
<1>4. \A q \in Requests : JobIsSound(q)'
  BY DEF JobIsSound
<1>5. SpendingIsExclusive'
  BY DEF SpendingIsExclusive, Spends, AdminTypeOK
<1> QED BY <1>1, <1>2, <1>3, <1>4, <1>5

(* A request that moves on, with or without taking a token off the table.   *)
LEMMA RequestMoves ==
  ASSUME AdminInv, NEW q \in Requests, NEW job \in Job \cup {Idle}, Becomes(q, job),
         tokens' = tokens \/ (\E t \in Tokens : tokens' = ConsumedTokens(t)),
         UNCHANGED <<rows, issued, now, running, tested, writes>>,
         JobIsSound(q)',
         Spends(q)' => \/ Spends(q) /\ job.token = request[q].token
                       \/ /\ tokens[job.token] # NoToken /\ job.token \in Tokens
                          /\ tokens' = ConsumedTokens(job.token)
  PROVE  AdminInv'
<1> USE DEF AdminInv
<1>1. AdminTypeOK'
  BY DEF AdminTypeOK, ConsumedTokens, Becomes
<1>2. (StoredConfigWasTested /\ NameFollowsText /\ StatusIsTheRuns /\ RunsHaveRows)'
  BY DEF StoredConfigWasTested, NameFollowsText, StatusIsTheRuns, RunsHaveRows
<1>3. \A t \in Tokens : tokens'[t] = NoToken \/ tokens'[t] = tokens[t]
  BY DEF ConsumedTokens, AdminTypeOK
<1>4. \A t \in Tokens : TokenIsFresh(t)'
  BY <1>3 DEF TokenIsFresh
<1>5. request'[q] = job /\ \A p \in Requests \ {q} : request'[p] = request[p]
  BY DEF AdminTypeOK, Becomes
<1>6. \A p \in Requests : JobIsSound(p)'
  BY <1>5 DEF JobIsSound
<1>7. \A p \in Requests : Spends(p) => request[p].token \in Tokens
  BY DEF JobIsSound, Spends, AdminTypeOK, Job, Idle
<1>8. SpendingIsExclusive'
  <2>1. \A p \in Requests : Spends(p)' /\ p # q =>
          Spends(p) /\ request'[p].token = request[p].token
    BY <1>5 DEF Spends
  <2>2. CASE ~Spends(q)'
    BY <1>3, <1>5, <1>7, <2>1, <2>2 DEF SpendingIsExclusive
  <2>3. CASE Spends(q) /\ job.token = request[q].token
    BY <1>3, <1>5, <1>7, <2>1, <2>3 DEF SpendingIsExclusive
  <2>4. CASE /\ tokens[job.token] # NoToken /\ job.token \in Tokens
             /\ tokens' = ConsumedTokens(job.token)
    <3>1. /\ job.token \in issued /\ writes[job.token] = 0 /\ tokens'[job.token] = NoToken
      BY <2>4 DEF TokenIsFresh, ConsumedTokens, AdminTypeOK
    <3> QED BY <1>3, <1>5, <1>7, <2>1, <2>4, <3>1 DEF SpendingIsExclusive
  <2> QED BY <2>2, <2>3, <2>4
<1> QED BY <1>1, <1>2, <1>4, <1>6, <1>8

LEMMA ConsumeForCreateKeeps ==
  ASSUME AdminInv, NEW q \in Requests, NEW id \in Sources, NEW body \in Creation,
         NEW t \in Tokens, ConsumeForCreate(q, id, body, t)
  PROVE  AdminInv'
<1> DEFINE spent == [pc |-> "insert", id |-> id, token |-> t, row |-> NewRow(body)]
           job == IF TokenFits(t, body.config) THEN spent ELSE Idle
<1>1. Becomes(q, job) /\ tokens' = ConsumedTokens(t)
  BY DEF ConsumeForCreate
<1>2. job \in Job \cup {Idle} /\ request'[q] = job
  BY <1>1, NewRowIsSound DEF Job, Becomes, AdminInv, AdminTypeOK
<1>3. TokenFits(t, body.config) => tokens[t] # NoToken /\ body.config \in tested
  BY DEF TokenFits, AdminInv, TokenIsFresh
<1>4. JobIsSound(q)'
  BY <1>2, <1>3, NewRowIsSound, AdminNoRow DEF JobIsSound, Idle, ConsumeForCreate
<1>5. Spends(q)' => tokens[job.token] # NoToken /\ job.token = t
  BY <1>2, <1>3 DEF Spends, Idle
<1>6. UNCHANGED <<rows, issued, now, running, tested, writes>>
  BY DEF ConsumeForCreate
<1> HIDE DEF job
<1> QED BY <1>1, <1>2, <1>4, <1>5, <1>6, RequestMoves

LEMMA ReadKeeps ==
  ASSUME AdminInv, NEW q \in Requests, NEW id \in Sources, NEW body \in Change,
         NEW t \in Tokens, Read(q, id, body, t)
  PROVE  AdminInv'
<1> DEFINE job == [pc |-> IF body.config = Omitted THEN "write" ELSE "consume", id |-> id,
                   token |-> IF body.config = Omitted THEN NoToken ELSE t,
                   row |-> Patched(rows[id], body)]
<1>1. Becomes(q, job) /\ rows[id] # NoRow
      /\ UNCHANGED <<rows, tokens, issued, now, running, tested, writes>>
  BY DEF Read
<1>2. /\ rows[id] \in Row /\ rows[id].config \in tested
      /\ rows[id].name \in Names \cup {rows[id].config}
  BY <1>1 DEF AdminInv, AdminTypeOK, StoredConfigWasTested, NameFollowsText
<1>3. /\ Patched(rows[id], body) \in Row
      /\ Patched(rows[id], body).name \in Names \cup {Patched(rows[id], body).config}
      /\ body.config = Omitted => Patched(rows[id], body).config = rows[id].config
  BY <1>2, PatchedIsSound
<1>4. job \in Job /\ request'[q] = job
  BY <1>1, <1>3 DEF Job, Becomes, AdminInv, AdminTypeOK
<1>5. JobIsSound(q)'
  BY <1>1, <1>2, <1>3, <1>4, AdminNoRow DEF JobIsSound
<1>6. ~Spends(q)'
  BY <1>4 DEF Spends
<1> HIDE DEF job
<1> QED BY <1>1, <1>4, <1>5, <1>6, RequestMoves

LEMMA ConsumeKeeps ==
  ASSUME AdminInv, NEW q \in Requests, Consume(q)
  PROVE  AdminInv'
<1> DEFINE t == request[q].token
           job == IF TokenFits(t, request[q].row.config)
                  THEN [request[q] EXCEPT !.pc = "write"] ELSE Idle
<1>1. Becomes(q, job) /\ tokens' = ConsumedTokens(t) /\ request[q].pc = "consume"
      /\ UNCHANGED <<rows, issued, now, running, tested, writes>>
  BY DEF Consume
<1>2. request[q] \in Job
  BY <1>1 DEF AdminInv, AdminTypeOK, Idle
<1>3. job \in Job \cup {Idle} /\ request'[q] = job /\ t \in Tokens \cup {NoToken}
  BY <1>1, <1>2 DEF Job, Becomes, AdminInv, AdminTypeOK
<1>4. CASE t \in Tokens
  <2>1. TokenFits(t, request[q].row.config) =>
          tokens[t] # NoToken /\ request[q].row.config \in tested
    BY <1>4 DEF TokenFits, AdminInv, TokenIsFresh
  <2>2. JobIsSound(q)'
    BY <1>1, <1>2, <1>3, <2>1 DEF JobIsSound, Idle, Job, AdminInv
  <2>3. Spends(q)' => tokens[job.token] # NoToken /\ job.token = t
    BY <1>2, <1>3, <2>1 DEF Spends, Idle, Job
  <2> HIDE DEF job
  <2> QED BY <1>1, <1>3, <1>4, <2>2, <2>3, RequestMoves
<1>5. t \in Tokens
  BY <1>1, <1>2 DEF AdminInv, JobIsSound, Job
<1> QED BY <1>4, <1>5

LEMMA AbandonKeeps ==
  ASSUME AdminInv, NEW q \in Requests, Abandon(q)
  PROVE  AdminInv'
<1>1. JobIsSound(q)' /\ ~Spends(q)'
  BY DEF Abandon, Becomes, JobIsSound, Spends, Idle, AdminInv, AdminTypeOK
<1>2. /\ Becomes(q, Idle) /\ tokens' = tokens
      /\ UNCHANGED <<rows, issued, now, running, tested, writes>>
  BY DEF Abandon
<1> QED BY <1>1, <1>2, RequestMoves

(* Both writes: one row changes, a request goes away, and the token it was   *)
(* let through by, if any, has let one more through.                        *)
LEMMA RowWritten ==
  ASSUME AdminInv, NEW q \in Requests, NEW s \in Sources, NEW row \in Row,
         rows' = [rows EXCEPT ![s] = row], Becomes(q, Idle),
         row.config \in tested, row.name \in Names \cup {row.config},
         row.status = "running" <=> s \in running,
         \/ Spends(q) /\ writes' = [writes EXCEPT ![request[q].token] = @ + 1]
         \/ writes' = writes,
         UNCHANGED <<tokens, issued, now, running, tested>>
  PROVE  AdminInv'
<1> USE DEF AdminInv
<1>1. /\ rows'[s] = row /\ row # NoRow
      /\ \A r \in Sources \ {s} : rows'[r] = rows[r]
  BY AdminNoRow DEF AdminTypeOK
<1>2. /\ request'[q] = Idle /\ ~Spends(q)'
      /\ \A p \in Requests \ {q} : request'[p] = request[p]
  BY DEF AdminTypeOK, Becomes, Idle, Spends
<1>3. Spends(q) => /\ request[q].token \in Tokens /\ request[q].token \in issued
                   /\ tokens[request[q].token] = NoToken /\ writes[request[q].token] = 0
  BY DEF JobIsSound, Spends, AdminTypeOK, Job, Idle, SpendingIsExclusive
<1>4. \A t \in Tokens :
        \/ writes'[t] = writes[t]
        \/ Spends(q) /\ t = request[q].token /\ writes'[t] = 1
  BY <1>3 DEF AdminTypeOK
<1>5. AdminTypeOK'
  BY <1>3 DEF AdminTypeOK, Becomes
<1>6. (StoredConfigWasTested /\ NameFollowsText /\ StatusIsTheRuns /\ RunsHaveRows)'
  BY <1>1 DEF StoredConfigWasTested, NameFollowsText, StatusIsTheRuns, RunsHaveRows, AdminTypeOK
<1>7. \A t \in Tokens : TokenIsFresh(t)'
  BY <1>3, <1>4 DEF TokenIsFresh
<1>8. \A p \in Requests : JobIsSound(p)'
  BY <1>1, <1>2 DEF JobIsSound, Idle, AdminTypeOK, Job
<1>9. SpendingIsExclusive'
  <2>1. \A p \in Requests : Spends(p)' =>
          p # q /\ Spends(p) /\ request'[p].token = request[p].token
    BY <1>2 DEF Spends
  <2>2. \A p \in Requests : Spends(p) => request[p].token \in Tokens
    BY DEF JobIsSound, Spends, AdminTypeOK, Job, Idle
  <2> QED BY <1>4, <2>1, <2>2 DEF SpendingIsExclusive
<1> QED BY <1>5, <1>6, <1>7, <1>8, <1>9

LEMMA InsertKeeps ==
  ASSUME AdminInv, NEW q \in Requests, Insert(q)
  PROVE  AdminInv'
<1> DEFINE id == request[q].id
           row == request[q].row
<1>1. /\ id \in Sources /\ row \in Row /\ row.config \in tested /\ row.status = "idle"
      /\ row.name \in Names \cup {row.config} /\ Spends(q)
  BY DEF Insert, AdminInv, AdminTypeOK, JobIsSound, Job, Idle, Spends
<1>2. CASE rows[id] = NoRow /\ Accepts(id, row)
  <2>1. id \notin running
    BY <1>2 DEF AdminInv, RunsHaveRows
  <2>2. /\ rows' = [rows EXCEPT ![id] = row] /\ Becomes(q, Idle)
        /\ writes' = [writes EXCEPT ![request[q].token] = @ + 1]
        /\ UNCHANGED <<tokens, issued, now, running, tested>>
    BY <1>2 DEF Insert
  <2> HIDE DEF id, row
  <2> QED BY <1>1, <2>1, <2>2, RowWritten
<1>3. CASE ~(rows[id] = NoRow /\ Accepts(id, row))
  <2>1. /\ Becomes(q, Idle) /\ tokens' = tokens
        /\ UNCHANGED <<rows, issued, now, running, tested, writes>>
    BY <1>3 DEF Insert
  <2>2. JobIsSound(q)' /\ ~Spends(q)'
    BY <2>1 DEF Becomes, JobIsSound, Spends, Idle, AdminInv, AdminTypeOK
  <2> QED BY <2>1, <2>2, RequestMoves
<1> QED BY <1>2, <1>3

LEMMA WriteKeeps ==
  ASSUME AdminInv, NEW q \in Requests, Write(q)
  PROVE  AdminInv'
<1> DEFINE id == request[q].id
           row == request[q].row
           stored == UpdatedRow(id, row)
<1>1. /\ id \in Sources /\ row \in Row /\ row.config \in tested
      /\ row.name \in Names \cup {row.config} /\ rows[id] \in Row
  BY DEF Write, AdminInv, AdminTypeOK, JobIsSound, Job, Idle
<1>2. CASE Accepts(id, row)
  <2>1. rows[id].status \in {"idle", "running"}
    BY <1>1 DEF Row
  <2>2. /\ stored \in Row /\ stored.config = row.config /\ stored.name = row.name
        /\ stored.status = rows[id].status
    BY <1>1, <2>1, StatusOnly DEF UpdatedRow
  <2>3. stored.status = "running" <=> id \in running
    BY <1>1, <2>2, AdminNoRow DEF AdminInv, StatusIsTheRuns
  <2>4. /\ rows' = [rows EXCEPT ![id] = stored] /\ Becomes(q, Idle)
        /\ UNCHANGED <<tokens, issued, now, running, tested>>
        /\ \/ Spends(q) /\ writes' = [writes EXCEPT ![request[q].token] = @ + 1]
           \/ writes' = writes
    BY <1>2 DEF Write, Spends
  <2> HIDE DEF id, row, stored
  <2> QED BY <1>1, <2>2, <2>3, <2>4, RowWritten
<1>3. CASE ~Accepts(id, row)
  <2>1. /\ Becomes(q, Idle) /\ tokens' = tokens
        /\ UNCHANGED <<rows, issued, now, running, tested, writes>>
    BY <1>3 DEF Write
  <2>2. JobIsSound(q)' /\ ~Spends(q)'
    BY <2>1 DEF Becomes, JobIsSound, Spends, Idle, AdminInv, AdminTypeOK
  <2> QED BY <2>1, <2>2, RequestMoves
<1> QED BY <1>2, <1>3

(* A run starts or ends, the clock moves, or the server restarts: rows      *)
(* change in their status alone, and no request gains anything.             *)
LEMMA AroundKeeps ==
  ASSUME AdminInv,
         rows' \in [Sources -> Row \cup {NoRow}], running' \subseteq Sources,
         now' \in 0..MaxTime,
         \A s \in Sources :
           /\ rows'[s] = NoRow <=> rows[s] = NoRow
           /\ rows[s] # NoRow => /\ rows'[s].name = rows[s].name
                                 /\ rows'[s].config = rows[s].config
                                 /\ rows'[s].status = "running" <=> s \in running'
           /\ s \in running' => rows[s] # NoRow,
         request' = request \/ request' = [q \in Requests |-> Idle],
         tokens' = tokens \/ tokens' = [t \in Tokens |-> NoToken],
         UNCHANGED <<issued, tested, writes>>
  PROVE  AdminInv'
<1> USE DEF AdminInv
<1>1. AdminTypeOK'
  BY DEF AdminTypeOK
<1>2. (StoredConfigWasTested /\ NameFollowsText /\ StatusIsTheRuns /\ RunsHaveRows)'
  BY DEF StoredConfigWasTested, NameFollowsText, StatusIsTheRuns, RunsHaveRows
<1>3. \A t \in Tokens : TokenIsFresh(t)'
  BY DEF TokenIsFresh
<1>4. \A q \in Requests : JobIsSound(q)' /\ (Spends(q)' => Spends(q))
  BY DEF JobIsSound, Spends, Idle, AdminTypeOK, Job
<1>5. SpendingIsExclusive'
  <2>1. CASE request' = [q \in Requests |-> Idle]
    BY <2>1 DEF SpendingIsExclusive, Spends, Idle
  <2>2. CASE request' = request
    BY <2>2 DEF SpendingIsExclusive, Spends, AdminTypeOK, JobIsSound, Job, Idle
  <2> QED BY <2>1, <2>2
<1> QED BY <1>1, <1>2, <1>3, <1>4, <1>5

(* The status that a run leaves: the other rows keep theirs.                *)
LEMMA RunKeeps ==
  ASSUME AdminInv, NEW id \in Sources, StartRun(id) \/ EndRun(id)
  PROVE  AdminInv'
<1> DEFINE st == IF id \in running THEN "idle" ELSE "running"
<1>1. rows[id] \in Row /\ rows[id] # NoRow
  BY DEF StartRun, EndRun, AdminInv, AdminTypeOK, RunsHaveRows
<1>2. /\ rows' = [rows EXCEPT ![id] = [rows[id] EXCEPT !.status = st]]
      /\ running' = IF id \in running THEN running \ {id} ELSE running \cup {id}
      /\ UNCHANGED <<tokens, issued, now, request, tested, writes>>
  BY <1>1 DEF StartRun, EndRun, AdminInv, StatusIsTheRuns
<1>3. LET row == [rows[id] EXCEPT !.status = st]
      IN /\ row \in Row /\ row # NoRow /\ row.status = st
         /\ row.name = rows[id].name /\ row.config = rows[id].config
  BY <1>1, StatusOnly
<1>4. \A s \in Sources : rows'[s] = IF s = id THEN [rows[id] EXCEPT !.status = st] ELSE rows[s]
  BY <1>2 DEF AdminInv, AdminTypeOK
<1>5. rows' \in [Sources -> Row \cup {NoRow}] /\ running' \subseteq Sources /\ now' \in 0..MaxTime
  BY <1>2, <1>3 DEF AdminInv, AdminTypeOK
<1>6. \A s \in Sources :
        /\ rows'[s] = NoRow <=> rows[s] = NoRow
        /\ rows[s] # NoRow => /\ rows'[s].name = rows[s].name
                              /\ rows'[s].config = rows[s].config
                              /\ rows'[s].status = "running" <=> s \in running'
        /\ s \in running' => rows[s] # NoRow
  <2> SUFFICES ASSUME NEW s \in Sources
               PROVE  /\ rows'[s] = NoRow <=> rows[s] = NoRow
                      /\ rows[s] # NoRow => /\ rows'[s].name = rows[s].name
                                            /\ rows'[s].config = rows[s].config
                                            /\ rows'[s].status = "running" <=> s \in running'
                      /\ s \in running' => rows[s] # NoRow
    OBVIOUS
  <2>1. CASE s = id
    <3>1. rows'[id] = [rows[id] EXCEPT !.status = st]
      BY <1>4
    <3>2. /\ rows'[id] # NoRow /\ rows'[id].status = st
          /\ rows'[id].name = rows[id].name /\ rows'[id].config = rows[id].config
      BY <1>3, <3>1
    <3>3. st = "running" <=> id \in running'
      BY <1>2
    <3> QED BY <1>1, <2>1, <3>2, <3>3
  <2>2. CASE s # id
    <3>1. rows'[s] = rows[s] /\ (s \in running' <=> s \in running)
      BY <1>2, <1>4, <2>2
    <3> QED BY <3>1 DEF AdminInv, StatusIsTheRuns, RunsHaveRows
  <2> QED BY <2>1, <2>2
<1>7. request' = request /\ tokens' = tokens /\ UNCHANGED <<issued, tested, writes>>
  BY <1>2
<1> QED BY <1>5, <1>6, <1>7, AroundKeeps

LEMMA TickKeeps == AdminInv /\ Tick => AdminInv'
<1> SUFFICES ASSUME AdminInv, Tick PROVE AdminInv'
  OBVIOUS
<1>1. rows' \in [Sources -> Row \cup {NoRow}] /\ running' \subseteq Sources /\ now' \in 0..MaxTime
  BY AdminAssumption DEF Tick, AdminInv, AdminTypeOK
<1>2. \A s \in Sources :
        /\ rows'[s] = NoRow <=> rows[s] = NoRow
        /\ rows[s] # NoRow => /\ rows'[s].name = rows[s].name
                              /\ rows'[s].config = rows[s].config
                              /\ rows'[s].status = "running" <=> s \in running'
        /\ s \in running' => rows[s] # NoRow
  BY DEF Tick, AdminInv, StatusIsTheRuns, RunsHaveRows
<1>3. request' = request /\ tokens' = tokens /\ UNCHANGED <<issued, tested, writes>>
  BY DEF Tick
<1> QED BY <1>1, <1>2, <1>3, AroundKeeps

LEMMA RestartKeeps == AdminInv /\ Restart => AdminInv'
<1> SUFFICES ASSUME AdminInv, Restart PROVE AdminInv'
  OBVIOUS
<1>1. \A s \in Sources :
        IF s \in running
        THEN /\ rows'[s] \in Row /\ rows'[s] # NoRow /\ rows'[s].status = "idle"
             /\ rows'[s].name = rows[s].name /\ rows'[s].config = rows[s].config
             /\ rows[s] # NoRow
        ELSE rows'[s] = rows[s]
  <2>1. \A s \in running : rows[s] \in Row /\ rows[s] # NoRow
    BY DEF AdminInv, AdminTypeOK, RunsHaveRows
  <2>2. \A s \in Sources :
          rows'[s] = IF s \in running THEN [rows[s] EXCEPT !.status = "idle"] ELSE rows[s]
    BY DEF Restart
  <2>3. \A row \in Row : LET other == [row EXCEPT !.status = "idle"]
                       IN /\ other \in Row /\ other # NoRow /\ other.status = "idle"
                          /\ other.name = row.name /\ other.config = row.config
    BY StatusOnly
  <2> QED BY <2>1, <2>2, <2>3
<1>2. rows' \in [Sources -> Row \cup {NoRow}]
  <2>1. \A s \in Sources : rows'[s] \in Row \cup {NoRow}
    BY <1>1 DEF AdminInv, AdminTypeOK
  <2> QED BY <2>1 DEF Restart
<1>3. running' \subseteq Sources /\ now' \in 0..MaxTime
  BY DEF Restart, AdminInv, AdminTypeOK
<1>4. \A s \in Sources :
        /\ rows'[s] = NoRow <=> rows[s] = NoRow
        /\ rows[s] # NoRow => /\ rows'[s].name = rows[s].name
                              /\ rows'[s].config = rows[s].config
                              /\ rows'[s].status = "running" <=> s \in running'
        /\ s \in running' => rows[s] # NoRow
  BY <1>1 DEF Restart, AdminInv, StatusIsTheRuns
<1>5. /\ request' = [q \in Requests |-> Idle] /\ tokens' = [t \in Tokens |-> NoToken]
      /\ UNCHANGED <<issued, tested, writes>>
  BY DEF Restart
<1> QED BY <1>2, <1>3, <1>4, <1>5, AroundKeeps

LEMMA AdminInvStep == AdminInv /\ [AdminNext]_adminVars => AdminInv'
<1> SUFFICES ASSUME AdminInv, [AdminNext]_adminVars PROVE AdminInv'
  OBVIOUS
<1>1. CASE UNCHANGED adminVars
  BY <1>1 DEF adminVars, AdminInv, AdminTypeOK, StoredConfigWasTested, NameFollowsText,
              StatusIsTheRuns, RunsHaveRows, TokenIsFresh, JobIsSound, SpendingIsExclusive,
              Spends
<1>2. ASSUME NEW c \in Configs, NEW t \in Tokens, Test(c, t) PROVE AdminInv'
  BY <1>2, TestKeeps
<1>3. ASSUME NEW q \in Requests, NEW id \in Sources, NEW t \in Tokens,
             \/ \E body \in Creation : ConsumeForCreate(q, id, body, t)
             \/ \E body \in Change : Read(q, id, body, t)
      PROVE  AdminInv'
  BY <1>3, ConsumeForCreateKeeps, ReadKeeps
<1>4. ASSUME NEW q \in Requests, Insert(q) \/ Consume(q) \/ Write(q) \/ Abandon(q)
      PROVE  AdminInv'
  BY <1>4, InsertKeeps, ConsumeKeeps, WriteKeeps, AbandonKeeps
<1>5. ASSUME NEW id \in Sources, StartRun(id) \/ EndRun(id) PROVE AdminInv'
  BY <1>5, RunKeeps
<1>6. CASE Tick \/ Restart
  BY <1>6, TickKeeps, RestartKeeps
<1> QED BY <1>1, <1>2, <1>3, <1>4, <1>5, <1>6 DEF AdminNext

-----------------------------------------------------------------------------
(* The inductive invariant: the tables and the requests have their types,   *)
(* and a token is in one place only, in the table, with one request that is *)
(* about to write, or spent.                                                *)
THEOREM AdminCorrect == AdminSpec => []AdminInv
BY AdminInvInit, AdminInvStep, PTL DEF AdminSpec

(* Only a text that passed a dry run is ever stored, whatever requests and  *)
(* restarts come between the look into the table and the write.             *)
THEOREM OnlyTestedIsStored == AdminSpec => []StoredConfigWasTested
<1>1. AdminInv => StoredConfigWasTested
  BY DEF AdminInv
<1> QED BY <1>1, AdminCorrect, PTL

(* A test token lets at most one write through.                             *)
THEOREM OneWritePerToken == AdminSpec => []TokenLetsOneWriteThrough
<1>1. AdminInv => TokenLetsOneWriteThrough
  BY DEF AdminInv, TokenIsFresh, TokenLetsOneWriteThrough
<1> QED BY <1>1, AdminCorrect, PTL

(* The name of a source is one that a user gave or the site_name of the     *)
(* very text that is stored, however PATCH requests overlap.                *)
THEOREM NameIsOfTheText == AdminSpec => []NameFollowsText
<1>1. AdminInv => NameFollowsText
  BY DEF AdminInv
<1> QED BY <1>1, AdminCorrect, PTL

(* A PATCH that read the row before a run started or ended never brings the *)
(* old status back.                                                         *)
THEOREM StatusStaysTheRuns == AdminSpec => []StatusIsTheRuns
<1>1. AdminInv => StatusIsTheRuns
  BY DEF AdminInv
<1> QED BY <1>1, AdminCorrect, PTL
=============================================================================
