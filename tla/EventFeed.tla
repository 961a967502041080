------------------------------ MODULE EventFeed ------------------------------
(***************************************************************************)
(* The fleet event feed: rows appended by every mutation, pruned by the    *)
(* event reaper and by the cascade of a repository's deletion, streamed by *)
(* handleEvents to `cf events`, which reconnects from the last event it    *)
(* printed.  One client, one repository name; the other repositories are   *)
(* events without a repository.                                            *)
(*                                                                         *)
(* SQLite has one writer connection: an insert is one step, and rows       *)
(* become visible in the order of their ids.  emit is best effort: an      *)
(* event whose insert fails never existed.                                 *)
(*                                                                         *)
(* Source: internal/server/events.go, internal/storage/events.go,          *)
(* cmd/cf/events.go, cmd/codefortd/main.go (runEventRetentionReaper).               *)
(***************************************************************************)
EXTENDS Naturals, FiniteSets, Sequences, FiniteSetsExt, SequencesExt

CONSTANTS
    Types,         \* event types
    Queries,       \* the clients to consider: [repo, types, once] (below)
    EventsBatch,   \* eventsBatch: rows per read
    EventRetain,   \* cfg.EventRetain, 0 disables pruning
    MaxId,         \* bound: events ever appended
    MaxRepo,       \* bound: times the repository is created
    MaxDrops       \* bound: connections lost and reads of the database failed

\* A query: scoped to the repository or not, the types it lets through (none:
\* all of them), and whether it is `cf events --once`.
QueryShape == [repo : BOOLEAN, types : SUBSET Types, once : BOOLEAN]

ASSUME QueriesAssumption == Queries \subseteq QueryShape
ASSUME BatchAssumption == EventsBatch \in Nat \ {0}
ASSUME FeedBoundsAssumption == {EventRetain, MaxId, MaxRepo, MaxDrops} \subseteq Nat

NoRepo == 0
Unscoped == 0

VARIABLES
    rows,      \* the events table: records [id, repo, type]
    lastId,    \* the AUTOINCREMENT counter of events
    repo,      \* repos.id of the repository, NoRepo when it is not registered
    repos,     \* the AUTOINCREMENT counter of repos
    query,     \* the arguments of the client
    client,    \* "dial", "tail", "done" or "stopped"
    last,      \* lastSeq of runEvents
    conn,      \* the handler: [open, repo, cursor, eof]
    wire,      \* ids sent and not yet read by the client, ascending
    printed,   \* history: the events the client printed, in that order
    all,       \* history: every event ever appended
    backlog,   \* history: the events the snapshot has to print
    drops,
    faults     \* reads of the database that failed

vars == <<rows, lastId, repo, repos, query, client, last, conn, wire, printed,
          all, backlog, drops, faults>>
tableVars  == <<rows, lastId, repo, repos, all>>
streamVars == <<client, last, conn, wire, printed, backlog, drops, faults>>

Closed == [open |-> FALSE, repo |-> Unscoped, cursor |-> 0, eof |-> FALSE]

-----------------------------------------------------------------------------
(* The table                                                               *)

\* Slip: without AUTOINCREMENT the id after the highest row is handed out.
NextIdReused == 1 + Max({0} \cup {e.id : e \in rows})

\* events.id INTEGER PRIMARY KEY AUTOINCREMENT.
NextId == lastId + 1

\* emit, emitRunQueued, emitPull, and the runner's own calls of AppendEvent.
\* An event of a repository that is gone violates the foreign key.
Emit(r, t) ==
    /\ lastId < MaxId
    /\ r \in {NoRepo, repo}
    /\ LET e == [id |-> NextId, repo |-> r, type |-> t] IN
       /\ rows' = rows \cup {e}
       /\ all' = all \cup {e}
       /\ lastId' = Max({lastId, e.id})
    /\ UNCHANGED <<repo, repos, query, streamVars>>

\* PruneEvents: id <= MAX(id) - keep.
PruneEvents ==
    /\ EventRetain > 0
    /\ rows # {}
    /\ LET newest == Max({e.id : e \in rows}) IN
       rows' = {e \in rows : e.id + EventRetain > newest}
    /\ UNCHANGED <<lastId, repo, repos, all, query, streamVars>>

\* The reaper's sweep; EventRetain <= 0 disables it.
RunEventRetentionReaper == PruneEvents /\ rows' # rows

CreateRepo ==
    /\ repo = NoRepo /\ repos < MaxRepo
    /\ repo' = repos + 1 /\ repos' = repos + 1
    /\ UNCHANGED <<rows, lastId, all, query, streamVars>>

\* events.repo_id REFERENCES repos(id) ON DELETE CASCADE.
DeleteRepo ==
    /\ repo # NoRepo
    /\ rows' = {e \in rows : e.repo # repo}
    /\ repo' = NoRepo
    /\ UNCHANGED <<lastId, repos, all, query, streamVars>>

-----------------------------------------------------------------------------
(* The handler                                                             *)

InScope(e, scope) == scope = Unscoped \/ e.repo = scope
Passes(e) == query.types = {} \/ e.type \in query.types

\* The event feed's promise is about the events of the query: those of the
\* repository under its name, whichever registration it had.
Wanted(e) == (~query.repo \/ e.repo # NoRepo) /\ Passes(e)

\* ListEventsSince: the first EventsBatch rows above the cursor.
ListEventsSince(cursor, scope) ==
    LET above == {e \in rows : e.id > cursor /\ InScope(e, scope)} IN
    {e \in above : Cardinality({x \in above : x.id < e.id}) < EventsBatch}

\* Slip: the snapshot ends with its first batch.
ListOneBatch ==
    /\ conn.open /\ ~conn.eof
    /\ LET batch == ListEventsSince(conn.cursor, conn.repo) IN
       /\ query.once \/ batch # {}
       /\ wire' = wire \cup {e.id : e \in {x \in batch : Passes(x)}}
       /\ conn' = [conn EXCEPT !.cursor = Max({@} \cup {e.id : e \in batch}),
                               !.eof = query.once]
    /\ UNCHANGED <<tableVars, query, client, last, printed, backlog, drops, faults>>

\* One turn of handleEvents' loop: the cursor moves over the events the type
\* filter drops; a short batch ends a snapshot.  (The turn that finds nothing
\* and sleeps changes nothing.)
List ==
    /\ conn.open /\ ~conn.eof
    /\ LET batch == ListEventsSince(conn.cursor, conn.repo) IN
       /\ query.once \/ batch # {}
       /\ wire' = wire \cup {e.id : e \in {x \in batch : Passes(x)}}
       /\ conn' = [conn EXCEPT !.cursor = Max({@} \cup {e.id : e \in batch}),
                               !.eof = query.once /\ Cardinality(batch) < EventsBatch]
    /\ UNCHANGED <<tableVars, query, client, last, printed, backlog, drops, faults>>

\* ListEventsSince fails: the handler logs it and returns.  The answer was 200,
\* so the client reads what was sent and then a clean EOF, as after a snapshot.
ListFails ==
    /\ conn.open /\ ~conn.eof
    /\ drops + faults < MaxDrops
    /\ faults' = faults + 1
    /\ conn' = [conn EXCEPT !.eof = TRUE]
    /\ UNCHANGED <<tableVars, query, client, last, wire, printed, backlog, drops>>

-----------------------------------------------------------------------------
(* The client                                                              *)

\* Slip: the client resumes after the last event the server looked at.
ResumeAtCursor == IF last > 0 THEN Max({last, lastId}) ELSE 0

\* streamEvents: Last-Event-ID is the last event printed; the repository is
\* resolved to its id, and an unknown one is a 404.
ResumeAt == last

Connect ==
    /\ client = "dial"
    /\ ~query.repo \/ repo # NoRepo
    /\ conn' = [open |-> TRUE, repo |-> IF query.repo THEN repo ELSE Unscoped,
                cursor |-> ResumeAt, eof |-> FALSE]
    /\ client' = "tail"
    /\ backlog' = {e.id : e \in {x \in rows : Wanted(x) /\ x.id > last}}
    /\ UNCHANGED <<tableVars, query, last, wire, printed, drops, faults>>

\* stopErr: an HTTP status other than 200 ends the client.  LookupRepo's failure
\* is answered like an unknown repository.
ConnectRefused ==
    /\ client = "dial"
    /\ query.repo
    /\ \/ repo = NoRepo /\ faults' = faults
       \/ drops + faults < MaxDrops /\ faults' = faults + 1
    /\ client' = "stopped"
    /\ UNCHANGED <<tableVars, query, last, conn, wire, printed, backlog, drops>>

\* flush: one frame parsed and printed.
Receive ==
    /\ client = "tail" /\ wire # {}
    /\ printed' = Append(printed, Min(wire))
    /\ last' = Max({last, Min(wire)})
    /\ wire' = wire \ {Min(wire)}
    /\ UNCHANGED <<tableVars, query, client, conn, backlog, drops, faults>>

\* A clean EOF, whatever the handler's reason: a snapshot takes it for the end
\* of the backlog and exits with success, a tail dials again.
StreamEnds ==
    /\ client = "tail" /\ wire = {} /\ conn.eof
    /\ client' = IF query.once THEN "done" ELSE "dial"
    /\ conn' = Closed
    /\ UNCHANGED <<tableVars, query, last, wire, printed, backlog, drops, faults>>

\* The network or a restart of the server breaks the stream: what is on the
\* wire is lost.  A snapshot reports the error and exits, a tail dials again.
Drop ==
    /\ client = "tail" /\ drops + faults < MaxDrops
    /\ drops' = drops + 1
    /\ conn' = Closed /\ wire' = {}
    /\ client' = IF query.once THEN "stopped" ELSE "dial"
    /\ UNCHANGED <<tableVars, query, last, printed, backlog, faults>>

-----------------------------------------------------------------------------

Init ==
    /\ rows = {} /\ all = {} /\ lastId = 0
    /\ repo = NoRepo /\ repos = 0
    /\ query \in Queries
    /\ client = "dial" /\ last = 0
    /\ conn = Closed /\ wire = {}
    /\ printed = <<>> /\ backlog = {}
    /\ drops = 0 /\ faults = 0

Next ==
    \/ \E r \in 0..MaxRepo, t \in Types : Emit(r, t)
    \/ RunEventRetentionReaper \/ CreateRepo \/ DeleteRepo
    \/ List \/ ListFails
    \/ Connect \/ ConnectRefused \/ Receive \/ StreamEnds \/ Drop

Spec == Init /\ [][Next]_vars

\* The handler polls every second, the client reads and reconnects after one.
FairSpec == Spec /\ WF_vars(List) /\ WF_vars(Connect) /\ WF_vars(Receive)
                 /\ WF_vars(StreamEnds)

-----------------------------------------------------------------------------
(* Properties                                                              *)

Ids(S) == {e.id : e \in S}
Relevant == {e \in all : Wanted(e)}

\* "Clients resume after a drop via the Last-Event-ID header ... only events
\* with a higher Seq are sent" and "ids are monotonic and never reused": the
\* client prints the events of its query in order, each once, and passes over
\* one only if the reaper or a repository's deletion has removed it.
Promise == INSTANCE Delivery WITH
    Events <- 1..MaxId,
    published <- Ids(Relevant),
    gone <- Ids({e \in Relevant : e \notin rows}),
    delivered <- printed

FeedDelivers == Promise!Spec

\* `cf events --once` exits with success once it has "drained the backlog
\* cleanly": unless a read of the database failed, it has printed everything the
\* table held when it connected and still holds, however many batches it took.
\* The exception is the code's: a read that fails after the 200 ends the stream
\* with the same clean EOF (ListFails), and the incomplete snapshot exits 0 too.
SnapshotComplete ==
    client = "done" /\ faults = 0 =>
        \A n \in backlog : n \in ToSet(printed) \/ n \notin Ids(rows)

\* A tail catches up: an event in the scope of an open stream is printed,
\* unless it is removed first or the client is turned away.
CatchesUp ==
    \A n \in 1..MaxId :
        (~query.once /\ conn.open
           /\ \E e \in rows : e.id = n /\ Passes(e) /\ InScope(e, conn.repo))
            ~> (n \in ToSet(printed) \/ n \notin Ids(rows) \/ client = "stopped")
=============================================================================
