--------------------------- MODULE EventFeedProofs ---------------------------
(***************************************************************************)
(* For any number of events, connections, registrations of the repository  *)
(* and sizes of a batch: the feed implements Delivery, and a snapshot that *)
(* ends with no read having failed has printed all that it had to.         *)
(*                                                                         *)
(* The argument: the handler's cursor passes over a row that the query     *)
(* wants only by putting it on the wire, the client's last event passes    *)
(* over nothing that is still on the wire, and a lost wire moves the       *)
(* cursor back to the last event.  A row of another registration of the    *)
(* repository's name is never in the table together with one in scope.     *)
(***************************************************************************)
EXTENDS EventFeed, FiniteSetTheorems, SequenceTheorems, TLAPS

Printed == ToSet(printed)

\* The table: ids are unique and given in order, and rows of a repository
\* belong to the current registration.
Table ==
    /\ lastId \in 0..MaxId /\ repos \in Nat /\ repo \in {NoRepo, repos}
    /\ all \subseteq [id : Nat \ {0}, repo : 0..repos, type : Types]
    /\ \A e \in all : e.id <= lastId
    /\ \A e, f \in all : e.id = f.id => e = f
    /\ rows \subseteq all /\ IsFiniteSet(rows)
    /\ \A e \in rows : e.repo \in {NoRepo, repo}

\* The stream: what is on the wire lies between the two positions.
Stream ==
    /\ query \in QueryShape
    /\ client \in {"dial", "tail", "done", "stopped"}
    /\ conn \in [open : BOOLEAN, repo : 0..repos, cursor : Nat, eof : BOOLEAN]
    /\ conn.open <=> client = "tail"
    /\ client = "tail" => (conn.repo = Unscoped <=> ~query.repo)
    /\ last \in 0..lastId
    /\ client = "tail" => last <= conn.cursor /\ conn.cursor <= lastId
    /\ client # "tail" => wire = {}
    /\ wire \subseteq Ids(Relevant)
    /\ \A n \in wire : last < n /\ n <= conn.cursor
    /\ printed \in Seq(Nat)
    /\ Printed \subseteq Ids(Relevant)
    /\ \A n \in Printed : n <= last
    /\ faults \in Nat

\* Neither position passes over a row that is wanted.
NothingSkipped ==
    /\ \A e \in rows : Wanted(e) /\ e.id <= last => e.id \in Printed
    /\ client = "tail" =>
         \A e \in rows : Wanted(e) /\ e.id <= conn.cursor => e.id \in Printed \cup wire

\* The backlog of a snapshot is in the scope of its stream, and past the last
\* batch all of it was sent, unless the end of the stream is a failed read.
Snapshot ==
    /\ backlog \subseteq 0..lastId
    /\ client = "tail" =>
         \A e \in rows : e.id \in backlog =>
             /\ Wanted(e) /\ InScope(e, conn.repo)
             /\ conn.eof /\ faults = 0 => e.id \in Printed \cup wire
    /\ SnapshotComplete

\* The inductive invariant.
IInv == Table /\ Stream /\ NothingSkipped /\ Snapshot

-----------------------------------------------------------------------------
(* Facts about least and greatest numbers                                  *)

LEMMA LeastElement ==
    ASSUME NEW S \in SUBSET Nat, S # {}
    PROVE  \E x \in S : \A y \in S : x <= y
<1>1. PICK x \in S : \A y \in S : ~(<<y, x>> \in OpToRel(<, Nat))
  BY NatLessThanWellFounded, WFMin
<1>2. \A y \in S : ~(y < x)
  BY <1>1 DEF OpToRel
<1> QED
  BY <1>2

LEMMA MinProperties ==
    ASSUME NEW S \in SUBSET Nat, S # {}
    PROVE  Min(S) \in S /\ \A y \in S : Min(S) <= y
  BY LeastElement DEF Min

LEMMA MaxProperties ==
    ASSUME NEW S \in SUBSET Nat, S # {}, NEW b \in Nat, \A x \in S : x <= b
    PROVE  Max(S) \in S /\ \A y \in S : y <= Max(S)
<1> DEFINE R == {b - x : x \in S}
<1>0. \A x \in S : b - x \in Nat
  BY SMT
<1>1. R \in SUBSET Nat /\ R # {}
  BY <1>0
<1>2. PICK d \in R : \A y \in R : d <= y
  BY <1>1, LeastElement
<1>3. PICK x \in S : d = b - x
  BY <1>2
<1>4. \A y \in S : b - y \in R
  OBVIOUS
<1>5. \A y \in S : y <= x
  <2> SUFFICES ASSUME NEW y \in S PROVE b - x <= b - y => y <= x
    BY <1>2, <1>3, <1>4
  <2> QED
    BY SMT
<1> QED
  BY <1>5 DEF Max

\* ToSet of a sequence that grew by one.
LEMMA ToSetAppend ==
    ASSUME NEW s \in Seq(Nat), NEW n \in Nat
    PROVE  Append(s, n) \in Seq(Nat) /\ ToSet(Append(s, n)) = ToSet(s) \cup {n}
<1>1. /\ Append(s, n) \in Seq(Nat) /\ Len(Append(s, n)) = Len(s) + 1
      /\ \A i \in 1..Len(s) : Append(s, n)[i] = s[i]
      /\ Append(s, n)[Len(s) + 1] = n
  BY AppendProperties
<1>2. /\ Len(s) \in Nat /\ DOMAIN s = 1..Len(s)
      /\ DOMAIN Append(s, n) = 1..(Len(s) + 1)
  BY <1>1, LenProperties
<1>3. \A i \in 1..(Len(s) + 1) : i \in 1..Len(s) \/ i = Len(s) + 1
  BY <1>2
<1>4. \A i \in 1..Len(s) : i \in 1..(Len(s) + 1)
  BY <1>2
<1>5. Len(s) + 1 \in 1..(Len(s) + 1)
  BY <1>2
<1> QED
  BY <1>1, <1>2, <1>3, <1>4, <1>5, Zenon DEF ToSet

-----------------------------------------------------------------------------
(* Facts about a batch                                                     *)

\* ListEventsSince returns a prefix of the rows above the cursor, all of them
\* when it is short.
LEMMA BatchProperties ==
    ASSUME Table, NEW cursor \in Nat, NEW scope
    PROVE  LET above == {e \in rows : e.id > cursor /\ InScope(e, scope)}
               batch == ListEventsSince(cursor, scope) IN
           /\ batch \subseteq above
           /\ \A e \in batch, x \in above : x.id <= e.id => x \in batch
           /\ Cardinality(batch) < EventsBatch => batch = above
<1> DEFINE above == {e \in rows : e.id > cursor /\ InScope(e, scope)}
           batch == ListEventsSince(cursor, scope)
           Below(e) == {x \in above : x.id < e.id}
<1>1. /\ \A e \in above : e.id \in Nat /\ e \in rows
      /\ \A e, f \in above : e.id = f.id => e = f
      /\ IsFiniteSet(above)
  <2>1. above \in SUBSET rows /\ IsFiniteSet(rows)
    BY DEF Table
  <2>2. IsFiniteSet(above)
    BY <2>1, FS_Subset
  <2> QED
    BY <2>1, <2>2 DEF Table
<1>2. batch = {e \in above : Cardinality(Below(e)) < EventsBatch}
  BY DEF ListEventsSince
<1>3. batch \subseteq above
  BY <1>2
<1>4. \A e \in above : Below(e) \in SUBSET above /\ IsFiniteSet(Below(e)) /\ Cardinality(Below(e)) \in Nat
  <2> SUFFICES ASSUME NEW e \in above
               PROVE  Below(e) \in SUBSET above /\ IsFiniteSet(Below(e)) /\ Cardinality(Below(e)) \in Nat
    OBVIOUS
  <2>1. Below(e) \in SUBSET above
    OBVIOUS
  <2> HIDE DEF Below, above
  <2> QED
    BY <1>1, <2>1, FS_Subset, FS_CardinalityType
<1>5. ASSUME NEW e \in batch, NEW x \in above, x.id <= e.id PROVE x \in batch
  <2>1. Below(x) \in SUBSET Below(e)
    BY <1>1, <1>3, <1>5
  <2>2. Cardinality(Below(x)) <= Cardinality(Below(e)) /\ e \in above
    <3> HIDE DEF Below, above, batch
    <3> QED
      BY <1>3, <1>4, <2>1, FS_Subset
  <2>3. Cardinality(Below(e)) < EventsBatch
    BY <1>2
  <2>4. Cardinality(Below(x)) < EventsBatch
    <3> HIDE DEF Below, above, batch
    <3> QED
      BY <1>4, <2>2, <2>3, BatchAssumption
  <2> QED
    BY <1>2, <2>4
<1>6. ASSUME Cardinality(batch) < EventsBatch PROVE batch = above
  <2> SUFFICES ASSUME above \ batch # {} PROVE FALSE
    BY <1>3
  <2> DEFINE Rest == {e.id : e \in above \ batch}
  <2>1. Rest \in SUBSET Nat /\ Rest # {}
    BY <1>1
  <2>2. PICK m \in above \ batch : \A e \in above \ batch : m.id <= e.id
    <3>1. PICK n \in Rest : \A y \in Rest : n <= y
      BY <2>1, LeastElement
    <3> QED
      BY <3>1
  <2>3. Below(m) \in SUBSET batch
    BY <1>1, <2>2
  <2>4. IsFiniteSet(batch) /\ Cardinality(batch) \in Nat /\ Cardinality(Below(m)) <= Cardinality(batch)
    <3> HIDE DEF Below, above, batch
    <3> QED
      BY <1>1, <1>3, <2>3, FS_Subset, FS_CardinalityType
  <2>5. ~(Cardinality(Below(m)) < EventsBatch)
    BY <1>2, <2>2
  <2> HIDE DEF Below, above, batch
  <2> QED
    BY <1>4, <1>6, <2>2, <2>4, <2>5, BatchAssumption
<1> HIDE DEF above, batch
<1> QED
  BY <1>3, <1>5, <1>6 DEF above, batch

\* The cursor after a batch.
LEMMA CursorProperties ==
    ASSUME Table, NEW cursor \in Nat, cursor <= lastId, NEW batch \in SUBSET rows
    PROVE  LET next == Max({cursor} \cup {e.id : e \in batch}) IN
           /\ next \in Nat /\ cursor <= next /\ next <= lastId
           /\ next = cursor \/ \E e \in batch : next = e.id
           /\ \A e \in batch : e.id <= next
<1> DEFINE S == {cursor} \cup {e.id : e \in batch}
<1>1. S \in SUBSET Nat /\ S # {} /\ lastId \in Nat /\ \A x \in S : x <= lastId
  BY DEF Table
<1>2. Max(S) \in S /\ \A y \in S : y <= Max(S)
  BY <1>1, MaxProperties
<1>3. cursor \in S /\ \A e \in batch : e.id \in S
  OBVIOUS
<1> QED
  BY <1>1, <1>2, <1>3

-----------------------------------------------------------------------------
(* The steps                                                               *)

LEMMA InitInv == Init => IInv
<1> SUFFICES ASSUME Init PROVE IInv
  OBVIOUS
<1>1. MaxId \in Nat
  BY FeedBoundsAssumption
<1>2. Printed = {} /\ printed \in Seq(Nat)
  BY EmptySeq DEF Init, Printed, ToSet
<1>3. Table
  BY <1>1, FS_EmptySet DEF Init, Table, NoRepo
<1>4. Stream
  BY <1>2, QueriesAssumption DEF Init, Stream, Closed, Unscoped
<1>5. NothingSkipped /\ Snapshot
  BY DEF Init, NothingSkipped, Snapshot, SnapshotComplete
<1> QED
  BY <1>3, <1>4, <1>5 DEF IInv

\* An event takes the next id and is in the table.
LEMMA EmitStep ==
    ASSUME IInv, NEW r \in 0..MaxRepo, NEW t \in Types, Emit(r, t)
    PROVE  \E e : /\ e \in [id : Nat \ {0}, repo : 0..repos, type : Types]
                  /\ e.id = lastId + 1 /\ e.repo \in {NoRepo, repo} /\ lastId' = lastId + 1
                  /\ lastId + 1 <= MaxId
                  /\ rows' = rows \cup {e} /\ all' = all \cup {e}
<1> DEFINE e == [id |-> NextId, repo |-> r, type |-> t]
<1>1. lastId \in Nat /\ lastId + 1 <= MaxId /\ MaxId \in Nat /\ repos \in Nat
  BY FeedBoundsAssumption DEF Emit, IInv, Table
<1>2. Max({lastId, lastId + 1}) = lastId + 1
  <2>1. {lastId, lastId + 1} \in SUBSET Nat /\ \A x \in {lastId, lastId + 1} : x <= lastId + 1
    BY <1>1
  <2>2. /\ Max({lastId, lastId + 1}) \in {lastId, lastId + 1}
        /\ \A y \in {lastId, lastId + 1} : y <= Max({lastId, lastId + 1})
    BY <1>1, <2>1, MaxProperties
  <2> QED
    BY <1>1, <2>2
<1>3. e.id = lastId + 1 /\ e.repo = r /\ e.type = t /\ r \in {NoRepo, repo}
  BY DEF NextId, Emit
<1>4. r \in 0..repos
  BY <1>1, <1>3 DEF IInv, Table, NoRepo
<1>5. rows' = rows \cup {e} /\ all' = all \cup {e} /\ lastId' = Max({lastId, e.id})
  BY DEF Emit
<1>6. e \in [id : Nat \ {0}, repo : 0..repos, type : Types]
  BY <1>1, <1>3, <1>4
<1> HIDE DEF e
<1> QED
  BY <1>1, <1>2, <1>3, <1>5, <1>6

\* Whatever removes rows and leaves the stream alone.
LEMMA RowsShrink ==
    ASSUME IInv, rows' \subseteq rows, UNCHANGED <<lastId, all, query, streamVars>>,
           repos' \in Nat, repos <= repos', repo' \in {NoRepo, repos'},
           \A e \in rows' : e.repo \in {NoRepo, repo'}
    PROVE  IInv'
<1>1. Ids(Relevant)' = Ids(Relevant) /\ Printed' = Printed
  BY DEF Ids, Relevant, Wanted, Passes, Printed, streamVars
<1>2. Table'
  <2>1. IsFiniteSet(rows')
    BY FS_Subset DEF IInv, Table
  <2>2. \A e \in all : e.repo \in 0..repos'
    BY DEF IInv, Table
  <2>3. all \subseteq [id : Nat \ {0}, repo : 0..repos', type : Types]
    BY <2>2 DEF IInv, Table
  <2> QED
    BY <2>1, <2>3 DEF IInv, Table
<1>3. Stream'
  <2>1. conn.repo \in 0..repos'
    BY DEF IInv, Table, Stream
  <2>2. conn \in [open : BOOLEAN, repo : 0..repos', cursor : Nat, eof : BOOLEAN]
    BY <2>1 DEF IInv, Stream
  <2> QED
    BY <1>1, <2>2 DEF IInv, Stream, streamVars
<1>4. NothingSkipped'
  BY <1>1 DEF IInv, NothingSkipped, Wanted, Passes, streamVars
<1>5. Snapshot'
  BY <1>1 DEF IInv, Snapshot, SnapshotComplete, Printed, Ids, Wanted, Passes, InScope, streamVars
<1> QED
  BY <1>2, <1>3, <1>4, <1>5 DEF IInv

\* A step of the table.
LEMMA TableStep ==
    ASSUME IInv,
           \/ \E r \in 0..MaxRepo, t \in Types : Emit(r, t)
           \/ RunEventRetentionReaper \/ CreateRepo \/ DeleteRepo
    PROVE  IInv'
<1>1. ASSUME NEW r \in 0..MaxRepo, NEW t \in Types, Emit(r, t) PROVE IInv'
  <2>1. PICK e : /\ e \in [id : Nat \ {0}, repo : 0..repos, type : Types]
                 /\ e.id = lastId + 1 /\ e.repo \in {NoRepo, repo} /\ lastId' = lastId + 1
                 /\ lastId + 1 <= MaxId
                 /\ rows' = rows \cup {e} /\ all' = all \cup {e}
    BY <1>1, EmitStep
  <2>2. UNCHANGED <<repo, repos, query, streamVars>> /\ lastId \in Nat /\ MaxId \in Nat
    BY <1>1, FeedBoundsAssumption DEF Emit, IInv, Table
  <2>3. Ids(Relevant) \subseteq Ids(Relevant)' /\ Printed' = Printed
    BY <2>1, <2>2 DEF Ids, Relevant, Wanted, Passes, Printed, streamVars
  <2>4. Table'
    <3>1. IsFiniteSet(rows')
      BY <2>1, FS_AddElement DEF IInv, Table
    <3>2. \A f \in all : f.id # e.id /\ f.id <= lastId'
      BY <2>1, <2>2 DEF IInv, Table
    <3> QED
      BY <2>1, <2>2, <3>1, <3>2 DEF IInv, Table
  <2>5. Stream'
    BY <2>1, <2>2, <2>3 DEF IInv, Stream, streamVars
  <2>6. NothingSkipped'
    BY <2>1, <2>2, <2>3 DEF IInv, Stream, NothingSkipped, Wanted, Passes, streamVars
  <2>7. Snapshot'
    <3>1. ~(e.id \in backlog) /\ backlog \subseteq 0..lastId'
      BY <2>1, <2>2 DEF IInv, Snapshot
    <3> QED
      BY <2>1, <2>2, <2>3, <3>1 DEF IInv, Snapshot, SnapshotComplete, Printed, Ids, Wanted,
         Passes, InScope, streamVars
  <2> QED
    BY <2>4, <2>5, <2>6, <2>7 DEF IInv
<1>2. CASE RunEventRetentionReaper
  <2>1. rows' \subseteq rows
    BY <1>2 DEF RunEventRetentionReaper, PruneEvents
  <2>2. UNCHANGED <<lastId, all, query, streamVars, repo, repos>>
    BY <1>2 DEF RunEventRetentionReaper, PruneEvents
  <2> QED
    BY <2>1, <2>2, RowsShrink DEF IInv, Table
<1>3. CASE CreateRepo
  BY <1>3, RowsShrink DEF CreateRepo, IInv, Table, NoRepo
<1>4. CASE DeleteRepo
  BY <1>4, RowsShrink DEF DeleteRepo, IInv, Table, NoRepo
<1> QED
  BY <1>1, <1>2, <1>3, <1>4

\* One turn of the handler's loop: nothing in the query's scope is passed over
\* without going on the wire, and a snapshot ends behind its backlog.
LEMMA ListStep == ASSUME IInv, List PROVE IInv'
<1> DEFINE above == {e \in rows : e.id > conn.cursor /\ InScope(e, conn.repo)}
           batch == ListEventsSince(conn.cursor, conn.repo)
           next == Max({conn.cursor} \cup {e.id : e \in batch})
<1>1. /\ conn.open /\ ~conn.eof /\ client = "tail"
      /\ conn.cursor \in Nat /\ conn.cursor <= lastId /\ last <= conn.cursor /\ last \in Nat
  BY DEF List, IInv, Stream
<1>2. /\ batch \subseteq above
      /\ \A e \in batch, x \in above : x.id <= e.id => x \in batch
      /\ Cardinality(batch) < EventsBatch => batch = above
  BY <1>1, BatchProperties DEF IInv
<1>3. /\ next \in Nat /\ conn.cursor <= next /\ next <= lastId
      /\ next = conn.cursor \/ \E e \in batch : next = e.id
      /\ \A e \in batch : e.id <= next
  <2>1. batch \in SUBSET rows
    BY <1>2
  <2> HIDE DEF batch
  <2> QED
    BY <1>1, <2>1, CursorProperties DEF IInv
<1>4. /\ UNCHANGED <<tableVars, query, client, last, printed, backlog, drops, faults>>
      /\ wire' = wire \cup {e.id : e \in {x \in batch : Passes(x)}}
      /\ conn' = [conn EXCEPT !.cursor = next,
                              !.eof = query.once /\ Cardinality(batch) < EventsBatch]
  BY DEF List
<1>5. /\ conn'.open = conn.open /\ conn'.repo = conn.repo /\ conn'.cursor = next
      /\ conn'.eof => batch = above
      /\ conn' \in [open : BOOLEAN, repo : 0..repos, cursor : Nat, eof : BOOLEAN]
  <2>1. query.once \in BOOLEAN
    BY DEF IInv, Stream, QueryShape
  <2>2. (query.once /\ Cardinality(batch) < EventsBatch) \in BOOLEAN
    OBVIOUS
  <2> HIDE DEF batch, next, above
  <2> QED
    BY <1>2, <1>3, <1>4, <2>2 DEF IInv, Stream
<1>6. /\ Ids(Relevant)' = Ids(Relevant) /\ Printed' = Printed
      /\ rows' = rows /\ query' = query /\ last' = last /\ backlog' = backlog
      /\ client' = client /\ lastId' = lastId /\ repos' = repos /\ faults' = faults
  BY <1>4 DEF Ids, Relevant, Wanted, Passes, Printed, tableVars
<1> HIDE DEF next
\* The rows a batch can pass over are in its scope.
<1>7. ASSUME NEW e \in rows, NEW f \in batch, Wanted(e) PROVE InScope(e, conn.repo)
  <2>1. f \in rows /\ InScope(f, conn.repo)
    BY <1>2
  <2>2. CASE conn.repo = Unscoped
    BY <2>2 DEF InScope
  <2>3. CASE conn.repo # Unscoped
    BY <1>1, <1>7, <2>1, <2>3 DEF IInv, Table, Stream, InScope, Wanted, NoRepo, Unscoped
  <2> QED
    BY <2>2, <2>3
<1>8. ASSUME NEW e \in rows, Wanted(e), e.id <= next PROVE e.id \in Printed \cup wire'
  <2>1. CASE e.id <= conn.cursor
    BY <1>1, <1>4, <1>8, <2>1 DEF IInv, NothingSkipped
  <2>2. CASE e.id > conn.cursor
    <3>0. e.id \in Nat
      BY DEF IInv, Table
    <3>1. PICK f \in batch : next = f.id
      BY <1>1, <1>3, <1>8, <2>2, <3>0
    <3>2. e \in above
      BY <1>7, <1>8, <2>2, <3>1
    <3>3. e \in batch
      BY <1>2, <1>8, <3>1, <3>2
    <3> QED
      BY <1>4, <1>8, <3>3 DEF Wanted
  <2> QED
    BY <1>1, <2>1, <2>2 DEF IInv, Table
<1>9. ASSUME NEW n \in wire' PROVE n \in Ids(Relevant) /\ last < n /\ n <= next
  <2>1. CASE n \in wire
    BY <1>1, <1>3, <2>1 DEF IInv, Table, Stream, Ids, Relevant
  <2>2. CASE n \notin wire
    <3>1. PICK e \in batch : n = e.id /\ Passes(e)
      BY <1>4, <2>2
    <3>2. e \in rows /\ e \in all /\ e.id > conn.cursor /\ InScope(e, conn.repo) /\ e.id \in Nat
      BY <1>2 DEF IInv, Table
    <3>3. Wanted(e)
      BY <1>1, <3>1, <3>2 DEF IInv, Stream, Wanted, InScope, NoRepo, Unscoped
    <3> QED
      BY <1>1, <1>3, <3>1, <3>2, <3>3 DEF Ids, Relevant
  <2> QED
    BY <2>1, <2>2
<1>10. Table'
  BY <1>4 DEF IInv, Table, tableVars
<1>11. Stream'
  BY <1>1, <1>3, <1>4, <1>5, <1>6, <1>9 DEF IInv, Stream
<1>12. NothingSkipped'
  BY <1>1, <1>5, <1>6, <1>8 DEF IInv, NothingSkipped, Wanted, Passes
<1>13. Snapshot'
  <2>1. ASSUME NEW e \in rows, e.id \in backlog, conn'.eof, faults = 0 PROVE e.id \in Printed \cup wire'
    <3>1. Wanted(e) /\ InScope(e, conn.repo)
      BY <1>1, <2>1 DEF IInv, Snapshot
    <3>2. CASE e.id <= conn.cursor
      BY <1>3, <1>8, <3>1, <3>2, <1>1 DEF IInv, Table
    <3>3. CASE e.id > conn.cursor
      BY <1>4, <1>5, <2>1, <3>1, <3>3 DEF Wanted
    <3> QED
      BY <1>1, <3>2, <3>3 DEF IInv, Table
  <2>2. SnapshotComplete'
    BY <1>1, <1>6 DEF SnapshotComplete
  <2> QED
    BY <1>1, <1>5, <1>6, <2>1, <2>2 DEF IInv, Snapshot, Wanted, Passes, InScope
<1> QED
  BY <1>10, <1>11, <1>12, <1>13 DEF IInv

\* A read that fails moves no position.
LEMMA ListFailsStep == ASSUME IInv, ListFails PROVE IInv'
<1>1. /\ conn.open /\ conn' = [conn EXCEPT !.eof = TRUE] /\ faults' # 0
      /\ UNCHANGED <<tableVars, query, client, last, wire, printed, backlog>>
  <2>1. faults' # 0
    BY DEF ListFails, IInv, Stream
  <2> QED
    BY <2>1 DEF ListFails
<1>2. /\ conn' \in [open : BOOLEAN, repo : 0..repos, cursor : Nat, eof : BOOLEAN]
      /\ conn'.open = conn.open /\ conn'.repo = conn.repo /\ conn'.cursor = conn.cursor
  BY <1>1 DEF IInv, Stream
<1>3. Ids(Relevant)' = Ids(Relevant) /\ Printed' = Printed
  BY <1>1 DEF Ids, Relevant, Wanted, Passes, Printed, tableVars
<1>4. Table'
  BY <1>1 DEF IInv, Table, tableVars
<1>5. Stream'
  <2>1. faults' \in Nat
    BY DEF ListFails, IInv, Stream
  <2> QED
    BY <1>1, <1>2, <1>3, <2>1 DEF IInv, Stream, tableVars
<1>6. NothingSkipped'
  BY <1>1, <1>2, <1>3 DEF IInv, NothingSkipped, Wanted, Passes, tableVars
<1>7. Snapshot'
  BY <1>1, <1>2 DEF IInv, Snapshot, SnapshotComplete, Wanted, Passes, InScope, tableVars
<1> QED
  BY <1>4, <1>5, <1>6, <1>7 DEF IInv

\* The frame that is printed is the least one on the wire.
LEMMA ReceiveProperties ==
    ASSUME IInv, Receive
    PROVE  LET n == Min(wire) IN
           /\ n \in Nat /\ n \in wire /\ \A m \in wire : n <= m
           /\ n \in Ids(Relevant) /\ last < n /\ n <= conn.cursor /\ n <= lastId
           /\ printed' = Append(printed, n) /\ printed' \in Seq(Nat)
           /\ Printed' = Printed \cup {n}
           /\ last' = n /\ wire' = wire \ {n}
<1> DEFINE n == Min(wire)
<1>1. wire \in SUBSET Nat /\ wire # {} /\ client = "tail" /\ last \in Nat
  BY DEF Receive, IInv, Stream, Table, Ids, Relevant
<1>2. n \in wire /\ \A m \in wire : n <= m
  BY <1>1, MinProperties
<1>3. n \in Nat /\ n \in Ids(Relevant) /\ last < n /\ n <= conn.cursor /\ n <= lastId
  <2>1. n \in Nat /\ n \in Ids(Relevant) /\ last < n /\ n <= conn.cursor
    BY <1>1, <1>2 DEF IInv, Stream
  <2>2. conn.cursor <= lastId /\ lastId \in Nat /\ conn.cursor \in Nat
    BY <1>1 DEF IInv, Stream, Table
  <2> HIDE DEF n
  <2> QED
    BY <2>1, <2>2
<1>4. printed' = Append(printed, n) /\ wire' = wire \ {n} /\ last' = Max({last, n})
  BY DEF Receive
<1> HIDE DEF n
<1>5. last' = n
  <2>1. {last, n} \in SUBSET Nat /\ \A x \in {last, n} : x <= n
    BY <1>1, <1>3
  <2>2. Max({last, n}) \in {last, n} /\ \A y \in {last, n} : y <= Max({last, n})
    BY <1>3, <2>1, MaxProperties
  <2> QED
    BY <1>1, <1>3, <1>4, <2>2
<1>6. printed' \in Seq(Nat) /\ Printed' = Printed \cup {n}
  BY <1>3, <1>4, ToSetAppend DEF IInv, Stream, Printed
<1> QED
  BY <1>2, <1>3, <1>4, <1>5, <1>6 DEF n

\* A step of the client or of its connection.
LEMMA ClientStep ==
    ASSUME IInv, Connect \/ ConnectRefused \/ Receive \/ StreamEnds \/ Drop
    PROVE  IInv'
<1>1. UNCHANGED <<tableVars, query>>
  BY DEF Connect, ConnectRefused, Receive, StreamEnds, Drop
<1>2. Table'
  BY <1>1 DEF IInv, Table, tableVars
<1>3. /\ Ids(Relevant)' = Ids(Relevant) /\ rows' = rows /\ lastId' = lastId /\ repos' = repos
      /\ query' = query /\ Closed \in [open : BOOLEAN, repo : 0..repos, cursor : Nat, eof : BOOLEAN]
      /\ lastId \in Nat /\ \A e \in rows : e.id \in 0..lastId
  BY <1>1 DEF IInv, Table, Ids, Relevant, Wanted, Passes, tableVars, Closed, Unscoped
<1>4. CASE Connect
  <2>1. /\ client = "dial" /\ client' = "tail" /\ wire' = wire /\ wire = {} /\ last' = last
        /\ faults' = faults /\ printed' = printed /\ Printed' = Printed
        /\ backlog' = {e.id : e \in {x \in rows : Wanted(x) /\ x.id > last}}
        /\ conn' = [open |-> TRUE, repo |-> IF query.repo THEN repo ELSE Unscoped,
                    cursor |-> last, eof |-> FALSE]
        /\ ~query.repo \/ repo # NoRepo
    BY <1>4 DEF Connect, ResumeAt, IInv, Stream, Printed
  <2>2. conn'.repo \in 0..repos /\ last \in Nat
    BY <2>1 DEF IInv, Table, Stream, NoRepo, Unscoped
  <2>3. Stream'
    BY <1>3, <2>1, <2>2 DEF IInv, Stream, NoRepo, Unscoped
  <2>4. NothingSkipped'
    BY <1>3, <2>1 DEF IInv, NothingSkipped, Wanted, Passes
  <2>5. Snapshot'
    <3>1. ASSUME NEW e \in rows, e.id \in backlog' PROVE Wanted(e) /\ InScope(e, conn'.repo)
      <4>1. Wanted(e)
        <5>1. PICK x \in rows : Wanted(x) /\ x.id = e.id
          BY <2>1, <3>1
        <5> QED
          BY <5>1 DEF IInv, Table
      <4> QED
        BY <2>1, <4>1 DEF IInv, Table, InScope, Wanted, NoRepo, Unscoped
    <3>2. backlog' \subseteq 0..lastId
      BY <1>3, <2>1
    <3> QED
      BY <1>3, <2>1, <3>1, <3>2 DEF Snapshot, SnapshotComplete, Wanted, Passes, InScope
  <2> QED
    BY <1>2, <2>3, <2>4, <2>5 DEF IInv
<1>5. CASE ConnectRefused
  <2>1. Stream' /\ NothingSkipped'
    BY <1>3, <1>5 DEF ConnectRefused, IInv, Stream, NothingSkipped, Printed, Wanted, Passes
  <2>2. Snapshot'
    BY <1>3, <1>5 DEF ConnectRefused, IInv, Snapshot, SnapshotComplete
  <2> QED
    BY <1>2, <2>1, <2>2 DEF IInv
<1>6. CASE Receive
  <2> DEFINE n == Min(wire)
  <2>1. /\ n \in Nat /\ n \in wire /\ \A m \in wire : n <= m
        /\ n \in Ids(Relevant) /\ last < n /\ n <= conn.cursor /\ n <= lastId
        /\ printed' \in Seq(Nat) /\ Printed' = Printed \cup {n}
        /\ last' = n /\ wire' = wire \ {n}
    BY <1>6, ReceiveProperties
  <2> HIDE DEF n
  <2>2. client = "tail" /\ client' = client /\ conn' = conn /\ backlog' = backlog
        /\ last \in Nat /\ faults' = faults
    BY <1>6 DEF Receive, IInv, Stream
  <2>3. Stream'
    <3>1. \A m \in wire' : n < m
      <4>1. wire \in SUBSET Nat
        BY DEF IInv, Stream, Table, Ids, Relevant
      <4> QED
        BY <2>1, <4>1
    <3>2. \A m \in Printed' : m <= last'
      <4>1. Printed \in SUBSET Nat
        BY DEF IInv, Stream, Table, Ids, Relevant
      <4> QED
        BY <2>1, <2>2, <4>1 DEF IInv, Stream
    <3> QED
      BY <1>3, <2>1, <2>2, <3>1, <3>2 DEF IInv, Stream
  <2>4. NothingSkipped'
    <3>1. ASSUME NEW e \in rows, Wanted(e), e.id <= conn.cursor PROVE e.id \in Printed' \cup wire'
      BY <2>1, <2>2, <3>1 DEF IInv, NothingSkipped
    <3>2. ASSUME NEW e \in rows, Wanted(e), e.id <= n PROVE e.id \in Printed'
      <4>1. e.id \in Nat /\ conn.cursor \in Nat
        BY DEF IInv, Table, Stream
      <4>2. e.id \in Printed \cup wire
        BY <2>1, <2>2, <3>2, <4>1 DEF IInv, NothingSkipped
      <4> QED
        BY <2>1, <3>2, <4>1, <4>2
    <3> QED
      BY <1>3, <2>1, <2>2, <3>1, <3>2 DEF NothingSkipped, Wanted, Passes
  <2>5. Snapshot'
    BY <1>3, <2>1, <2>2 DEF IInv, Snapshot, SnapshotComplete, Wanted, Passes, InScope
  <2> QED
    BY <1>2, <2>3, <2>4, <2>5 DEF IInv
<1>7. CASE StreamEnds
  <2>1. /\ client = "tail" /\ client' \in {"done", "dial"} /\ wire = {} /\ wire' = wire /\ conn.eof /\ conn' = Closed
        /\ last' = last /\ printed' = printed /\ Printed' = Printed /\ backlog' = backlog /\ faults' = faults
    BY <1>7 DEF StreamEnds, Printed
  <2>2. Stream' /\ NothingSkipped'
    BY <1>3, <2>1 DEF IInv, Stream, NothingSkipped, Wanted, Passes, Closed
  <2>3. Snapshot'
    BY <1>3, <2>1 DEF IInv, Snapshot, SnapshotComplete, Printed, Ids
  <2> QED
    BY <1>2, <2>2, <2>3 DEF IInv
<1>8. CASE Drop
  <2>1. /\ client = "tail" /\ client' \in {"stopped", "dial"} /\ wire' = {} /\ conn' = Closed /\ faults' = faults
        /\ last' = last /\ printed' = printed /\ Printed' = Printed /\ backlog' = backlog
    BY <1>8 DEF Drop, Printed
  <2>2. Stream' /\ NothingSkipped'
    BY <1>3, <2>1 DEF IInv, Stream, NothingSkipped, Wanted, Passes, Closed
  <2>3. Snapshot'
    BY <1>3, <2>1 DEF IInv, Snapshot, SnapshotComplete
  <2> QED
    BY <1>2, <2>2, <2>3 DEF IInv
<1> QED
  BY <1>4, <1>5, <1>6, <1>7, <1>8

LEMMA NextInv == IInv /\ [Next]_vars => IInv'
<1> SUFFICES ASSUME IInv, [Next]_vars PROVE IInv'
  OBVIOUS
<1>1. CASE UNCHANGED vars
  <2>1. UNCHANGED <<lastId, all, query, streamVars, rows, repo, repos>>
    BY <1>1 DEF vars, streamVars
  <2> QED
    BY <2>1, RowsShrink DEF IInv, Table
<1> QED
  BY <1>1, TableStep, ListStep, ListFailsStep, ClientStep DEF Next

LEMMA Invariance == Spec => []IInv
  BY InitInv, NextInv, PTL DEF Spec

-----------------------------------------------------------------------------
(* Theorems                                                                *)

\* A snapshot that exits with success, no read of the database having failed, printed whatever the table held at its start and
\* still holds, through any number of batches, sweeps and deletions.
THEOREM SnapshotsAreComplete == Spec => []SnapshotComplete
<1>1. IInv => SnapshotComplete
  BY DEF IInv, Snapshot
<1> QED
  BY <1>1, Invariance, PTL

\* A step of the feed is a step of Delivery or none: an event that is emitted is
\* published if the query wants it, rows that go are withdrawn, and the frame that
\* is printed is the next one that has not been withdrawn.
LEMMA FeedStep == IInv /\ IInv' /\ [Next]_vars => [Promise!Next]_(Promise!vars)
<1> SUFFICES ASSUME IInv, IInv', [Next]_vars PROVE [Promise!Next]_(Promise!vars)
  OBVIOUS
<1> DEFINE gone == Ids({e \in Relevant : e \notin rows})
<1>1. ASSUME UNCHANGED <<all, query, printed>>, rows' \subseteq rows
      PROVE  Promise!Withdraw
  <2>1. Relevant' = Relevant /\ Ids(Relevant)' = Ids(Relevant)
    BY <1>1 DEF Relevant, Wanted, Passes, Ids
  <2> QED
    BY <1>1, <2>1 DEF Promise!Withdraw, Ids
<1>2. CASE UNCHANGED vars
  BY <1>1, <1>2 DEF vars, Promise!Next
<1>3. CASE RunEventRetentionReaper \/ CreateRepo \/ DeleteRepo
  <2>1. UNCHANGED <<all, query, printed>> /\ rows' \subseteq rows
    BY <1>3 DEF RunEventRetentionReaper, PruneEvents, CreateRepo, DeleteRepo, streamVars
  <2> QED
    BY <1>1, <2>1 DEF Promise!Next
<1>4. CASE List \/ ListFails \/ Connect \/ ConnectRefused \/ StreamEnds \/ Drop
  <2>1. UNCHANGED <<all, query, printed, rows>>
    BY <1>4 DEF List, ListFails, Connect, ConnectRefused, StreamEnds, Drop, tableVars
  <2> QED
    BY <1>1, <2>1 DEF Promise!Next
<1>5. ASSUME NEW r \in 0..MaxRepo, NEW t \in Types, Emit(r, t)
      PROVE  [Promise!Next]_(Promise!vars)
  <2>1. PICK e : /\ e.id = lastId + 1 /\ lastId + 1 <= MaxId
                 /\ rows' = rows \cup {e} /\ all' = all \cup {e}
    BY <1>5, EmitStep
  <2>2. UNCHANGED <<query, printed>> /\ lastId \in Nat /\ MaxId \in Nat
    BY <1>5, FeedBoundsAssumption DEF Emit, streamVars, IInv, Table
  <2>3. \A f \in all : f.id \in Nat /\ f.id < e.id
    BY <2>1, <2>2 DEF IInv, Table
  <2>4. gone' = gone
    <3>1. {f \in Relevant : f \notin rows}' = {f \in Relevant : f \notin rows}
      BY <2>1, <2>2, <2>3 DEF Relevant, Wanted, Passes
    <3> QED
      BY <3>1 DEF Ids
  <2>5. CASE Wanted(e)
    <3>1. Ids(Relevant)' = Ids(Relevant) \cup {e.id}
      BY <2>1, <2>2, <2>5 DEF Ids, Relevant, Wanted, Passes
    <3>2. \A m \in Ids(Relevant) : m < e.id
      BY <2>3 DEF Ids, Relevant
    <3>3. e.id \in 1..MaxId
      BY <2>1, <2>2
    <3>4. Promise!Publish(e.id)
      BY <2>2, <2>4, <3>1, <3>2 DEF Promise!Publish
    <3> QED
      BY <3>3, <3>4 DEF Promise!Next
  <2>6. CASE ~Wanted(e)
    <3>1. Ids(Relevant)' = Ids(Relevant)
      BY <2>1, <2>2, <2>6 DEF Ids, Relevant, Wanted, Passes
    <3> QED
      BY <2>2, <2>4, <3>1 DEF Promise!vars
  <2> QED
    BY <2>5, <2>6
<1>6. CASE Receive
  <2> DEFINE n == Min(wire)
  <2>1. /\ n \in Nat /\ n \in wire /\ \A m \in wire : n <= m
        /\ n \in Ids(Relevant) /\ last < n /\ n <= conn.cursor /\ n <= lastId
        /\ printed' = Append(printed, n)
    BY <1>6, ReceiveProperties
  <2> HIDE DEF n
  <2>2. client = "tail" /\ UNCHANGED <<rows, all, query>> /\ last \in Nat /\ conn.cursor \in Nat
    BY <1>6 DEF Receive, tableVars, IInv, Stream
  <2>3. Ids(Relevant)' = Ids(Relevant) /\ gone' = gone
    BY <2>2 DEF Ids, Relevant, Wanted, Passes
  <2>4. \A m \in Printed : m < n
    <3>1. Printed \in SUBSET Nat
      BY DEF IInv, Stream, Table, Ids, Relevant
    <3> QED
      BY <2>1, <2>2, <3>1 DEF IInv, Stream
  <2>5. ASSUME NEW m \in Ids(Relevant), m < n PROVE m \in Printed \cup gone
    <3>1. PICK e \in Relevant : m = e.id
      BY DEF Ids
    <3>2. CASE e \notin rows
      BY <3>1, <3>2 DEF Ids
    <3>3. CASE e \in rows
      <4>1. e.id \in Nat /\ Wanted(e)
        BY <3>1 DEF IInv, Table, Relevant
      <4>2. e.id \in Printed \cup wire
        BY <2>1, <2>2, <2>5, <3>1, <3>3, <4>1 DEF IInv, NothingSkipped
      <4> QED
        BY <2>1, <2>5, <3>1, <4>1, <4>2
    <3> QED
      BY <3>2, <3>3
  <2>6. n \in 1..MaxId
    BY <2>1, <2>2, FeedBoundsAssumption DEF IInv, Table
  <2>7. Promise!Received = Printed
    BY DEF Promise!Received, Promise!ToSet, ToSet, Printed
  <2>8. Promise!Deliver(n)
    BY <2>1, <2>3, <2>4, <2>5, <2>7 DEF Promise!Deliver
  <2> QED
    BY <2>6, <2>8 DEF Promise!Next
<1> QED
  BY <1>2, <1>3, <1>4, <1>5, <1>6 DEF Next

\* The event feed implements Delivery: the client prints the events of its query in
\* order, each once, and passes over one only if it was removed, whatever the
\* size of a batch and however often the connection breaks.
THEOREM FeedImplementsDelivery == Spec => FeedDelivers
<1>1. Init => Promise!Init
  BY DEF Init, Promise!Init, Ids, Relevant
<1> QED
  BY <1>1, FeedStep, Invariance, PTL DEF Spec, FeedDelivers, Promise!Spec
=============================================================================
