---------------------------- MODULE JobTailProofs ----------------------------
(***************************************************************************)
(* For any number of lines, openings of the log, short writes and lost     *)
(* connections: the tail implements Delivery, and the log of a CI job that *)
(* the page takes for complete is complete.                                *)
(*                                                                         *)
(* The argument: the numbers in the file never fall, even with the two     *)
(* writers that a reaped session has, so what a read sends is exactly what *)
(* is readable above the handler's last number; that number passes over    *)
(* nothing that is not on the page or on its way.  A CI job's file is      *)
(* frozen once its run has ended, and only then is it drained.             *)
(***************************************************************************)
EXTENDS JobTail, NaturalsInduction, WellFoundedInduction, SequenceTheorems, TLAPS

Shown == ToSet(shown)
Active == stream.pc # "none"
Published == {file[i].seq : i \in {k \in DOMAIN file : file[k].ok}}

\* The row, the file and its writers.
Log ==
    /\ status \in {"queued", "running", "awaiting_input", "finishing", "ended"}
    /\ file \in Seq([seq : Nat \ {0}, ok : BOOLEAN]) /\ Len(file) <= MaxLines
    /\ torn \in BOOLEAN
    /\ writer \in [open : BOOLEAN, seq : Nat]
    /\ \A i \in DOMAIN file : file[i].seq <= Len(file)
    /\ \A i, j \in DOMAIN file : i < j => file[i].seq <= file[j].seq
    /\ writer.open => /\ writer.seq <= Len(file)
                      /\ \A i \in DOMAIN file : file[i].seq <= writer.seq + 1
    /\ writer.open /\ reaper = "listed" => writer.seq = Len(file)
    /\ status = "awaiting_input" => ~writer.open

\* A CI job has one writer, while its run is running.
CILog ==
    kind = "ci" =>
        /\ status \in {"queued", "running", "ended"}
        /\ reaper = "idle"
        /\ \A i \in DOMAIN file : file[i].seq = i
        /\ writer.open => status = "running" /\ writer.seq = Len(file)

\* The stream and the page: what is on the wire lies between their positions.
View ==
    /\ stream \in [pc : {"none", "read", "check", "drain"}, offset : Nat, last : Nat]
    /\ close \in {"open", "resume", "end"}
    /\ viewer \in [pc : {"dial", "open", "error", "done"}, last : Nat]
    /\ Active => viewer.pc = "open" /\ close = "open"
    /\ viewer.pc # "open" => wire = {} /\ close = "open"
    /\ shown \in Seq(Nat) /\ Shown \subseteq Published
    /\ viewer.last \in Shown \cup {0}
    /\ \A m \in Shown : m <= viewer.last
    /\ wire \subseteq Published
    /\ \A m \in wire : viewer.last < m
    /\ Active =>
         /\ stream.offset <= Len(file)
         /\ \A i \in DOMAIN file : i <= stream.offset => file[i].seq <= stream.last
         /\ viewer.last <= stream.last /\ stream.last \in Shown \cup wire \cup {0}
         /\ \A m \in wire : m <= stream.last

\* No position passes over a readable event.
NothingSkipped ==
    \A m \in Published :
        /\ m <= viewer.last => m \in Shown
        /\ \A w \in wire : m <= w => m \in Shown \cup wire
        /\ Active /\ m <= stream.last => m \in Shown \cup wire

\* A CI job's page counts the lines, and ends with the last one.
Complete ==
    kind = "ci" =>
        /\ stream.pc = "drain" => status = "ended"
        /\ ~Corrupt(0) =>
             /\ Len(shown) = viewer.last
             /\ \A i \in DOMAIN shown : shown[i] = i
             /\ (close = "end" \/ viewer.pc = "done") =>
                  status = "ended" /\ \A i \in DOMAIN file : i \in Shown \cup wire

\* The inductive invariant.
IInv == Log /\ CILog /\ View /\ NothingSkipped /\ Complete

-----------------------------------------------------------------------------
(* Facts about least and greatest numbers                                  *)

LEMMA LeastElement ==
    ASSUME NEW S \in SUBSET Nat, S # {}
    PROVE  \E x \in S : \A y \in S : x <= y
<1>1. PICK x \in S : \A y \in S : ~(<<y, x>> \in OpToRel(<, Nat))
  BY NatLessThanWellFounded, WFMin
<1>2. \A y \in S : ~(y < x)
  BY <1>1 DEF OpToRel
<1> QED
  BY <1>2

LEMMA MinProperties ==
    ASSUME NEW S \in SUBSET Nat, S # {}
    PROVE  Min(S) \in S /\ \A y \in S : Min(S) <= y
  BY LeastElement DEF Min

LEMMA MaxProperties ==
    ASSUME NEW S \in SUBSET Nat, S # {}, NEW b \in Nat, \A x \in S : x <= b
    PROVE  Max(S) \in S /\ \A y \in S : y <= Max(S)
<1> DEFINE R == {b - x : x \in S}
<1>0. \A x \in S : b - x \in Nat
  BY SMT
<1>1. R \in SUBSET Nat /\ R # {}
  BY <1>0
<1>2. PICK d \in R : \A y \in R : d <= y
  BY <1>1, LeastElement
<1>3. PICK x \in S : d = b - x
  BY <1>2
<1>4. \A y \in S : b - y \in R
  OBVIOUS
<1>5. \A y \in S : y <= x
  <2> SUFFICES ASSUME NEW y \in S PROVE b - x <= b - y => y <= x
    BY <1>2, <1>3, <1>4
  <2> QED
    BY SMT
<1> QED
  BY <1>5 DEF Max

\* ToSet of a sequence that grew by one.
LEMMA ToSetAppend ==
    ASSUME NEW s \in Seq(Nat), NEW n \in Nat
    PROVE  Append(s, n) \in Seq(Nat) /\ ToSet(Append(s, n)) = ToSet(s) \cup {n}
<1>1. /\ Append(s, n) \in Seq(Nat) /\ Len(Append(s, n)) = Len(s) + 1
      /\ \A i \in 1..Len(s) : Append(s, n)[i] = s[i]
      /\ Append(s, n)[Len(s) + 1] = n
  BY AppendProperties
<1>2. /\ Len(s) \in Nat /\ DOMAIN s = 1..Len(s)
      /\ DOMAIN Append(s, n) = 1..(Len(s) + 1)
  BY <1>1, LenProperties
<1>3. \A i \in 1..(Len(s) + 1) : i \in 1..Len(s) \/ i = Len(s) + 1
  BY <1>2
<1>4. \A i \in 1..Len(s) : i \in 1..(Len(s) + 1)
  BY <1>2
<1>5. Len(s) + 1 \in 1..(Len(s) + 1)
  BY <1>2
<1> QED
  BY <1>1, <1>2, <1>3, <1>4, <1>5, Zenon DEF ToSet

-----------------------------------------------------------------------------
(* The log                                                                 *)

LogLine == [seq : Nat \ {0}, ok : BOOLEAN]

LEMMA FileShape ==
    ASSUME Log
    PROVE  /\ Len(file) \in Nat /\ DOMAIN file = 1..Len(file)
           /\ \A i \in DOMAIN file : /\ i \in Nat \ {0} /\ file[i] \in LogLine /\ file[i].seq \in Nat \ {0}
                                     /\ file[i].ok \in BOOLEAN
           /\ MaxLines \in Nat
<1>1. Len(file) \in Nat /\ DOMAIN file = 1..Len(file)
  BY LenProperties DEF Log
<1>2. \A i \in 1..Len(file) : file[i] \in LogLine
  BY <1>1, ElementOfSeq DEF Log, LogLine
<1>3. MaxLines \in Nat
  BY TailBoundsAssumption
<1> QED
  BY <1>1, <1>2, <1>3 DEF LogLine

LEMMA AppendLine ==
    ASSUME Log, NEW e \in LogLine, file' = Append(file, e)
    PROVE  /\ file' \in Seq(LogLine) /\ Len(file') = Len(file) + 1
           /\ DOMAIN file' = 1..(Len(file) + 1)
           /\ \A i \in DOMAIN file : i \in DOMAIN file' /\ file'[i] = file[i]
           /\ file'[Len(file) + 1] = e /\ Len(file) + 1 \in DOMAIN file'
           /\ \A i \in DOMAIN file' : i \in DOMAIN file \/ i = Len(file) + 1
<1>1. Len(file) \in Nat /\ DOMAIN file = 1..Len(file)
  BY FileShape
<1>2. file \in Seq(LogLine)
  BY DEF Log, LogLine
<1>3. /\ file' \in Seq(LogLine) /\ Len(file') = Len(file) + 1
      /\ \A i \in 1..Len(file) : file'[i] = file[i]
      /\ file'[Len(file) + 1] = e
  BY <1>2, AppendProperties
<1>4. DOMAIN file' = 1..(Len(file) + 1)
  BY <1>3, LenProperties
<1> QED
  BY <1>1, <1>3, <1>4

\* What the promise publishes.
LEMMA PublishedLines ==
    ASSUME Log
    PROVE  /\ {line.seq : line \in {x \in ToSet(file) : x.ok}} = Published
           /\ \A m \in Published : m \in Nat \ {0} /\ m <= Len(file)
<1>1. {line.seq : line \in {x \in ToSet(file) : x.ok}} = Published
  BY DEF Published, ToSet
<1>2. ASSUME NEW m \in Published PROVE m \in Nat \ {0} /\ m <= Len(file)
  <2>1. PICK i \in DOMAIN file : m = file[i].seq
    BY DEF Published
  <2> QED
    BY <2>1, FileShape DEF Log
<1> QED
  BY <1>1, <1>2

\* The runner's step, to the log: nothing, or one line whose number is as high
\* as any.
LEMMA FileStep ==
    ASSUME Log, CILog, RunnerStep
    PROVE  \/ file' = file
           \/ \E e \in LogLine :
                /\ file' = Append(file, e) /\ Len(file) < MaxLines
                /\ e.seq <= Len(file) + 1
                /\ \A i \in DOMAIN file : file[i].seq <= e.seq
                /\ kind = "ci" => e.seq = Len(file) + 1 /\ status = "running" /\ writer.open
<1>0. /\ Len(file) \in Nat /\ \A i \in DOMAIN file : file[i].seq \in Nat /\ file[i].seq <= Len(file)
      /\ writer.seq \in Nat /\ torn \in BOOLEAN
  BY FileShape DEF Log
<1>1. CASE AppendEvent
  <2> DEFINE e == Line(writer.seq + 1)
  <2>1. file' = Append(file, e) /\ writer.open /\ Len(file) < MaxLines
    BY <1>1 DEF AppendEvent
  <2>2. e \in LogLine /\ e.seq = writer.seq + 1
    BY <1>0 DEF Line, LogLine
  <2> HIDE DEF e
  <2> QED
    BY <1>0, <2>1, <2>2 DEF Log, CILog
<1>2. CASE ReapAppend
  <2> DEFINE e == Line(CountEvents(file) + 1)
  <2>1. file' = Append(file, e) /\ reaper = "listed" /\ Len(file) < MaxLines
    BY <1>2 DEF ReapAppend
  <2>2. e \in LogLine /\ e.seq = Len(file) + 1
    BY <1>0 DEF Line, LogLine, CountEvents
  <2> HIDE DEF e
  <2>3. kind # "ci"
    BY <2>1 DEF CILog
  <2>4. \A i \in DOMAIN file : file[i].seq <= Len(file) + 1
    BY <1>0
  <2> QED
    BY <1>0, <2>1, <2>2, <2>3, <2>4
<1>3. CASE file' = file
  BY <1>3
<1> QED
  BY <1>1, <1>2, <1>3 DEF RunnerStep, Claim, Open, AppendFails, CloseLog, Finish, Park, Cancel, ReapList, ReapFinish

\* The parts of the log's invariant that are about the lines alone.
Lines ==
    /\ file \in Seq(LogLine) /\ Len(file) <= MaxLines
    /\ \A i \in DOMAIN file : file[i].seq <= Len(file)
    /\ \A i, j \in DOMAIN file : i < j => file[i].seq <= file[j].seq
    /\ kind = "ci" => \A i \in DOMAIN file : file[i].seq = i

LEMMA LinesInv ==
    ASSUME Log, CILog, RunnerStep
    PROVE  Lines'
<1>0. kind' = kind
  BY DEF RunnerStep, Claim, Open, AppendEvent, AppendFails, CloseLog, Finish, Park, Cancel, ReapList,
         ReapAppend, ReapFinish
<1>1. CASE file' = file
  BY <1>0, <1>1 DEF Lines, Log, CILog, LogLine
<1>2. ASSUME NEW e \in LogLine, file' = Append(file, e), Len(file) < MaxLines, e.seq <= Len(file) + 1,
             \A i \in DOMAIN file : file[i].seq <= e.seq,
             kind = "ci" => e.seq = Len(file) + 1
      PROVE  Lines'
  <2>1. /\ file' \in Seq(LogLine) /\ Len(file') = Len(file) + 1
        /\ \A i \in DOMAIN file : i \in DOMAIN file' /\ file'[i] = file[i]
        /\ file'[Len(file) + 1] = e
        /\ \A i \in DOMAIN file' : i \in DOMAIN file \/ i = Len(file) + 1
    BY <1>2, AppendLine
  <2>2. /\ Len(file) \in Nat /\ MaxLines \in Nat /\ DOMAIN file = 1..Len(file)
        /\ \A i \in DOMAIN file : file[i].seq \in Nat
        /\ e.seq \in Nat
    BY FileShape DEF LogLine
  <2>3. Len(file') <= MaxLines
    BY <1>2, <2>1, <2>2
  <2>4. \A i \in DOMAIN file' : file'[i].seq <= Len(file')
    BY <1>2, <2>1, <2>2 DEF Log
  <2>5. ASSUME NEW i \in DOMAIN file', NEW j \in DOMAIN file', i < j
        PROVE  file'[i].seq <= file'[j].seq
    <3>1. i \in DOMAIN file
      BY <2>1, <2>2, <2>5
    <3>2. CASE j \in DOMAIN file
      BY <2>1, <2>5, <3>1, <3>2 DEF Log
    <3>3. CASE j = Len(file) + 1
      BY <1>2, <2>1, <3>1, <3>3
    <3> QED
      BY <2>1, <3>2, <3>3
  <2>6. kind = "ci" => \A i \in DOMAIN file' : file'[i].seq = i
    BY <1>2, <2>1 DEF CILog
  <2> QED
    BY <1>0, <2>1, <2>3, <2>4, <2>5, <2>6 DEF Lines
<1> QED
  BY <1>1, <1>2, FileStep

\* The parts that are about the row and the writers.
Writers ==
    /\ status \in {"queued", "running", "awaiting_input", "finishing", "ended"}
    /\ torn \in BOOLEAN
    /\ writer \in [open : BOOLEAN, seq : Nat]
    /\ writer.open => /\ writer.seq <= Len(file)
                      /\ \A i \in DOMAIN file : file[i].seq <= writer.seq + 1
    /\ writer.open /\ reaper = "listed" => writer.seq = Len(file)
    /\ status = "awaiting_input" => ~writer.open
    /\ kind = "ci" => /\ status \in {"queued", "running", "ended"}
                      /\ reaper = "idle"
                      /\ writer.open => status = "running" /\ writer.seq = Len(file)

LEMMA LogParts ==
    /\ Log /\ CILog <=> Lines /\ Writers
    /\ (Log /\ CILog)' <=> Lines' /\ Writers'
  BY DEF Log, CILog, Lines, Writers, LogLine

LEMMA WritersInv ==
    ASSUME Log, CILog, RunnerStep
    PROVE  Writers'
<1>0. Writers /\ Lines
  BY LogParts
<1>1. /\ Len(file) \in Nat /\ writer.seq \in Nat /\ writer.open \in BOOLEAN
      /\ \A i \in DOMAIN file : file[i].seq \in Nat /\ file[i].seq <= Len(file)
      /\ torn \in BOOLEAN
  BY FileShape DEF Log
<1>2. CASE Claim
  <2>1. ~writer.open /\ status' = "running" /\ UNCHANGED <<kind, file, torn, writer, reaper>>
        /\ (kind = "ci" => status = "queued")
    BY <1>0, <1>2 DEF Claim, Writers
  <2> QED
    BY <1>0, <2>1 DEF Writers
<1>3. CASE Open
  <2>1. status = "running" /\ UNCHANGED <<kind, status, file, torn, reaper>>
    BY <1>3 DEF Open
  <2>2. writer' = [open |-> TRUE, seq |-> Len(file)]
    BY <1>3 DEF Open, Opened, CountEvents
  <2>3. TRUE \in BOOLEAN
    OBVIOUS
  <2>4. writer' \in [open : BOOLEAN, seq : Nat] /\ writer'.seq = Len(file)
    BY <1>1, <2>2, <2>3
  <2>5. \A i \in DOMAIN file : file[i].seq <= Len(file) + 1
    BY <1>1
  <2> QED
    BY <1>0, <1>1, <2>1, <2>4, <2>5 DEF Writers
<1>4. CASE AppendEvent
  <2> DEFINE n == writer.seq + 1
             e == Line(n)
  <2>1. /\ writer.open /\ file' = Append(file, e) /\ torn' = FALSE
        /\ writer' = [writer EXCEPT !.seq = n] /\ UNCHANGED <<kind, status, reaper>>
    BY <1>4 DEF AppendEvent
  <2>2. n \in Nat \ {0} /\ e = [seq |-> n, ok |-> ~torn]
    BY <1>1 DEF Line
  <2> HIDE DEF n
  <2>3. e \in LogLine /\ e.seq = n
    BY <1>1, <2>2 DEF LogLine
  <2> HIDE DEF e
  <2>4. /\ Len(file') = Len(file) + 1 /\ file'[Len(file) + 1] = e
        /\ \A i \in DOMAIN file : file'[i] = file[i]
        /\ \A i \in DOMAIN file' : i \in DOMAIN file \/ i = Len(file) + 1
    BY <2>1, <2>3, AppendLine
  <2>5. writer' \in [open : BOOLEAN, seq : Nat] /\ writer'.seq = n /\ writer'.open = writer.open
    BY <1>0, <2>1, <2>2 DEF Writers
  <2>6. n = writer.seq + 1 /\ writer.seq <= Len(file) /\ \A i \in DOMAIN file : file[i].seq <= n
    BY <1>0, <2>1 DEF Writers, n
  <2>7. n <= Len(file') /\ \A i \in DOMAIN file' : file'[i].seq <= n + 1
    <3>1. n <= Len(file')
      BY <1>1, <2>4, <2>6
    <3>2. \A i \in DOMAIN file : file[i].seq <= n + 1
      BY <1>1, <2>2, <2>6
    <3>3. n <= n + 1
      BY <2>2
    <3> QED
      BY <2>3, <2>4, <3>1, <3>2, <3>3
  <2>8. writer.seq = Len(file) => n = Len(file')
    BY <2>4, <2>6
  <2>9. torn' \in BOOLEAN
    BY <2>1, Zenon
  <2> QED
    BY <1>0, <2>1, <2>5, <2>7, <2>8, <2>9 DEF Writers
<1>5. CASE AppendFails
  <2>1. torn' \in BOOLEAN
    BY <1>5, Zenon DEF AppendFails
  <2> QED
    BY <1>0, <1>5, <2>1 DEF AppendFails, Writers
<1>6. CASE CloseLog
  <2>1. writer' = [open |-> FALSE, seq |-> 0] /\ UNCHANGED <<kind, status, file, torn, reaper>>
    BY <1>6 DEF CloseLog, Closed
  <2>2. FALSE \in BOOLEAN
    OBVIOUS
  <2>3. writer' \in [open : BOOLEAN, seq : Nat] /\ ~writer'.open
    BY <2>1, <2>2
  <2> QED
    BY <1>0, <2>1, <2>3 DEF Writers
<1>7. CASE Finish
  <2>1. ~writer.open /\ status' = "ended" /\ UNCHANGED <<kind, file, torn, writer, reaper>>
    BY <1>7 DEF Finish
  <2> QED
    BY <1>0, <2>1 DEF Writers
<1>8. CASE Park
  <2>1. /\ kind = "agent" /\ ~writer.open /\ status' \in {"awaiting_input", "finishing"}
        /\ UNCHANGED <<kind, file, torn, writer, reaper>>
    BY <1>8 DEF Park
  <2> QED
    BY <1>0, <2>1 DEF Writers
<1>9. CASE Cancel
  <2>1. /\ kind = "agent" \/ status = "queued"
        /\ status' = "ended" /\ UNCHANGED <<kind, file, torn, writer, reaper>>
    BY <1>9 DEF Cancel
  <2> QED
    BY <1>0, <2>1 DEF Writers
<1>10. CASE ReapList
  <2>1. /\ kind = "agent" /\ status = "awaiting_input"
        /\ UNCHANGED <<kind, status, file, torn, writer>>
    BY <1>10 DEF ReapList
  <2> QED
    BY <1>0, <2>1 DEF Writers
<1>11. CASE ReapAppend
  <2> DEFINE n == Len(file) + 1
             e == Line(n)
  <2>1. /\ reaper = "listed" /\ reaper' = "logged" /\ file' = Append(file, e) /\ torn' = FALSE
        /\ UNCHANGED <<kind, status, writer>>
    BY <1>11 DEF ReapAppend, CountEvents
  <2>2. n \in Nat \ {0} /\ e = [seq |-> n, ok |-> ~torn]
    BY <1>1 DEF Line
  <2> HIDE DEF n
  <2>3. e \in LogLine /\ e.seq = n
    BY <1>1, <2>2 DEF LogLine
  <2> HIDE DEF e
  <2>4. /\ Len(file') = Len(file) + 1 /\ file'[Len(file) + 1] = e
        /\ \A i \in DOMAIN file : file'[i] = file[i]
        /\ \A i \in DOMAIN file' : i \in DOMAIN file \/ i = Len(file) + 1
    BY <2>1, <2>3, AppendLine
  <2>5. kind # "ci"
    BY <1>0, <2>1 DEF Writers
  <2>6. writer.open => writer.seq <= Len(file') /\ \A i \in DOMAIN file' : file'[i].seq <= writer.seq + 1
    <3> SUFFICES ASSUME writer.open
                 PROVE  writer.seq <= Len(file') /\ \A i \in DOMAIN file' : file'[i].seq <= writer.seq + 1
      OBVIOUS
    <3>1. writer.seq = Len(file) /\ n = writer.seq + 1
      BY <1>0, <2>1 DEF Writers, n
    <3>2. \A i \in DOMAIN file : file[i].seq <= writer.seq + 1
      BY <1>0 DEF Writers
    <3>3. n <= writer.seq + 1 /\ writer.seq <= Len(file')
      BY <1>1, <2>4, <3>1
    <3> QED
      BY <2>3, <2>4, <3>2, <3>3
  <2>7. torn' \in BOOLEAN
    BY <2>1, Zenon
  <2> QED
    BY <1>0, <2>1, <2>5, <2>6, <2>7 DEF Writers
<1>12. CASE ReapFinish
  <2>1. reaper = "logged" /\ status' = "ended" /\ reaper' = "idle" /\ UNCHANGED <<kind, file, torn, writer>>
    BY <1>12 DEF ReapFinish
  <2> QED
    BY <1>0, <2>1 DEF Writers
<1> QED
  BY <1>2, <1>3, <1>4, <1>5, <1>6, <1>7, <1>8, <1>9, <1>10, <1>11, <1>12 DEF RunnerStep

\* The viewer's steps leave the row and the log alone.
LEMMA LogInv ==
    ASSUME IInv, Next
    PROVE  (Log /\ CILog)'
<1>1. CASE RunnerStep
  BY <1>1, LinesInv, WritersInv, LogParts DEF IInv
<1>2. CASE UNCHANGED runnerVars
  BY <1>2 DEF IInv, Log, CILog, runnerVars
<1>3. RunnerStep \/ UNCHANGED runnerVars
  BY DEF Next, Connect, ReadEvents, CheckStatus, Drain, Receive, StreamEnds, Drop, PollRun
<1> QED
  BY <1>1, <1>2, <1>3

-----------------------------------------------------------------------------
(* A read                                                                  *)

\* What a read that meets no corrupt line sends: all that is readable above the
\* last number sent, although lines are only compared with those before them.
LEMMA SentProperties ==
    ASSUME IInv, Active, ~Corrupt(stream.offset)
    PROVE  Sent(stream.offset) = {m \in Published : m > stream.last}
<1> DEFINE from == stream.offset
           out == Sent(from)
<1>0. /\ Log /\ stream.last \in Nat /\ from \in Nat
      /\ \A i \in DOMAIN file : i <= from => file[i].seq <= stream.last
  BY DEF IInv, View
<1>1. /\ \A i \in DOMAIN file : i \in Nat /\ file[i].seq \in Nat
      /\ \A i \in DOMAIN file : i > from => file[i].ok
      /\ \A i, j \in DOMAIN file : i < j => file[i].seq <= file[j].seq
  BY <1>0, FileShape DEF Corrupt, Unread, Log
<1>2. ASSUME NEW m \in out PROVE m \in Published /\ m > stream.last
  <2>1. PICK i \in Unread(from) : m = file[i].seq /\ file[i].seq > stream.last
    BY DEF Sent
  <2> QED
    BY <1>1, <2>1 DEF Published, Unread
<1>3. ASSUME NEW m \in Published, m > stream.last PROVE m \in out
  <2> DEFINE Places == {i \in DOMAIN file : file[i].seq = m}
  <2>1. Places \in SUBSET Nat /\ Places # {} /\ m \in Nat
    BY <1>1 DEF Published
  <2>2. PICK i \in Places : \A k \in Places : i <= k
    BY <2>1, LeastElement
  <2>3. i \in DOMAIN file /\ file[i].seq = m /\ i \in Nat
    BY <2>1, <2>2
  <2>4. i > from
    <3> SUFFICES ASSUME i <= from PROVE FALSE
      BY <1>0, <2>3
    <3>1. file[i].seq <= stream.last
      BY <1>0, <2>3
    <3> QED
      BY <1>0, <1>3, <2>1, <2>3, <3>1
  <2>5. ASSUME NEW j \in Unread(from), j < i PROVE file[j].seq < m
    <3>1. j \in DOMAIN file /\ j \in Nat /\ file[j].seq \in Nat /\ file[j].seq <= m
      BY <1>1, <2>3, <2>5 DEF Unread
    <3>2. j \notin Places
      BY <2>2, <2>3, <2>5, <3>1
    <3>3. file[j].seq # m
      BY <3>1, <3>2
    <3> QED
      BY <2>1, <3>1, <3>3
  <2>6. i \in Unread(from)
    BY <2>3, <2>4 DEF Unread
  <2>7. file[i].seq > stream.last /\ \A j \in Unread(from) : j < i => file[j].seq < file[i].seq
    BY <1>3, <2>3, <2>5
  <2> QED
    BY <2>3, <2>6, <2>7 DEF Sent
<1> QED
  BY <1>2, <1>3

\* The handler's last number after it.
LEMMA LastProperties ==
    ASSUME IInv, Active, ~Corrupt(stream.offset)
    PROVE  LET out  == Sent(stream.offset)
               last == Max({stream.last} \cup out)
           IN  /\ last \in {stream.last} \cup out /\ last \in Nat /\ stream.last <= last
               /\ \A m \in out : m <= last
<1> DEFINE out == Sent(stream.offset)
           S == {stream.last} \cup out
<1>1. out \subseteq Published /\ stream.last \in Nat /\ Log
  BY SentProperties DEF IInv, View
<1>2. \A m \in Published : m \in Nat /\ m <= Len(file)
  BY <1>1, PublishedLines
<1>3. stream.last <= Len(file) /\ Len(file) \in Nat
  <2>1. Len(file) \in Nat
    BY <1>1, FileShape
  <2>2. stream.last \in Shown \cup wire \cup {0} /\ Shown \subseteq Published /\ wire \subseteq Published
    BY DEF IInv, View
  <2> QED
    BY <1>2, <2>1, <2>2
<1> HIDE DEF out
<1>4. S \in SUBSET Nat /\ S # {} /\ \A x \in S : x <= Len(file)
  BY <1>1, <1>2, <1>3
<1>5. Max(S) \in S /\ \A y \in S : y <= Max(S)
  BY <1>3, <1>4, MaxProperties
<1> QED
  BY <1>4, <1>5 DEF out

-----------------------------------------------------------------------------
(* The viewer and the runner                                               *)

ViewerInv == View /\ NothingSkipped /\ Complete

LEMMA PositionShape ==
    ASSUME IInv
    PROVE  /\ viewer.last \in Nat /\ stream.last \in Nat /\ stream.offset \in Nat
           /\ \A m \in Published : m \in Nat \ {0} /\ m <= Len(file)
           /\ Shown \subseteq Published /\ wire \subseteq Published
           /\ Len(file) \in Nat /\ DOMAIN file = 1..Len(file)
  BY PublishedLines, FileShape DEF IInv, View

LEMMA RunnerViewer ==
    ASSUME IInv, RunnerStep
    PROVE  ViewerInv'
<1>0. /\ UNCHANGED <<stream, wire, close, viewer, shown>> /\ kind' = kind
      /\ Shown' = Shown /\ Active' = Active
  BY DEF RunnerStep, streamVars, pageVars, Shown, Active, Claim, Open, AppendEvent, AppendFails, CloseLog,
         Finish, Park, Cancel, ReapList, ReapAppend, ReapFinish
<1>1. kind = "ci" /\ status = "ended" => status' = "ended"
  BY DEF RunnerStep, Claim, Open, AppendEvent, AppendFails, CloseLog,
         Finish, Park, Cancel, ReapList, ReapAppend, ReapFinish
<1>2. CASE file' = file
  <2>1. Published' = Published /\ Corrupt(0)' = Corrupt(0)
    BY <1>2 DEF Published, Corrupt, Unread
  <2>2. View' /\ NothingSkipped'
    BY <1>0, <1>2, <2>1 DEF IInv, View, NothingSkipped
  <2>3. Complete'
    BY <1>0, <1>1, <1>2, <2>1 DEF IInv, Complete
  <2> QED
    BY <2>2, <2>3 DEF ViewerInv
<1>3. ASSUME NEW e \in LogLine, file' = Append(file, e), \A i \in DOMAIN file : file[i].seq <= e.seq,
             kind = "ci" => status = "running"
      PROVE  ViewerInv'
  <2>1. /\ Len(file') = Len(file) + 1 /\ file'[Len(file) + 1] = e
        /\ \A i \in DOMAIN file : i \in DOMAIN file' /\ file'[i] = file[i]
        /\ \A i \in DOMAIN file' : i \in DOMAIN file \/ i = Len(file) + 1
        /\ e.seq \in Nat \ {0}
    BY <1>3, AppendLine DEF IInv, LogLine
  <2>2. Published \subseteq Published' /\ Published' \subseteq Published \cup {e.seq}
    BY <2>1 DEF Published
  <2>3. \A m \in Published : m <= e.seq
    BY <1>3 DEF Published
  <2>4. Corrupt(0) => Corrupt(0)'
    BY <2>1 DEF Corrupt, Unread
  <2>5. View'
    <3>1. Active => /\ stream.offset <= Len(file')
                    /\ \A i \in DOMAIN file' : i <= stream.offset => file'[i].seq <= stream.last
      <4> SUFFICES ASSUME Active
                   PROVE  /\ stream.offset <= Len(file')
                          /\ \A i \in DOMAIN file' : i <= stream.offset => file'[i].seq <= stream.last
        OBVIOUS
      <4>1. stream.offset <= Len(file) /\ stream.offset \in Nat /\ Len(file) \in Nat
        BY PositionShape DEF IInv, View
      <4>2. ~(Len(file) + 1 <= stream.offset) /\ stream.offset <= Len(file')
        BY <2>1, <4>1
      <4>3. \A i \in DOMAIN file : i <= stream.offset => file[i].seq <= stream.last
        BY DEF IInv, View
      <4> QED
        BY <2>1, <4>2, <4>3
    <3> QED
      BY <1>0, <2>2, <3>1 DEF IInv, View
  <2>6. ASSUME e.seq \notin Published, e.seq \in Published' PROVE
          /\ e.seq <= viewer.last => e.seq \in Shown
          /\ \A w \in wire : e.seq <= w => e.seq \in Shown \cup wire
          /\ Active /\ e.seq <= stream.last => e.seq \in Shown \cup wire
    <3>1. viewer.last \in Nat /\ stream.last \in Nat /\ \A m \in Published : m \in Nat
      BY PositionShape
    <3>2. \A m \in Published : m < e.seq
      BY <2>1, <2>3, <2>6, <3>1
    <3>3. viewer.last \in Published \cup {0} /\ wire \subseteq Published
          /\ (Active => stream.last \in Published \cup {0})
      BY DEF IInv, View
    <3>4. viewer.last < e.seq /\ (\A w \in wire : w < e.seq) /\ (Active => stream.last < e.seq)
      BY <2>1, <3>2, <3>3
    <3>5. \A w \in wire : w \in Nat
      BY <3>1, <3>3
    <3> QED
      BY <2>1, <3>1, <3>4, <3>5
  <2>7. NothingSkipped'
    <3> SUFFICES ASSUME NEW m \in Published'
                 PROVE  /\ m <= viewer.last => m \in Shown
                        /\ \A w \in wire : m <= w => m \in Shown \cup wire
                        /\ Active /\ m <= stream.last => m \in Shown \cup wire
      BY <1>0 DEF NothingSkipped
    <3>1. CASE m \in Published
      BY <3>1 DEF IInv, NothingSkipped
    <3>2. CASE m \notin Published
      BY <2>2, <2>6, <3>2
    <3> QED
      BY <3>1, <3>2
  <2>8. Complete'
    BY <1>0, <1>3, <2>4 DEF IInv, Complete
  <2> QED
    BY <2>5, <2>7, <2>8 DEF ViewerInv
<1> QED
  BY <1>2, <1>3, FileStep DEF IInv

-----------------------------------------------------------------------------
(* The handler's steps                                                     *)

LEMMA ConnectViewer ==
    ASSUME IInv, Connect
    PROVE  ViewerInv'
<1>0. /\ viewer.pc = "dial" /\ UNCHANGED <<kind, status, file, shown>>
      /\ wire = {} /\ close = "open" /\ ~Active
      /\ Shown' = Shown /\ Published' = Published /\ Corrupt(0)' = Corrupt(0)
  BY DEF Connect, runnerVars, Shown, Published, Corrupt, Unread, IInv, View
<1>1. CASE job \/ status # "ended"
  <2>1. /\ stream' = [pc |-> "read", offset |-> 0, last |-> viewer.last]
        /\ wire' = {} /\ close' = "open" /\ viewer' = [viewer EXCEPT !.pc = "open"]
    BY <1>1 DEF Connect, LastEventID
  <2>2. /\ stream' \in [pc : {"none", "read", "check", "drain"}, offset : Nat, last : Nat]
        /\ viewer' \in [pc : {"dial", "open", "error", "done"}, last : Nat]
        /\ stream'.pc = "read" /\ stream'.offset = 0 /\ stream'.last = viewer.last
        /\ viewer'.pc = "open" /\ viewer'.last = viewer.last /\ Active'
    BY <2>1 DEF IInv, View, Active
  <2>3. /\ 0 <= Len(file) /\ viewer.last <= viewer.last
        /\ \A i \in DOMAIN file : ~(i <= 0)
    BY PositionShape
  <2>4. View'
    BY <1>0, <2>1, <2>2, <2>3 DEF IInv, View
  <2>5. NothingSkipped'
    BY <1>0, <2>1, <2>2 DEF IInv, NothingSkipped
  <2>6. Complete'
    BY <1>0, <2>1, <2>2 DEF IInv, Complete
  <2> QED
    BY <2>4, <2>5, <2>6 DEF ViewerInv
<1>2. CASE ~(job \/ status # "ended")
  <2>1. viewer' = [viewer EXCEPT !.pc = "error"] /\ UNCHANGED <<stream, wire, close>>
    BY <1>2 DEF Connect, streamVars
  <2>2. /\ viewer' \in [pc : {"dial", "open", "error", "done"}, last : Nat]
        /\ viewer'.pc = "error" /\ viewer'.last = viewer.last /\ ~Active'
    BY <1>0, <2>1 DEF IInv, View, Active
  <2>3. View' /\ NothingSkipped'
    BY <1>0, <2>1, <2>2 DEF IInv, View, NothingSkipped
  <2>4. Complete'
    BY <1>0, <2>1, <2>2 DEF IInv, Complete
  <2> QED
    BY <2>3, <2>4 DEF ViewerInv
<1> QED
  BY <1>1, <1>2

\* The stream goes without having sent more: at the sentinel, at a corrupt
\* line, or with the connection.
LEMMA StreamGone ==
    ASSUME IInv, stream' = NoStream, UNCHANGED <<kind, status, file, shown>>, viewer'.last = viewer.last,
           \/ wire' = wire /\ viewer' = viewer /\ viewer.pc = "open" /\ close' \in {"resume", "end"}
           \/ wire' = {} /\ viewer' = [viewer EXCEPT !.pc = "dial"] /\ close' = "open",
           close' = "end" => Corrupt(0)
    PROVE  ViewerInv'
<1>1. Shown' = Shown /\ Published' = Published /\ Corrupt(0)' = Corrupt(0)
  BY DEF Shown, Published, Corrupt, Unread
<1>2. /\ stream' \in [pc : {"none", "read", "check", "drain"}, offset : Nat, last : Nat]
      /\ ~Active' /\ stream'.pc # "drain"
  BY DEF NoStream, Active
<1>3. /\ viewer' \in [pc : {"dial", "open", "error", "done"}, last : Nat]
      /\ viewer'.pc \in {"open", "dial"}
  BY DEF IInv, View
<1>4. View'
  BY <1>1, <1>2, <1>3 DEF IInv, View
<1>5. NothingSkipped'
  BY <1>1, <1>2 DEF IInv, NothingSkipped
<1>6. Complete'
  BY <1>1, <1>2, <1>3 DEF IInv, Complete
<1> QED
  BY <1>4, <1>5, <1>6 DEF ViewerInv

LEMMA CorruptIsCorrupt ==
    ASSUME IInv, Corrupt(stream.offset)
    PROVE  Corrupt(0)
  BY PositionShape DEF Corrupt, Unread

\* What is on the wire after a read, whether it goes on or was the last.
LEMMA ReadWire ==
    ASSUME IInv, Active, ~Corrupt(stream.offset), NEW out, out = Sent(stream.offset)
    PROVE  /\ wire \cup out \subseteq Published
           /\ \A m \in wire \cup out : viewer.last < m
           /\ \A m \in Published : m \in Shown \cup (wire \cup out)
<1>1. out = {m \in Published : m > stream.last}
  BY SentProperties
<1>2. /\ viewer.last \in Nat /\ stream.last \in Nat /\ viewer.last <= stream.last
      /\ \A m \in Published : m \in Nat
      /\ wire \subseteq Published /\ \A m \in wire : viewer.last < m
  BY PositionShape DEF IInv, View
<1>3. \A m \in out : viewer.last < m
  BY <1>1, <1>2
<1>4. ASSUME NEW m \in Published PROVE m \in Shown \cup (wire \cup out)
  <2>1. CASE m <= stream.last
    BY <2>1 DEF IInv, NothingSkipped
  <2>2. CASE ~(m <= stream.last)
    BY <1>1, <1>2, <2>2
  <2> QED
    BY <2>1, <2>2
<1> QED
  BY <1>1, <1>2, <1>3, <1>4

LEMMA ReadViewer ==
    ASSUME IInv, ReadEvents
    PROVE  ViewerInv'
<1>0. /\ stream.pc = "read" /\ Active /\ viewer.pc = "open" /\ close = "open"
      /\ UNCHANGED <<kind, status, file, shown, viewer>>
      /\ Shown' = Shown /\ Published' = Published /\ Corrupt(0)' = Corrupt(0)
  BY DEF ReadEvents, runnerVars, pageVars, Active, IInv, View, Shown, Published, Corrupt, Unread
<1>1. CASE Corrupt(stream.offset)
  <2>1. close' = "end" /\ stream' = NoStream /\ wire' = wire
    BY <1>1 DEF ReadEvents
  <2> QED
    BY <1>0, <1>1, <2>1, CorruptIsCorrupt, StreamGone
<1>2. CASE ~Corrupt(stream.offset)
  <2> DEFINE out == Sent(stream.offset)
             last == Max({stream.last} \cup out)
  <2>1. /\ wire' = wire \cup out /\ close' = close
        /\ stream' = [pc |-> "check", offset |-> Len(file), last |-> last]
    BY <1>2 DEF ReadEvents
  <2>2. /\ last \in {stream.last} \cup out /\ last \in Nat /\ stream.last <= last
        /\ \A m \in out : m <= last
    BY <1>0, <1>2, LastProperties
  <2>3. out = {m \in Published : m > stream.last}
    BY <1>0, <1>2, SentProperties
  <2> HIDE DEF last
  <2>4. /\ wire \cup out \subseteq Published
        /\ \A m \in wire \cup out : viewer.last < m
        /\ \A m \in Published : m \in Shown \cup (wire \cup out)
    BY <1>0, <1>2, ReadWire
  <2> HIDE DEF out
  <2>5. /\ stream' \in [pc : {"none", "read", "check", "drain"}, offset : Nat, last : Nat]
        /\ stream'.pc = "check" /\ stream'.offset = Len(file) /\ stream'.last = last
    BY <2>1, <2>2, PositionShape
  <2>6. /\ \A m \in Published : m \in Nat /\ stream.last \in Nat /\ viewer.last \in Nat
        /\ viewer.last <= stream.last /\ \A m \in wire : m <= stream.last
        /\ stream.last \in Shown \cup wire \cup {0}
        /\ wire \subseteq Published
    BY <1>0, PositionShape DEF IInv, View
  <2>7. viewer.last <= last /\ (\A m \in wire \cup out : m <= last) /\ last \in Shown \cup (wire \cup out) \cup {0}
    <3>1. stream.last \in Nat /\ viewer.last \in Nat
      BY PositionShape
    <3>2. viewer.last <= last
      BY <2>2, <2>6, <3>1
    <3>3. \A m \in wire : m <= last
      BY <2>2, <2>6, <3>1
    <3> QED
      BY <2>2, <2>6, <3>2, <3>3
  <2>8. \A i \in DOMAIN file : file[i].seq <= last
    <3> SUFFICES ASSUME NEW i \in DOMAIN file PROVE file[i].seq <= last
      OBVIOUS
    <3>1. i \in Nat /\ file[i].seq \in Nat /\ stream.last \in Nat /\ stream.offset \in Nat
      BY PositionShape, FileShape DEF IInv
    <3>2. CASE i <= stream.offset
      <4>1. file[i].seq <= stream.last
        BY <1>0, <3>2 DEF IInv, View
      <4> QED
        BY <2>2, <3>1, <4>1
    <3>3. CASE ~(i <= stream.offset)
      <4>1. file[i].ok /\ file[i].seq \in Published
        BY <1>2, <3>1, <3>3 DEF Corrupt, Unread, Published
      <4>2. CASE file[i].seq > stream.last
        BY <2>2, <2>3, <4>1, <4>2
      <4>3. CASE ~(file[i].seq > stream.last)
        BY <2>2, <3>1, <4>3
      <4> QED
        BY <4>2, <4>3
    <3> QED
      BY <3>2, <3>3
  <2>9. Len(file) <= Len(file)
    BY PositionShape
  <2>10. View'
    BY <1>0, <2>1, <2>4, <2>5, <2>7, <2>8, <2>9 DEF IInv, View
  <2>11. NothingSkipped'
    BY <1>0, <2>1, <2>4 DEF IInv, NothingSkipped
  <2>12. Complete'
    BY <1>0, <2>1, <2>5 DEF IInv, Complete
  <2> QED
    BY <2>10, <2>11, <2>12 DEF ViewerInv
<1> QED
  BY <1>1, <1>2

LEMMA CheckViewer ==
    ASSUME IInv, CheckStatus
    PROVE  ViewerInv'
<1>0. /\ stream.pc = "check" /\ Active /\ viewer.pc = "open" /\ close = "open"
      /\ UNCHANGED <<kind, status, file, shown, viewer, wire>>
      /\ Shown' = Shown /\ Published' = Published /\ Corrupt(0)' = Corrupt(0)
  BY DEF CheckStatus, runnerVars, pageVars, Active, IInv, View, Shown, Published, Corrupt, Unread
<1>1. CASE stream' = NoStream /\ close' = "resume"
  BY <1>0, <1>1, StreamGone
<1>2. ASSUME NEW pc \in {"drain", "read"}, stream' = [stream EXCEPT !.pc = pc], UNCHANGED close,
             pc = "drain" => Resting
      PROVE  ViewerInv'
  <2>1. /\ stream' \in [pc : {"none", "read", "check", "drain"}, offset : Nat, last : Nat]
        /\ stream'.pc = pc /\ stream'.offset = stream.offset /\ stream'.last = stream.last /\ Active'
    BY <1>2 DEF IInv, View, Active
  <2>2. View' /\ NothingSkipped'
    BY <1>0, <1>2, <2>1 DEF IInv, View, NothingSkipped
  <2>3. kind = "ci" /\ pc = "drain" => status = "ended"
    BY <1>2 DEF IInv, CILog, Resting
  <2>4. Complete'
    BY <1>0, <1>2, <2>1, <2>3 DEF IInv, Complete
  <2> QED
    BY <2>2, <2>4 DEF ViewerInv
<1> QED
  BY <1>1, <1>2 DEF CheckStatus

LEMMA DrainViewer ==
    ASSUME IInv, Drain
    PROVE  ViewerInv'
<1>0. /\ stream.pc = "drain" /\ Active /\ viewer.pc = "open"
      /\ close' = "end" /\ stream' = NoStream /\ ~Active'
      /\ UNCHANGED <<kind, status, file, shown, viewer>>
      /\ Shown' = Shown /\ Published' = Published /\ Corrupt(0)' = Corrupt(0)
  BY DEF Drain, runnerVars, pageVars, Active, NoStream, IInv, View, Shown, Published, Corrupt, Unread
<1>1. CASE Corrupt(stream.offset)
  <2>1. wire' = wire
    BY <1>1 DEF Drain
  <2> QED
    BY <1>0, <1>1, <2>1, CorruptIsCorrupt, StreamGone
<1>2. CASE ~Corrupt(stream.offset)
  <2> DEFINE out == Sent(stream.offset)
  <2>1. wire' = wire \cup out
    BY <1>2 DEF Drain
  <2>2. /\ wire \cup out \subseteq Published
        /\ \A m \in wire \cup out : viewer.last < m
        /\ \A m \in Published : m \in Shown \cup (wire \cup out)
    BY <1>0, <1>2, ReadWire
  <2> HIDE DEF out
  <2>3. stream' \in [pc : {"none", "read", "check", "drain"}, offset : Nat, last : Nat] /\ stream'.pc # "drain"
    BY <1>0 DEF NoStream
  <2>4. View'
    BY <1>0, <2>1, <2>2, <2>3 DEF IInv, View
  <2>5. NothingSkipped'
    BY <1>0, <2>1, <2>2 DEF IInv, NothingSkipped
  <2>6. ASSUME kind = "ci", ~Corrupt(0) PROVE status = "ended" /\ \A i \in DOMAIN file : i \in Shown \cup (wire \cup out)
    <3>1. status = "ended"
      BY <1>0, <2>6 DEF IInv, Complete
    <3>2. \A i \in DOMAIN file : file[i].ok /\ file[i].seq = i
      BY <2>6, PositionShape DEF Corrupt, Unread, IInv, CILog
    <3>3. \A i \in DOMAIN file : i \in Published
      BY <3>2 DEF Published
    <3> QED
      BY <2>2, <3>1, <3>3
  <2>7. Complete'
    BY <1>0, <2>1, <2>3, <2>6 DEF IInv, Complete
  <2> QED
    BY <2>4, <2>5, <2>7 DEF ViewerInv
<1> QED
  BY <1>1, <1>2

-----------------------------------------------------------------------------
(* The page's steps                                                        *)

\* The event read is the lowest that is not on the page.
LEMMA ReceiveProperties ==
    ASSUME IInv, Receive
    PROVE  LET n == Min(wire) IN
           /\ n \in wire /\ n \in Published /\ n \in Nat /\ viewer.last < n
           /\ \A m \in wire : n <= m
           /\ \A m \in Published : m < n => m \in Shown
           /\ shown' \in Seq(Nat) /\ Shown' = Shown \cup {n} /\ shown' = Append(shown, n)
           /\ viewer' = [viewer EXCEPT !.last = n] /\ wire' = wire \ {n}
<1> DEFINE n == Min(wire)
<1>1. wire \in SUBSET Nat /\ wire # {} /\ wire \subseteq Published /\ \A m \in Published : m \in Nat
  BY PositionShape DEF Receive
<1>2. n \in wire /\ \A m \in wire : n <= m
  BY <1>1, MinProperties
<1>3. shown' = Append(shown, n) /\ viewer' = [viewer EXCEPT !.last = Max({viewer.last, n})] /\ wire' = wire \ {n}
  BY DEF Receive
<1> HIDE DEF n
<1>4. viewer.last < n /\ viewer.last \in Nat /\ n \in Nat
  BY <1>1, <1>2, PositionShape DEF IInv, View
<1>5. Max({viewer.last, n}) = n
  <2>1. {viewer.last, n} \in SUBSET Nat /\ \A x \in {viewer.last, n} : x <= n
    BY <1>4
  <2>2. Max({viewer.last, n}) \in {viewer.last, n} /\ \A y \in {viewer.last, n} : y <= Max({viewer.last, n})
    BY <1>4, <2>1, MaxProperties
  <2> QED
    BY <1>4, <2>2
<1>6. shown' \in Seq(Nat) /\ Shown' = Shown \cup {n}
  BY <1>3, <1>4, ToSetAppend DEF IInv, View, Shown
<1>7. ASSUME NEW m \in Published, m < n PROVE m \in Shown
  <2>1. m \in Shown \cup wire
    BY <1>1, <1>2, <1>4, <1>7 DEF IInv, NothingSkipped
  <2>2. m \notin wire
    BY <1>1, <1>2, <1>4, <1>7
  <2> QED
    BY <2>1, <2>2
<1> QED
  BY <1>1, <1>2, <1>3, <1>4, <1>5, <1>6, <1>7 DEF n

LEMMA ReceiveViewer ==
    ASSUME IInv, Receive
    PROVE  ViewerInv'
<1> DEFINE n == Min(wire)
<1>1. /\ n \in wire /\ n \in Published /\ n \in Nat /\ viewer.last < n
      /\ \A m \in wire : n <= m
      /\ \A m \in Published : m < n => m \in Shown
      /\ shown' \in Seq(Nat) /\ Shown' = Shown \cup {n} /\ shown' = Append(shown, n)
      /\ viewer' = [viewer EXCEPT !.last = n] /\ wire' = wire \ {n}
  BY ReceiveProperties
<1> HIDE DEF n
<1>2. /\ UNCHANGED <<kind, status, file, stream, close>> /\ viewer.pc = "open"
      /\ Published' = Published /\ Corrupt(0)' = Corrupt(0) /\ Active' = Active
  BY DEF Receive, runnerVars, Published, Corrupt, Unread, Active
<1>3. /\ viewer' \in [pc : {"dial", "open", "error", "done"}, last : Nat]
      /\ viewer'.pc = "open" /\ viewer'.last = n
  BY <1>1, <1>2 DEF IInv, View
<1>4. /\ viewer.last \in Nat /\ stream.last \in Nat /\ \A m \in Published : m \in Nat
      /\ wire \subseteq Published /\ Shown \subseteq Published /\ \A m \in Shown : m <= viewer.last
  BY PositionShape DEF IInv, View
<1>5. View'
  <2>1. \A m \in Shown' : m <= n
    BY <1>1, <1>4
  <2>2. \A m \in wire' : n < m
    BY <1>1, <1>4
  <2>3. Active => n <= stream.last
    BY <1>1 DEF IInv, View
  <2>4. Shown' \subseteq Published /\ wire' \subseteq Published
        /\ (stream.last \in Shown \cup wire \cup {0} => stream.last \in Shown' \cup wire' \cup {0})
    BY <1>1, <1>4
  <2> QED
    BY <1>1, <1>2, <1>3, <2>1, <2>2, <2>3, <2>4 DEF IInv, View
<1>6. NothingSkipped'
  <2> SUFFICES ASSUME NEW m \in Published
               PROVE  /\ m <= n => m \in Shown'
                      /\ \A w \in wire' : m <= w => m \in Shown' \cup wire'
                      /\ Active /\ m <= stream.last => m \in Shown' \cup wire'
    BY <1>2, <1>3 DEF NothingSkipped
  <2>1. m <= n => m \in Shown'
    BY <1>1, <1>4
  <2>2. Shown \cup wire \subseteq Shown' \cup wire' /\ wire' \subseteq wire
    BY <1>1
  <2> QED
    BY <2>1, <2>2 DEF IInv, NothingSkipped
<1>7. Complete'
  <2> SUFFICES ASSUME kind = "ci", ~Corrupt(0)
               PROVE  /\ Len(shown') = n
                      /\ \A i \in DOMAIN shown' : shown'[i] = i
                      /\ close = "end" => status = "ended" /\ \A i \in DOMAIN file : i \in Shown' \cup wire'
    BY <1>2, <1>3 DEF IInv, Complete
  <2>1. /\ Len(shown) = viewer.last /\ \A i \in DOMAIN shown : shown[i] = i
        /\ close = "end" => status = "ended" /\ \A i \in DOMAIN file : i \in Shown \cup wire
    BY DEF IInv, Complete
  <2>2. n = viewer.last + 1
    <3>1. \A i \in DOMAIN file : file[i].ok /\ file[i].seq = i
      BY PositionShape DEF Corrupt, Unread, IInv, CILog
    <3>2. \A i \in DOMAIN file : i \in Published
      BY <3>1 DEF Published
    <3>3. viewer.last + 1 <= n /\ n <= Len(file)
      BY <1>1, <1>4, PositionShape
    <3>4. viewer.last + 1 \in DOMAIN file
      BY <1>1, <1>4, <3>3, PositionShape
    <3>5. viewer.last + 1 \notin Shown
      BY <1>4
    <3>6. ~(viewer.last + 1 < n)
      BY <1>1, <3>2, <3>4, <3>5
    <3> QED
      BY <1>1, <1>4, <3>3, <3>6
  <2>3. /\ Len(shown') = Len(shown) + 1
        /\ \A i \in 1..Len(shown) : shown'[i] = shown[i]
        /\ shown'[Len(shown) + 1] = n
    BY <1>1, AppendProperties DEF IInv, View
  <2>4. DOMAIN shown = 1..Len(shown) /\ DOMAIN shown' = 1..Len(shown')
    BY <1>1, LenProperties DEF IInv, View
  <2>5. \A i \in DOMAIN shown' : i \in DOMAIN shown \/ i = Len(shown) + 1
    BY <1>4, <2>1, <2>3, <2>4
  <2>6. Shown \cup wire \subseteq Shown' \cup wire'
    BY <1>1
  <2> QED
    BY <2>1, <2>2, <2>3, <2>4, <2>5, <2>6
<1> QED
  BY <1>5, <1>6, <1>7 DEF ViewerInv

LEMMA EndsViewer ==
    ASSUME IInv, StreamEnds
    PROVE  ViewerInv'
<1> DEFINE pc == IF close = "resume" THEN "dial" ELSE "done"
<1>1. /\ viewer.pc = "open" /\ wire = {} /\ close # "open" /\ close' = "open"
      /\ viewer' = [viewer EXCEPT !.pc = pc]
      /\ UNCHANGED <<kind, status, file, stream, wire, shown>>
      /\ Shown' = Shown /\ Published' = Published /\ Corrupt(0)' = Corrupt(0) /\ Active' = Active
  BY DEF StreamEnds, runnerVars, Published, Corrupt, Unread, Active, Shown
<1>2. ~Active /\ (pc = "done" => close = "end") /\ pc \in {"dial", "done"}
  BY <1>1 DEF IInv, View
<1> HIDE DEF pc
<1>3. /\ viewer' \in [pc : {"dial", "open", "error", "done"}, last : Nat]
      /\ viewer'.pc = pc /\ viewer'.last = viewer.last
  BY <1>1, <1>2 DEF IInv, View
<1>4. View' /\ NothingSkipped'
  BY <1>1, <1>2, <1>3 DEF IInv, View, NothingSkipped
<1>5. Complete'
  BY <1>1, <1>2, <1>3 DEF IInv, Complete
<1> QED
  BY <1>4, <1>5 DEF ViewerInv

LEMMA RedialViewer ==
    ASSUME IInv, Drop \/ PollRun
    PROVE  ViewerInv'
<1>1. UNCHANGED <<kind, status, file, shown>>
  BY DEF Drop, PollRun, runnerVars
<1>2. CASE /\ viewer' = [viewer EXCEPT !.pc = "dial"]
           /\ stream' = NoStream /\ wire' = {} /\ close' = "open"
  <2>1. viewer'.last = viewer.last
    BY <1>2 DEF IInv, View
  <2> QED
    BY <1>1, <1>2, <2>1, StreamGone
<1>3. CASE UNCHANGED <<viewer, stream, wire, close>>
  <2>1. Shown' = Shown /\ Published' = Published /\ Corrupt(0)' = Corrupt(0) /\ Active' = Active
    BY <1>1, <1>3 DEF Published, Corrupt, Unread, Active, Shown
  <2>2. View' /\ NothingSkipped'
    BY <1>1, <1>3, <2>1 DEF IInv, View, NothingSkipped
  <2>3. Complete'
    BY <1>1, <1>3, <2>1 DEF IInv, Complete
  <2> QED
    BY <2>2, <2>3 DEF ViewerInv
<1> QED
  BY <1>2, <1>3 DEF Drop, PollRun, streamVars

-----------------------------------------------------------------------------
(* The theorems                                                            *)

LEMMA InitInv == Init => IInv
<1> SUFFICES ASSUME Init PROVE IInv
  OBVIOUS
<1>1. /\ file = <<>> /\ file \in Seq(LogLine) /\ Len(file) = 0 /\ DOMAIN file = {}
      /\ shown = <<>> /\ shown \in Seq(Nat) /\ Len(shown) = 0 /\ DOMAIN shown = {}
  BY EmptySeq, LenProperties DEF Init
<1>2. MaxLines \in Nat /\ FALSE \in BOOLEAN
  BY TailBoundsAssumption
<1>3. writer = [open |-> FALSE, seq |-> 0] /\ torn \in BOOLEAN
  BY <1>2 DEF Init, Closed
<1>4. writer \in [open : BOOLEAN, seq : Nat] /\ ~writer.open
  BY <1>2, <1>3
<1>5. Log /\ CILog
  BY <1>1, <1>2, <1>3, <1>4 DEF Init, Log, CILog, LogLine
<1>6. Published = {} /\ Shown = {} /\ ~Active
  BY <1>1 DEF Published, Shown, ToSet, Init, NoStream, Active
<1>7. View /\ NothingSkipped
  BY <1>1, <1>6 DEF Init, NoStream, View, NothingSkipped
<1>8. Complete
  BY <1>1 DEF Init, NoStream, Complete
<1> QED
  BY <1>5, <1>7, <1>8 DEF IInv

LEMMA NextInv == IInv /\ [Next]_vars => IInv'
<1> SUFFICES ASSUME IInv, [Next]_vars PROVE IInv'
  OBVIOUS
<1>1. CASE Next
  <2>1. ViewerInv'
    BY <1>1, RunnerViewer, ConnectViewer, ReadViewer, CheckViewer, DrainViewer, ReceiveViewer, EndsViewer,
       RedialViewer DEF Next
  <2> QED
    BY <1>1, <2>1, LogInv DEF IInv, ViewerInv
<1>2. CASE UNCHANGED vars
  <2>1. /\ UNCHANGED <<kind, status, file, torn, writer, reaper, stream, wire, close, viewer, shown>>
        /\ Shown' = Shown /\ Published' = Published /\ Corrupt(0)' = Corrupt(0) /\ Active' = Active
    BY <1>2 DEF vars, Published, Corrupt, Unread, Active, Shown
  <2>2. Log' /\ CILog'
    BY <2>1 DEF IInv, Log, CILog
  <2>3. View' /\ NothingSkipped' /\ Complete'
    BY <2>1 DEF IInv, View, NothingSkipped, Complete
  <2> QED
    BY <2>2, <2>3 DEF IInv
<1> QED
  BY <1>1, <1>2

LEMMA Invariance == Spec => []IInv
  BY InitInv, NextInv, PTL DEF Spec

\* handleCIJobEvents, "closing once the run reaches a terminal state and the
\* file is drained": the log of a CI job that the page takes for complete is
\* complete unless a line is corrupt, whatever rotations and drops came before.
THEOREM RestIsComplete == Spec => []CompleteAtRest
<1>1. IInv => CompleteAtRest
  <2> SUFFICES ASSUME IInv, kind = "ci", viewer.pc = "done", ~Corrupt(0)
               PROVE  status = "ended" /\ shown = Seqs(file)
    BY DEF CompleteAtRest
  <2>1. /\ status = "ended" /\ Len(shown) = viewer.last
        /\ \A i \in DOMAIN shown : shown[i] = i
        /\ \A i \in DOMAIN file : i \in Shown \cup wire /\ file[i].seq = i
    BY DEF IInv, Complete, CILog
  <2>2. wire = {} /\ viewer.last \in Shown \cup {0} /\ Shown \subseteq Published /\ \A m \in Shown : m <= viewer.last
    BY DEF IInv, View
  <2>3. /\ viewer.last \in Nat /\ Len(file) \in Nat /\ DOMAIN file = 1..Len(file)
        /\ \A m \in Published : m <= Len(file)
    BY PositionShape
  <2>4. viewer.last <= Len(file)
    BY <2>2, <2>3
  <2>5. Len(file) <= viewer.last
    <3>1. CASE Len(file) = 0
      BY <2>3, <3>1
    <3>2. CASE Len(file) # 0
      <4>1. Len(file) \in DOMAIN file
        BY <2>3, <3>2
      <4> QED
        BY <2>1, <2>2, <4>1
    <3> QED
      BY <3>1, <3>2
  <2>6. Len(shown) = Len(file)
    BY <2>1, <2>3, <2>4, <2>5
  <2>7. shown \in Seq(Nat) /\ DOMAIN shown = 1..Len(shown)
    BY LenProperties DEF IInv, View
  <2>8. shown = [i \in 1..Len(shown) |-> shown[i]]
    BY <2>7, SeqDef
  <2>9. \A i \in 1..Len(shown) : shown[i] = file[i].seq
    BY <2>1, <2>3, <2>6, <2>7
  <2> QED
    BY <2>1, <2>3, <2>6, <2>8, <2>9 DEF Seqs
<1> QED
  BY <1>1, Invariance, PTL

\* A step of the tail is a step of Delivery or none: a readable line publishes
\* its number, unless it has been published, and the event the page takes is
\* the next one.
LEMMA TailStep == IInv /\ [Next]_vars => [Promise!Next]_(Promise!vars)
<1> SUFFICES ASSUME IInv, [Next]_vars PROVE [Promise!Next]_(Promise!vars)
  OBVIOUS
<1> DEFINE published == {line.seq : line \in {x \in ToSet(file) : x.ok}}
<1>0. published = Published /\ Log
  BY PublishedLines DEF IInv
<1>1. CASE UNCHANGED <<file, shown>>
  <2>1. published' = published
    BY <1>1 DEF ToSet
  <2> QED
    BY <1>1, <2>1 DEF Promise!vars
<1>2. ASSUME RunnerStep PROVE [Promise!Next]_(Promise!vars)
  <2>1. shown' = shown
    BY <1>2 DEF RunnerStep, pageVars
  <2>2. CASE file' = file
    BY <1>1, <2>1, <2>2
  <2>3. ASSUME NEW e \in LogLine, file' = Append(file, e), Len(file) < MaxLines, e.seq <= Len(file) + 1,
               \A i \in DOMAIN file : file[i].seq <= e.seq
        PROVE  [Promise!Next]_(Promise!vars)
    <3>1. /\ file'[Len(file) + 1] = e /\ Len(file) + 1 \in DOMAIN file'
          /\ \A i \in DOMAIN file : i \in DOMAIN file' /\ file'[i] = file[i]
          /\ \A i \in DOMAIN file' : i \in DOMAIN file \/ i = Len(file) + 1
          /\ e.seq \in Nat \ {0} /\ Len(file) \in Nat /\ MaxLines \in Nat
      BY <1>0, <2>3, AppendLine, FileShape DEF LogLine
    <3>2. published' = {file'[i].seq : i \in {k \in DOMAIN file' : file'[k].ok}}
      BY DEF ToSet
    <3>3. \A m \in published : m <= e.seq /\ m \in Nat
      <4>1. \A m \in Published : m <= e.seq
        BY <2>3 DEF Published
      <4> QED
        BY <1>0, <4>1, PublishedLines
    <3>4. published' = IF e.ok THEN published \cup {e.seq} ELSE published
      <4> DEFINE next == {file'[i].seq : i \in {k \in DOMAIN file' : file'[k].ok}}
      <4>1. Published \subseteq next
        BY <3>1 DEF Published
      <4>2. \A m \in next : m \in Published \/ (m = e.seq /\ e.ok)
        BY <3>1 DEF Published
      <4>3. e.ok => e.seq \in next
        BY <3>1
      <4>4. published' = next
        BY <3>2
      <4> HIDE DEF next, published
      <4> QED
        BY <1>0, <4>1, <4>2, <4>3, <4>4
    <3> HIDE DEF published
    <3>5. CASE published' = published
      BY <2>1, <3>5 DEF Promise!vars, published
    <3>6. CASE published' # published
      <4>1. published' = published \cup {e.seq} /\ e.seq \notin published
        BY <3>4, <3>6
      <4>2. \A m \in published : m < e.seq
        BY <3>1, <3>3, <4>1
      <4>3. e.seq \in 1..MaxLines
        BY <2>3, <3>1
      <4>4. Promise!Publish(e.seq)
        BY <2>1, <4>1, <4>2 DEF Promise!Publish, published
      <4> QED
        BY <4>3, <4>4 DEF Promise!Next
    <3> QED
      BY <3>5, <3>6
  <2> QED
    BY <1>0, <1>2, <2>2, <2>3, FileStep DEF IInv
<1>3. ASSUME Receive PROVE [Promise!Next]_(Promise!vars)
  <2> DEFINE n == Min(wire)
  <2>1. /\ n \in Published /\ n \in Nat /\ viewer.last < n
        /\ \A m \in Published : m < n => m \in Shown
        /\ shown' = Append(shown, n)
    BY <1>3, ReceiveProperties
  <2> HIDE DEF n
  <2>2. file' = file
    BY <1>3 DEF Receive, runnerVars
  <2>3. published' = published
    BY <2>2 DEF ToSet
  <2>4. \A m \in Shown : m < n
    <3>1. \A m \in Shown : m \in Nat /\ m <= viewer.last /\ viewer.last \in Nat
      BY PositionShape DEF IInv, View
    <3> QED
      BY <2>1, <3>1
  <2>5. Promise!Received = Shown
    BY DEF Promise!Received, Promise!ToSet, ToSet, Shown
  <2>6. n \in 1..MaxLines
    <3>1. n \in Nat \ {0} /\ n <= Len(file) /\ Len(file) \in Nat /\ Len(file) <= MaxLines /\ MaxLines \in Nat
      BY <1>0, <2>1, PositionShape, FileShape DEF Log
    <3> QED
      BY <3>1
  <2>7. Promise!Deliver(n)
    BY <1>0, <2>1, <2>3, <2>4, <2>5 DEF Promise!Deliver
  <2> QED
    BY <2>6, <2>7 DEF Promise!Next
<1>4. Receive \/ RunnerStep \/ UNCHANGED <<file, shown>>
  BY DEF Next, vars, Connect, ReadEvents, CheckStatus, Drain, StreamEnds, Drop, PollRun, runnerVars, pageVars
<1> QED
  BY <1>1, <1>2, <1>3, <1>4

\* The tail of a job implements Delivery: through rotations, drops, parked
\* turns, re-opened logs, a second writer and torn lines, the page shows the
\* readable events in order, each number once, and passes over none.
THEOREM TailImplementsDelivery == Spec => TailDelivers
<1>1. Init => Promise!Init
  BY DEF Init, Promise!Init, ToSet
<1> QED
  BY <1>1, TailStep, Invariance, PTL DEF Spec, TailDelivers, Promise!Spec
=============================================================================
