------------------------------ MODULE JobTail ------------------------------
(***************************************************************************)
(* The log of one job and one viewer of it: the runner appends JSON lines  *)
(* to events.jsonl, handleCIJobEvents replays and tails the file as long   *)
(* as the run's row says that it can still grow, rotating the response     *)
(* every two seconds, and the page's reader reconnects from the last       *)
(* sequence number it has.  The runner's part (RunnerStep) is what CIRun   *)
(* and AgentRun do to the row and to the log, and no more.                 *)
(*                                                                         *)
(* A line is one unit: a partial line at the end of the file (torn) is     *)
(* left unread, and the next append is glued to it.                        *)
(*                                                                         *)
(* Source: internal/ci/events.go, internal/server/ci.go                    *)
(* (handleCIJobEvents), web/src/features/pipelines/ciEvents.ts and         *)
(* AgentRunBody.tsx, cmd/codefortd/ci_runner.go and agent_runner.go.       *)
(***************************************************************************)
EXTENDS Naturals, Sequences, FiniteSetsExt, SequencesExt

CONSTANTS
    Kinds,      \* the kinds of run to consider, a subset of {"ci", "agent"}
    MaxLines,   \* bound: lines of the log
    MaxOpens,   \* bound: times the runner opens the log
    MaxTears,   \* bound: short writes
    MaxDrops    \* bound: connections lost

ASSUME KindsAssumption == Kinds \subseteq {"ci", "agent"}
ASSUME TailBoundsAssumption == {MaxLines, MaxOpens, MaxTears, MaxDrops} \subseteq Nat

VARIABLES
    kind,      \* the run's kind
    status,    \* the run's row: "queued", "running", "awaiting_input",
               \* "finishing", or "ended" for any terminal status
    job,       \* whether the job's row exists
    file,      \* the complete lines: [seq, ok], ok = FALSE for a glued line
    torn,      \* a partial line follows them
    writer,    \* the runner's EventLog: [open, seq]
    reaper,    \* reapExpiredAgents: "idle", "listed", "logged"
    stream,    \* the handler: [pc, offset, last]
    wire,      \* sequence numbers sent and not yet read, ascending
    close,     \* how the response ended: "open", "resume" or "end"
    viewer,    \* [pc, last]: the reader of the page
    seen,      \* the status the page saw last (prevStatus)
    shown,     \* the events on the page, in order
    opens, tears, drops

vars == <<kind, status, job, file, torn, writer, reaper, stream, wire, close,
          viewer, seen, shown, opens, tears, drops>>
runnerVars == <<kind, status, job, file, torn, writer, reaper, opens, tears>>
streamVars == <<stream, wire, close>>
pageVars   == <<viewer, seen, shown, drops>>

Closed   == [open |-> FALSE, seq |-> 0]
NoStream == [pc |-> "none", offset |-> 0, last |-> 0]
Seqs(lines) == [i \in DOMAIN lines |-> lines[i].seq]

-----------------------------------------------------------------------------
(* The log                                                                 *)

\* countEvents: the complete lines, readable or not.
CountEvents(lines) == Len(lines)

\* OpenEventLog
Opened == [open |-> TRUE, seq |-> CountEvents(file)]

\* The line that a write of event n completes: glued to a torn one it is not
\* JSON any more.
Line(n) == [seq |-> n, ok |-> ~torn]

\* Append: the number is counted once the line is written.
AppendEvent ==
    /\ writer.open /\ Len(file) < MaxLines
    /\ file' = Append(file, Line(writer.seq + 1))
    /\ torn' = FALSE
    /\ writer' = [writer EXCEPT !.seq = @ + 1]
    /\ UNCHANGED <<kind, status, job, reaper, opens, tears>>

\* A short write (a full disk): the event is logged as lost, and the number
\* given to the next.
AppendFails ==
    /\ writer.open /\ tears < MaxTears
    /\ torn' = TRUE /\ tears' = tears + 1
    /\ UNCHANGED <<kind, status, job, file, writer, reaper, opens>>

\* ReadEvents from an offset: the lines it reads, and whether it meets a
\* corrupt one.
Unread(from) == {i \in DOMAIN file : i > from}
Corrupt(from) == \E i \in Unread(from) : ~file[i].ok

-----------------------------------------------------------------------------
(* The runner                                                              *)

\* claimNextRun, and the dispatch of a turn, which may also be a turn that is
\* delivered again after its run has ended.
Claim ==
    /\ \/ status \in {"queued", "awaiting_input"}
       \/ kind = "agent" /\ job /\ status = "ended"
    /\ ~writer.open /\ opens < MaxOpens
    /\ status' = "running"
    /\ UNCHANGED <<kind, job, file, torn, writer, reaper, opens, tears>>

\* runJob, runAgentSession and dispatchTurn: the job's row, then its log.  A
\* run whose terminal write failed is claimed again and opens its log again.
Open ==
    /\ status = "running" /\ ~writer.open /\ opens < MaxOpens
    /\ job' = TRUE /\ writer' = Opened /\ opens' = opens + 1
    /\ UNCHANGED <<kind, status, file, torn, reaper, tears>>

\* elog.Close() ends the job or the turn; a crash does too.
CloseLog ==
    /\ writer.open
    /\ writer' = Closed
    /\ UNCHANGED <<kind, status, job, file, torn, reaper, opens, tears>>

\* finish: the terminal write follows the last job; a job that is skipped has
\* a row and no log.  Startup does the same for the runs a crash left.
Finish ==
    /\ status \in {"running", "finishing"} /\ ~writer.open
    /\ status' = "ended"
    /\ job' \in {job, TRUE}
    /\ UNCHANGED <<kind, file, torn, writer, reaper, opens, tears>>

\* MarkRunAwaitingInput and MarkRunFinishing.
Park ==
    /\ kind = "agent" /\ job /\ ~writer.open
    /\ \/ status = "running" /\ status' = "awaiting_input"
       \/ status = "awaiting_input" /\ status' = "finishing"
    /\ UNCHANGED <<kind, job, file, torn, writer, reaper, opens, tears>>

\* A run is cancelled: a queued CI run, or an agent run in any state, whose
\* goroutine may still be writing.
Cancel ==
    /\ status # "ended"
    /\ kind = "agent" \/ status = "queued"
    /\ status' = "ended"
    /\ UNCHANGED <<kind, job, file, torn, writer, reaper, opens, tears>>

\* reapExpiredAgents works off a list: the run may have been resumed since, and
\* then its log has two writers.
ReapList ==
    /\ kind = "agent" /\ reaper = "idle" /\ status = "awaiting_input"
    /\ reaper' = "listed"
    /\ UNCHANGED <<kind, status, job, file, torn, writer, opens, tears>>

ReapAppend ==
    /\ reaper = "listed" /\ Len(file) < MaxLines
    /\ file' = Append(file, Line(CountEvents(file) + 1))
    /\ torn' = FALSE
    /\ reaper' = "logged"
    /\ UNCHANGED <<kind, status, job, writer, opens, tears>>

ReapFinish ==
    /\ reaper = "logged"
    /\ status' = "ended" /\ reaper' = "idle"
    /\ UNCHANGED <<kind, job, file, torn, writer, opens, tears>>

RunnerStep ==
    /\ \/ Claim \/ Open \/ AppendEvent \/ AppendFails \/ CloseLog
       \/ Finish \/ Park \/ Cancel \/ ReapList \/ ReapAppend \/ ReapFinish
    /\ UNCHANGED <<streamVars, pageVars>>

-----------------------------------------------------------------------------
(* handleCIJobEvents                                                       *)

\* Slip: the Last-Event-ID header is not read.
LastEventIDIgnored == 0

\* parseLastEventID
LastEventID == viewer.last

\* A job that does not exist is a 404 only when the run has ended.
Connect ==
    /\ viewer.pc = "dial"
    /\ IF job \/ status # "ended"
       THEN /\ stream' = [pc |-> "read", offset |-> 0, last |-> LastEventID]
            /\ wire' = {} /\ close' = "open"
            /\ viewer' = [viewer EXCEPT !.pc = "open"]
       ELSE /\ viewer' = [viewer EXCEPT !.pc = "error"]
            /\ UNCHANGED streamVars
    /\ UNCHANGED <<runnerVars, seen, shown, drops>>

\* writeSSEEvent of every event above lastID, which rises with it: the lines
\* that are above it and above all that this read has met before them.
Sent(from) ==
    {file[i].seq : i \in {k \in Unread(from) :
        file[k].seq > stream.last /\ \A j \in Unread(from) : j < k => file[j].seq < file[k].seq}}

\* A corrupt line ends the response before anything of the read is sent, and
\* without the sentinel.
ReadEvents ==
    /\ stream.pc = "read"
    /\ IF Corrupt(stream.offset)
       THEN /\ close' = "end" /\ stream' = NoStream
            /\ UNCHANGED wire
       ELSE LET out == Sent(stream.offset) IN
            /\ wire' = wire \cup out
            /\ stream' = [pc |-> "check", offset |-> Len(file), last |-> Max({stream.last} \cup out)]
            /\ UNCHANGED close
    /\ UNCHANGED <<runnerVars, pageVars>>

\* Slip: a parked run keeps the stream open.
RestingWhenEnded == status = "ended"

\* The run cannot produce more events for now.
Resting == status \in {"ended", "awaiting_input"}

\* After each read: a run at rest gets the last drain, a live one is polled
\* again or, after maxOpen, handed back with the resume sentinel.
CheckStatus ==
    /\ stream.pc = "check"
    /\ \/ Resting /\ stream' = [stream EXCEPT !.pc = "drain"] /\ UNCHANGED close
       \/ ~Resting /\ stream' = [stream EXCEPT !.pc = "read"] /\ UNCHANGED close
       \/ ~Resting /\ stream' = NoStream /\ close' = "resume"
    /\ UNCHANGED <<runnerVars, wire, pageVars>>

\* Slip: the stream ends without the last read.
DrainNothing ==
    /\ stream.pc = "drain"
    /\ close' = "end" /\ stream' = NoStream
    /\ UNCHANGED <<runnerVars, wire, pageVars>>

\* The final drain: what was flushed between the read and the status.
Drain ==
    /\ stream.pc = "drain"
    /\ wire' = IF Corrupt(stream.offset) THEN wire ELSE wire \cup Sent(stream.offset)
    /\ close' = "end" /\ stream' = NoStream
    /\ UNCHANGED <<runnerVars, pageVars>>

-----------------------------------------------------------------------------
(* The page                                                                *)

\* onEvent
Receive ==
    /\ viewer.pc = "open" /\ wire # {}
    /\ shown' = Append(shown, Min(wire))
    /\ viewer' = [viewer EXCEPT !.last = Max({@, Min(wire)})]
    /\ wire' = wire \ {Min(wire)}
    /\ UNCHANGED <<runnerVars, stream, close, seen, drops>>

\* consumeSSE returns: "paused" dials again, "closed" is the end.
StreamEnds ==
    /\ viewer.pc = "open" /\ wire = {} /\ close # "open"
    /\ viewer' = [viewer EXCEPT !.pc = IF close = "resume" THEN "dial" ELSE "done"]
    /\ close' = "open"
    /\ UNCHANGED <<runnerVars, stream, wire, seen, shown, drops>>

\* The connection or the server goes away; runStream backs off and dials.
Drop ==
    /\ viewer.pc = "open" /\ drops < MaxDrops
    /\ drops' = drops + 1
    /\ viewer' = [viewer EXCEPT !.pc = "dial"]
    /\ stream' = NoStream /\ wire' = {} /\ close' = "open"
    /\ UNCHANGED <<runnerVars, seen, shown>>

\* AgentTranscript: useCIRun polls the row, and a run seen to leave
\* awaiting_input has its stream opened anew.
PollRun ==
    /\ kind = "agent" /\ seen # status
    /\ seen' = status
    /\ IF seen = "awaiting_input" /\ status \in {"running", "finishing"}
       THEN /\ viewer' = [viewer EXCEPT !.pc = "dial"]
            /\ stream' = NoStream /\ wire' = {} /\ close' = "open"
       ELSE UNCHANGED <<viewer, streamVars>>
    /\ UNCHANGED <<runnerVars, shown, drops>>

-----------------------------------------------------------------------------

Init ==
    /\ kind \in Kinds /\ status = "queued" /\ job = FALSE
    /\ file = <<>> /\ torn = FALSE /\ writer = Closed
    /\ reaper = "idle"
    /\ stream = NoStream /\ wire = {} /\ close = "open"
    /\ viewer = [pc |-> "dial", last |-> 0] /\ seen = "queued" /\ shown = <<>>
    /\ opens = 0 /\ tears = 0 /\ drops = 0

Next ==
    \/ RunnerStep
    \/ Connect \/ ReadEvents \/ CheckStatus \/ Drain
    \/ Receive \/ StreamEnds \/ Drop \/ PollRun

Spec == Init /\ [][Next]_vars

\* The handler's loop and the page's reader go on; the runner promises nothing.
FairSpec ==
    /\ Spec
    /\ WF_vars(Connect) /\ WF_vars(ReadEvents) /\ WF_vars(CheckStatus)
    /\ WF_vars(Drain) /\ WF_vars(Receive) /\ WF_vars(StreamEnds)

-----------------------------------------------------------------------------
(* Properties                                                              *)

\* "Clients resume after a drop via the Last-Event-ID header; only events with
\* a higher Seq are sent": through rotations, drops, parked turns, re-opened
\* logs and torn lines, the page shows the readable events of the log in order,
\* each once and without a gap.
Promise == INSTANCE Delivery WITH
    Events <- 1..MaxLines,
    published <- {line.seq : line \in {x \in ToSet(file) : x.ok}},
    gone <- {},
    delivered <- shown

TailDelivers == Promise!Spec

\* "closing once the run reaches a terminal state and the file is drained": the
\* log of a CI job that the page takes for complete is complete, unless a line
\* of it is corrupt.
CompleteAtRest ==
    (kind = "ci" /\ viewer.pc = "done" /\ ~Corrupt(0))
        => status = "ended" /\ shown = Seqs(file)

AtRest == status \in {"ended", "awaiting_input"}

\* "Closing makes the response finite and flushable": while a run is at rest
\* no viewer is kept waiting at an open stream.
TailSettles == AtRest ~> (viewer.pc \in {"done", "error"} \/ ~AtRest)
=============================================================================
