----------------------------- MODULE IssueClaims -----------------------------
(***************************************************************************)
(* The claim on one issue: a leased advisory lock that agents take, renew  *)
(* and give back, that may be stolen once it is older than the lease, and  *)
(* that a reaper releases.  Every call is one transaction.                 *)
(*                                                                         *)
(* Time runs in ticks, finer than the seconds SQLite's strftime('%s')      *)
(* stamps and compares.                                                    *)
(*                                                                         *)
(* Source: internal/storage/issues.go (Claim, Unclaim, ExpireClaims,       *)
(* UpdateIssue), cmd/codefortd/main.go (runClaimReaper).                   *)
(***************************************************************************)
EXTENDS Integers

CONSTANTS
    Agents,
    NoAgent,         \* model value: nobody
    TicksPerSecond,
    Leases,          \* values of CODEFORT_CLAIM_LEASE in ticks; 0 disables expiry
    ReaperFloor,     \* reaperFloor in ticks
    MaxTime          \* bound: the last tick

ASSUME AgentAssumption == NoAgent \notin Agents
ASSUME TimeAssumption == TicksPerSecond \in Nat \ {0} /\ ReaperFloor \in Nat \ {0}
ASSUME LeaseAssumption == Leases \subseteq Nat /\ MaxTime \in Nat

Never == -1

VARIABLES
    lease,      \* the configured lease, read once at startup
    now,
    finished,   \* the issue is done or closed
    assignee,   \* the assignee column, or NoAgent
    claimedAt,  \* the claimed_at column, in seconds, or Never
    taken,      \* taken[a]: when a's last Claim returned ok, Never once unclaimed
    opened,     \* history: when the issue was last (re)opened
    sweepAt     \* when the reaper's ticker fires next

claimsVars == <<lease, now, finished, assignee, claimedAt, taken, opened, sweepAt>>

\* strftime('%s', t)
Second(t) == t \div TicksPerSecond

\* int64(lease.Seconds())
LeaseSeconds == lease \div TicksPerSecond

\* Slip: the reaper sleeps for two leases.
IntervalTooLong == 2 * lease + ReaperFloor

\* runClaimReaper's ticker.
Interval == IF lease \div 2 < ReaperFloor THEN ReaperFloor ELSE lease \div 2

\* Slip: a lease of zero is a lease.
StaleAtZero == claimedAt <= Second(now) - LeaseSeconds

\* claimed_at <= strftime('%s','now') - lease, if there is a lease.
Stale == lease > 0 /\ claimedAt <= Second(now) - LeaseSeconds

\* Claim: free, a heartbeat, or stale.  The state may be set along with it.
Claim(a) ==
    /\ assignee \in {NoAgent, a} \/ Stale
    /\ assignee' = a
    /\ claimedAt' = Second(now)
    /\ taken' = [taken EXCEPT ![a] = now]
    /\ finished' \in BOOLEAN
    /\ opened' = IF finished /\ ~finished' THEN now ELSE opened
    /\ UNCHANGED <<lease, now, sweepAt>>

\* Unclaim by the owner; anybody else's is refused or has nothing to do.
Unclaim(a) ==
    /\ assignee = a
    /\ assignee' = NoAgent
    /\ claimedAt' = Never
    /\ taken' = [taken EXCEPT ![a] = Never]
    /\ UNCHANGED <<lease, now, finished, opened, sweepAt>>

\* UpdateIssue, by anyone: the claim is left alone.
ChangeState ==
    /\ finished' = ~finished
    /\ opened' = IF finished THEN now ELSE opened
    /\ UNCHANGED <<lease, now, assignee, claimedAt, taken, sweepAt>>

\* ExpireClaims, at every tick of the reaper.
ExpireClaims ==
    /\ lease > 0 /\ now = sweepAt
    /\ sweepAt' = now + Interval
    /\ IF assignee # NoAgent /\ ~finished /\ Stale
         THEN assignee' = NoAgent /\ claimedAt' = Never
         ELSE UNCHANGED <<assignee, claimedAt>>
    /\ UNCHANGED <<lease, now, finished, taken, opened>>

\* Time passes, but not past a sweep that is due.
Tick ==
    /\ now < MaxTime
    /\ lease > 0 => now < sweepAt
    /\ now' = now + 1
    /\ UNCHANGED <<lease, finished, assignee, claimedAt, taken, opened, sweepAt>>

ClaimsInit ==
    /\ lease \in Leases
    /\ now = 0 /\ finished = FALSE
    /\ assignee = NoAgent /\ claimedAt = Never
    /\ taken = [a \in Agents |-> Never]
    /\ opened = 0 /\ sweepAt = Interval

ClaimsNext == Tick \/ ExpireClaims \/ ChangeState \/ \E a \in Agents : Claim(a) \/ Unclaim(a)

ClaimsSpec == ClaimsInit /\ [][ClaimsNext]_claimsVars

-----------------------------------------------------------------------------
(* Properties                                                              *)

\* Every variable has its type; no claim is stamped in the future.
ClaimsTypeOK ==
    /\ lease \in Leases
    /\ now \in 0..MaxTime /\ finished \in BOOLEAN
    /\ assignee \in Agents \cup {NoAgent}
    /\ claimedAt \in {Never} \cup 0..Second(now)
    /\ taken \in [Agents -> {Never} \cup 0..now]
    /\ opened \in 0..now
    /\ sweepAt \in Nat

\* a took the claim, has not given it back, and has a second of the whole
\* seconds of its lease left: as far as a can tell it owns the issue.
Trusts(a) ==
    /\ taken[a] # Never
    /\ lease = 0 \/ now - taken[a] <= TicksPerSecond * (LeaseSeconds - 1)

\* The lock is a lock (specs/issues.md): an agent that renews its claim at
\* least a second before the whole seconds of the lease are over never shares
\* the issue with another, through heartbeats, steals, state changes and reaper
\* sweeps.  Not to the end of the lease: claimed_at and now are both cut to
\* whole seconds, so that a claim can be stolen up to a second early, and the
\* fraction of a lease like 1500ms is dropped.
Exclusive == \A a, b \in Agents : Trusts(a) /\ Trusts(b) => a = b

\* "an orphaned claim surfaces as unassigned well within one lease"
\* (reaperFloor): an open issue is never assigned to somebody who has been
\* silent for longer than the lease, half of it again and the floor.
OrphansDiscoverable ==
    LET grace == lease \div 2 + ReaperFloor
    IN  lease > 0 /\ assignee # NoAgent /\ ~finished =>
            \/ now - taken[assignee] <= lease + grace
            \/ now - opened <= grace
=============================================================================
