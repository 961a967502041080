---------------------------- MODULE AccessProofs ----------------------------
(***************************************************************************)
(* For any users, agents, keys, number of requests and of failures of the  *)
(* database, lifetime of a token and debounce interval: the answers of the *)
(* gates are justified, and the reaper takes no token that it could know   *)
(* to be in use.                                                           *)
(*                                                                         *)
(* The argument: a request at a check has met, at some moment since it     *)
(* came, what every check before this one asks for; what has been true     *)
(* stays on its record; whom its token speaks for no longer changes; and   *)
(* if the row it looked up is not the current one, the name was free at    *)
(* some moment.  The age of a token runs ahead of the time since its last  *)
(* use by less than one debounce interval, or its touch is due or lost.    *)
(***************************************************************************)
EXTENDS Access, TLAPS

Tokens == TokenNames \cup {NoToken, SharedPair}

Places == {"idle", "auth", "touch", "basic", "lookup", "private", "identity", "read", "member",
           "write", "role", "handle", "session", "served", "refused", "failed"}

RequestTypeOK ==
    req \in [Clients -> [pc : Places, via : {"api", "git", "ssh"}, write : BOOLEAN,
                         token : Tokens, id : Nat]]

StateTypeOK ==
    /\ scenario \in Scenarios
    /\ users \in [Users -> {"none", "bare", "password"}]
    /\ tokens \in [TokenNames -> [state : {"none", "live", "revoked"}, linked : BOOLEAN]]
    /\ fresh \in [Agents -> BOOLEAN]
    /\ keys \in [Keys -> Tokens]
    /\ repo \in [id : Nat, private : BOOLEAN] /\ ids \in Nat /\ hide \in SUBSET Nat
    /\ members \in [Users -> {"none", "read", "write"}]
    /\ faults \in Nat

TypeOK ==
    /\ StateTypeOK /\ RequestTypeOK
    /\ age \in [Agents -> Nat] /\ quiet \in [Agents -> Nat] /\ lost \in SUBSET Agents

\* The steps of a gate that ask about the row looked up, and those past the
\* look at the token.
Checks == {"private", "identity", "read", "member", "write", "role"}
Known == {"touch", "read", "member", "write", "role"}
Admitted(c) == req[c].pc \in Known \/ (req[c].pc = "lookup" /\ req[c].via = "api")

\* What a request has met by the time it is at a step of its gate.
Passed(c) ==
    /\ req[c].pc \in {"auth", "touch"} => req[c].via = "api"
    /\ req[c].pc \in {"basic", "private", "identity"} => req[c].via = "git"
    /\ req[c].pc \in Checks \cup {"lookup", "handle"} =>
         req[c].via \in {"api", "git"} /\ (req[c].via = "git" => Keyed(c))
    /\ req[c].pc \in Checks => req[c].id # NoRepo /\ (Gone(c) => "absent" \in seen[c])
    /\ req[c].pc = "session" => req[c].via = "ssh" /\ "in" \in seen[c]
    /\ req[c].pc = "touch" => req[c].token \in {"agent"} \X Agents
    /\ Admitted(c) =>
         "in" \in seen[c] /\ req[c].token \in TokenNames /\ tokens[req[c].token].state # "none"
    /\ req[c].pc \in {"member", "role"} => Principal(req[c].token) # Owner
    /\ req[c].pc = "member" => "private" \in seen[c]
    /\ req[c].pc \in {"write", "role"} => req[c].write /\ "may read" \in seen[c]
    /\ req[c].pc = "handle" =>
         \/ "in" \in seen[c] /\ ("absent" \in seen[c] \/ Permitted(c))
         \/ req[c].via = "git" /\ seen[c] \cap {"public", "absent"} # {}

\* A use that leaves no trace in last_used_at is one that finds the age below
\* the interval, is still to be written, or could not be.
Debounced ==
    \A a \in Agents : age[a] < quiet[a] + TouchInterval \/ a \in lost \/ BeingTouched(a)

\* AnswersJustified, of one request.
Justified(c) ==
    /\ req[c].pc = "served" =>
         /\ req[c].via = "api" => "in" \in seen[c] /\ ("absent" \in seen[c] \/ Permitted(c))
         /\ req[c].via = "git" => /\ Keyed(c)
                                  /\ \/ seen[c] \cap {"public", "absent"} # {}
                                     \/ "in" \in seen[c] /\ Permitted(c)
         /\ req[c].via = "ssh" => "in" \in seen[c]
    /\ req[c].pc = "refused" =>
         \/ seen[c] \cap {"out", "absent"} # {}
         \/ {"private", "no role"} \subseteq seen[c]
         \/ req[c].write /\ "no write role" \in seen[c]
         \/ req[c].via = "git" /\ ~Keyed(c)
         \/ req[c].via # "api" /\ faults > 0

\* The inductive invariant.
IInv == TypeOK /\ Debounced /\ \A c \in Clients : Passed(c) /\ Justified(c)

-----------------------------------------------------------------------------
(* Facts about tokens                                                      *)

LEMMA TokenShape ==
    /\ NoToken \notin TokenNames /\ SharedPair \notin TokenNames
    /\ \A t \in TokenNames :
         /\ t[1] = "own" => t[2] \in Users /\ t = <<"own", t[2]>>
         /\ t[1] = "agent" => t[2] \in Agents /\ t = <<"agent", t[2]>>
         /\ t[1] = "own" <=> t \in {<<"own", u>> : u \in Users}
    /\ NoToken[1] = "none" /\ SharedPair[1] = "shared"
    /\ NoToken \notin {<<"own", u>> : u \in Users} /\ SharedPair \notin {<<"own", u>> : u \in Users}
  BY DEF TokenNames, NoToken, SharedPair, Nobody

\* The code's principal is the account the token speaks for.
LEMMA PrincipalIsAccount ==
    ASSUME NEW t \in Tokens
    PROVE  Principal(t) = AccountOf(t)
  BY TokenShape DEF Principal, AccountOf, Tokens

LEMMA OlderValue ==
    ASSUME NEW n \in Nat, Ttl \in Nat
    PROVE  Older(n) = IF n + 1 <= Ttl THEN n + 1 ELSE Ttl
<1>1. CASE n + 1 <= Ttl
  BY <1>1 DEF Older, Min
<1>2. CASE ~(n + 1 <= Ttl)
  BY <1>2 DEF Older, Min
<1> QED
  BY <1>1, <1>2

LEMMA TtlNat == ASSUME TypeOK PROVE Ttl \in Nat
  BY ScenariosAssumption DEF TypeOK, StateTypeOK, Ttl, ScenarioRecords

-----------------------------------------------------------------------------
(* What a step records                                                     *)

\* What a step that leaves tokens and the repository alone puts on the record of
\* a request with token t.
OnRecord(c, t) ==
    LET p == Principal(t) IN
    /\ seen[c] \subseteq seen'[c]
    /\ IF Live(t) THEN "in" \in seen'[c] ELSE "out" \in seen'[c]
    /\ repo.id = NoRepo => "absent" \in seen'[c]
    /\ repo.id # NoRepo =>
         /\ IF repo.private THEN "private" \in seen'[c] ELSE "public" \in seen'[c]
         /\ ~repo.private \/ p = Owner \/ IsMember(p, {"read", "write"}) => "may read" \in seen'[c]
         /\ p # Owner /\ ~IsMember(p, {"read", "write"}) => "no role" \in seen'[c]
         /\ p = Owner \/ IsMember(p, {"write"}) => "may write" \in seen'[c]
         /\ p # Owner /\ ~IsMember(p, {"write"}) => "no write role" \in seen'[c]

LEMMA Recorded ==
    ASSUME TypeOK, Watch, NEW c \in Clients, NEW t \in Tokens,
           req'[c].token = t, req'[c].pc # "idle", UNCHANGED <<tokens, repo, members>>
    PROVE  OnRecord(c, t)
<1> DEFINE p == AccountOf(t)
           role == IF p = Owner THEN "owner" ELSE IF p \in Users THEN members[p] ELSE "none"
           facts == {IF Live(t) THEN "in" ELSE "out"}
                    \cup (IF repo.id = NoRepo THEN {"absent"}
                          ELSE {IF repo.private THEN "private" ELSE "public"}
                               \cup {f \in {"may read"} : ~repo.private \/ role # "none"}
                               \cup {f \in {"no role"} : role = "none"}
                               \cup {IF role \in {"owner", "write"} THEN "may write" ELSE "no write role"})
<1>1. Facts(c)' = facts
  BY DEF Facts, RoleOf, AccountOf, Live
<1>2. seen'[c] = seen[c] \cup facts
  BY <1>1 DEF Watch
<1>3. Principal(t) = p
  BY PrincipalIsAccount
<1>4. p \in Users => members[p] \in {"none", "read", "write"}
  BY DEF TypeOK, StateTypeOK
<1> HIDE DEF p
<1>5. p = Owner \/ IsMember(p, {"read", "write"}) <=> role # "none"
  BY <1>4 DEF IsMember
<1>6. p = Owner \/ IsMember(p, {"write"}) <=> role \in {"owner", "write"}
  BY <1>4, OwnerAssumption DEF IsMember
<1> HIDE DEF role
<1> QED
  BY <1>2, <1>3, <1>5, <1>6 DEF OnRecord

\* What no step undoes: the scenario, the failures, what is known of a token that
\* was minted; and a name changes hands only by being free.
Steady ==
    /\ scenario' = scenario /\ faults' \in {faults, faults + 1}
    /\ repo'.id = repo.id \/ repo.id = NoRepo \/ repo'.id = NoRepo
    /\ \A t \in TokenNames : tokens[t].state # "none" =>
         tokens'[t].state # "none" /\ tokens'[t].linked = tokens[t].linked

\* A request that the step is not about keeps what it has met.
LEMMA OtherRequests ==
    ASSUME IInv, Watch, Steady, NEW c \in Clients, req'[c] = req[c]
    PROVE  Passed(c)' /\ Justified(c)'
<1>1. Passed(c) /\ Justified(c) /\ faults \in Nat
  BY DEF IInv, TypeOK, StateTypeOK
<1>2. CASE req[c].pc = "idle"
  BY <1>2 DEF Passed, Justified, Checks, Known, Admitted
<1>3. CASE req[c].pc # "idle"
  <2>1. seen'[c] = seen[c] \cup Facts(c)'
    BY <1>3 DEF Watch
  <2>2. seen[c] \subseteq seen'[c] /\ (Permitted(c) => Permitted(c)') /\ (Keyed(c)' <=> Keyed(c))
    BY <2>1 DEF Permitted, Keyed, Steady
  <2>3. faults > 0 => faults' > 0
    BY <1>1 DEF Steady
  <2>4. Justified(c)'
    BY <1>1, <2>2, <2>3 DEF Justified
  <2>5. ASSUME req[c].pc \in Checks, Gone(c)' PROVE "absent" \in seen'[c]
    <3>1. CASE Gone(c)
      BY <1>1, <2>2, <2>5, <3>1 DEF Passed
    <3>2. CASE ~Gone(c)
      <4>1. repo'.id = NoRepo
        BY <1>1, <2>5, <3>2 DEF Gone, Steady, Passed
      <4>2. "absent" \in Facts(c)'
        BY <4>1 DEF Facts
      <4> QED
        BY <2>1, <4>2
    <3> QED
      BY <3>1, <3>2
  <2>6. ASSUME Admitted(c)
        PROVE  /\ req[c].token \in TokenNames /\ tokens'[req[c].token].state # "none"
               /\ Principal(req[c].token)' = Principal(req[c].token)
    BY <1>1, <2>6 DEF Passed, Steady, Principal
  <2>7. Passed(c)'
    BY <1>1, <2>2, <2>5, <2>6 DEF Passed, Checks, Known, Admitted
  <2> QED
    BY <2>4, <2>7
<1> QED
  BY <1>2, <1>3

-----------------------------------------------------------------------------
(* A request's steps                                                       *)

LEMMA Moved ==
    ASSUME TypeOK, NEW c \in Clients, NEW pc \in Places, Goto(c, pc)
    PROVE  /\ RequestTypeOK'
           /\ req'[c].pc = pc /\ req'[c].via = req[c].via /\ req'[c].write = req[c].write
           /\ req'[c].token = req[c].token /\ req'[c].id = req[c].id
           /\ \A d \in Clients : d # c => req'[d] = req[d]
  BY DEF TypeOK, RequestTypeOK, Goto

LEMMA RequestFields ==
    ASSUME TypeOK, NEW c \in Clients
    PROVE  /\ req[c].pc \in Places /\ req[c].via \in {"api", "git", "ssh"}
           /\ req[c].write \in BOOLEAN /\ req[c].token \in Tokens /\ req[c].id \in Nat
  BY DEF TypeOK, RequestTypeOK

\* A step of request c to pc that leaves tokens and the repository alone.
Step(c, pc) ==
    /\ Goto(c, pc) /\ UNCHANGED <<scenario, tokens, repo, members>>

\* After such a step the other requests are as they were, and what it found out
\* is on record.
LEMMA Stepped ==
    ASSUME IInv, Watch, NEW c \in Clients, NEW pc \in Places, Step(c, pc), pc # "idle"
    PROVE  /\ RequestTypeOK' /\ \A d \in Clients : d # c => req'[d] = req[d]
           /\ req'[c].pc = pc /\ req'[c].via = req[c].via /\ req'[c].write = req[c].write
           /\ req'[c].token = req[c].token /\ req'[c].id = req[c].id
           /\ OnRecord(c, req[c].token)
           /\ Keyed(c)' <=> Keyed(c)
           /\ Gone(c)' <=> Gone(c)
           /\ Permitted(c) => Permitted(c)'
           /\ Principal(req[c].token)' = Principal(req[c].token)
<1>0. TypeOK
  BY DEF IInv
<1>1. /\ RequestTypeOK' /\ \A d \in Clients : d # c => req'[d] = req[d]
      /\ req'[c].pc = pc /\ req'[c].via = req[c].via /\ req'[c].write = req[c].write
      /\ req'[c].token = req[c].token /\ req'[c].id = req[c].id
  BY <1>0, Moved DEF Step
<1>2. OnRecord(c, req[c].token)
  BY <1>0, <1>1, RequestFields, Recorded DEF Step
<1>3. Permitted(c) => Permitted(c)'
  BY <1>1, <1>2 DEF Permitted, OnRecord
<1> QED
  BY <1>1, <1>2, <1>3 DEF Keyed, Gone, Principal, Step

\* What is to be shown of a step of request c.
Upheld(c) ==
    /\ Passed(c)' /\ Justified(c)' /\ RequestTypeOK'
    /\ \A d \in Clients : d # c => req'[d] = req[d]

\* A query that fails, or finds its row gone, ends the request.
LEMMA FailedStep ==
    ASSUME IInv, Watch, NEW c \in Clients, Step(c, "failed")
    PROVE  Upheld(c)
<1>1. /\ req'[c].pc = "failed" /\ RequestTypeOK' /\ \A d \in Clients : d # c => req'[d] = req[d]
  BY Stepped DEF Places
<1> QED
  BY <1>1 DEF Upheld, Passed, Justified, Checks, Known, Admitted

LEMMA BasicStep ==
    ASSUME IInv, Watch, NEW c \in Clients, WithBasicAuth(c)
    PROVE  Upheld(c)
<1>0. Passed(c) /\ req[c].pc = "basic" /\ req[c].via = "git" /\ UNCHANGED <<scenario, tokens, repo, members>>
  BY DEF IInv, WithBasicAuth, accountVars, repoVars, Passed
<1>1. CASE Keyed(c)
  <2>1. Step(c, "lookup")
    BY <1>0, <1>1 DEF WithBasicAuth, Keyed, Step
  <2>2. /\ req'[c].pc = "lookup" /\ req'[c].via = "git" /\ Keyed(c)'
        /\ RequestTypeOK' /\ \A d \in Clients : d # c => req'[d] = req[d]
    BY <1>0, <1>1, <2>1, Stepped DEF Places
  <2> QED
    BY <2>2 DEF Upheld, Passed, Justified, Checks, Known, Admitted
<1>2. CASE ~Keyed(c)
  <2>1. Step(c, "refused")
    BY <1>0, <1>2 DEF WithBasicAuth, Keyed, Step
  <2>2. /\ req'[c].pc = "refused" /\ req'[c].via = "git" /\ ~Keyed(c)'
        /\ RequestTypeOK' /\ \A d \in Clients : d # c => req'[d] = req[d]
    BY <1>0, <1>2, <2>1, Stepped DEF Places
  <2> QED
    BY <2>2 DEF Upheld, Passed, Justified, Checks, Known, Admitted
<1> QED
  BY <1>1, <1>2

LEMMA AuthenticateStep ==
    ASSUME IInv, Watch, NEW c \in Clients, Authenticate(c)
    PROVE  Upheld(c)
<1> DEFINE t == req[c].token
<1>0. /\ TypeOK /\ Passed(c) /\ req[c].pc = "auth" /\ req[c].via = "api"
      /\ UNCHANGED <<scenario, tokens, repo, members>>
  BY DEF IInv, Authenticate, repoVars, Passed
<1>1. CASE ~Live(t)
  <2>1. Step(c, "refused")
    BY <1>0, <1>1 DEF Authenticate, Step
  <2>2. /\ req'[c].pc = "refused" /\ OnRecord(c, t)
        /\ RequestTypeOK' /\ \A d \in Clients : d # c => req'[d] = req[d]
    BY <2>1, Stepped DEF Places
  <2> QED
    BY <1>1, <2>2 DEF Upheld, Passed, Justified, Checks, Known, Admitted, OnRecord
<1>2. CASE Live(t) /\ Goto(c, "touch") /\ t[1] = "agent"
  <2>1. Step(c, "touch") /\ t \in {"agent"} \X Agents /\ t \in TokenNames /\ tokens'[t].state # "none"
    BY <1>0, <1>2, TokenShape DEF Step, Live
  <2>2. /\ req'[c].pc = "touch" /\ OnRecord(c, t) /\ req'[c].via = "api" /\ req'[c].token = t
        /\ RequestTypeOK' /\ \A d \in Clients : d # c => req'[d] = req[d]
    BY <1>0, <2>1, Stepped DEF Places
  <2> QED
    BY <1>2, <2>1, <2>2 DEF Upheld, Passed, Justified, Checks, Known, Admitted, OnRecord
<1>3. CASE Live(t) /\ Goto(c, "lookup")
  <2>1. Step(c, "lookup") /\ t \in TokenNames /\ tokens'[t].state # "none"
    BY <1>0, <1>3 DEF Step, Live
  <2>2. /\ req'[c].pc = "lookup" /\ OnRecord(c, t) /\ req'[c].via = "api" /\ req'[c].token = t
        /\ RequestTypeOK' /\ \A d \in Clients : d # c => req'[d] = req[d]
    BY <1>0, <2>1, Stepped DEF Places
  <2> QED
    BY <1>3, <2>1, <2>2 DEF Upheld, Passed, Justified, Checks, Known, Admitted, OnRecord
<1> QED
  BY <1>1, <1>2, <1>3 DEF Authenticate

LEMMA TouchStep ==
    ASSUME IInv, Watch, NEW c \in Clients, TouchToken(c)
    PROVE  Upheld(c)
<1>1. /\ Step(c, "lookup") /\ req[c].via = "api" /\ "in" \in seen[c]
      /\ req[c].token \in TokenNames /\ tokens'[req[c].token].state # "none"
  BY DEF IInv, TouchToken, repoVars, Passed, Step, Known, Admitted
<1>2. /\ req'[c].pc = "lookup" /\ OnRecord(c, req[c].token) /\ req'[c].via = "api"
      /\ req'[c].token = req[c].token
      /\ RequestTypeOK' /\ \A d \in Clients : d # c => req'[d] = req[d]
  BY <1>1, Stepped DEF Places
<1> QED
  BY <1>1, <1>2 DEF Upheld, Passed, Justified, Checks, Known, Admitted, OnRecord

LEMMA LookupStep ==
    ASSUME IInv, Watch, NEW c \in Clients, LookupRepo(c)
    PROVE  Upheld(c)
<1> DEFINE t == req[c].token
           pc == IF repo.id = NoRepo THEN "handle"
                 ELSE IF req[c].via = "api" THEN "read" ELSE "private"
<1>0. /\ TypeOK /\ Passed(c) /\ req[c].pc = "lookup" /\ UNCHANGED <<scenario, tokens, repo, members>>
  BY DEF IInv, LookupRepo, accountVars, repoVars
<1>1. req' = [req EXCEPT ![c].id = repo.id, ![c].pc = pc] /\ repo.id \in Nat
  BY <1>0 DEF LookupRepo, TypeOK, StateTypeOK
<1>2. pc \in {"handle", "read", "private"} /\ (pc = "handle" <=> repo.id = NoRepo)
      /\ (pc = "read" => req[c].via = "api") /\ (pc = "private" => req[c].via # "api")
  OBVIOUS
<1> HIDE DEF pc
<1>3. /\ RequestTypeOK'
      /\ req'[c].pc = pc /\ req'[c].via = req[c].via /\ req'[c].write = req[c].write
      /\ req'[c].token = t /\ req'[c].id = repo.id /\ t \in Tokens
      /\ \A d \in Clients : d # c => req'[d] = req[d]
  BY <1>0, <1>1, <1>2 DEF TypeOK, RequestTypeOK, Places
<1> HIDE DEF t
<1>4. seen[c] \subseteq seen'[c] /\ (repo.id = NoRepo => "absent" \in seen'[c])
  BY <1>0, <1>2, <1>3, Recorded DEF OnRecord
<1>5. /\ req[c].via \in {"api", "git"} /\ (req[c].via = "git" => Keyed(c))
      /\ req[c].via = "api" => "in" \in seen[c] /\ t \in TokenNames /\ tokens'[t].state # "none"
  BY <1>0 DEF Passed, Admitted, t
<1>6. ~Gone(c)' /\ (Keyed(c) => Keyed(c)')
  BY <1>0, <1>3 DEF Gone, Keyed, t
<1>7. CASE pc = "handle"
  BY <1>2, <1>3, <1>4, <1>5, <1>6, <1>7 DEF Upheld, Passed, Justified, Checks, Known, Admitted
<1>8. CASE pc = "private"
  BY <1>2, <1>3, <1>4, <1>5, <1>6, <1>8 DEF Upheld, Passed, Justified, Checks, Known, Admitted
<1>9. CASE pc = "read"
  BY <1>2, <1>3, <1>4, <1>5, <1>6, <1>9 DEF Upheld, Passed, Justified, Checks, Known, Admitted
<1> QED
  BY <1>2, <1>7, <1>8, <1>9

LEMMA PrivateStep ==
    ASSUME IInv, Watch, NEW c \in Clients, RepoIsPrivate(c)
    PROVE  Upheld(c)
<1>0. /\ Passed(c) /\ req[c].pc = "private" /\ UNCHANGED <<scenario, tokens, repo, members>>
      /\ req[c].via = "git" /\ Keyed(c) /\ req[c].id # NoRepo
  BY DEF IInv, RepoIsPrivate, accountVars, repoVars, Passed, Checks
<1>1. CASE Gone(c)
  BY <1>0, <1>1, FailedStep DEF RepoIsPrivate, Step
<1>2. CASE ~Gone(c) /\ repo.private
  <2>1. Step(c, "identity")
    BY <1>0, <1>2 DEF RepoIsPrivate, Step
  <2>2. /\ req'[c].pc = "identity" /\ req'[c].via = "git" /\ req'[c].id # NoRepo /\ ~Gone(c)' /\ Keyed(c)'
        /\ RequestTypeOK' /\ \A d \in Clients : d # c => req'[d] = req[d]
    BY <1>0, <1>2, <2>1, Stepped DEF Places
  <2> QED
    BY <2>2 DEF Upheld, Passed, Justified, Checks, Known, Admitted
<1>3. CASE ~Gone(c) /\ ~repo.private
  <2>1. Step(c, "handle") /\ repo.id # NoRepo
    BY <1>0, <1>3 DEF RepoIsPrivate, Gone, Step
  <2>2. /\ req'[c].pc = "handle" /\ req'[c].via = "git" /\ Keyed(c)' /\ OnRecord(c, req[c].token)
        /\ RequestTypeOK' /\ \A d \in Clients : d # c => req'[d] = req[d]
    BY <1>0, <2>1, Stepped DEF Places
  <2>3. "public" \in seen'[c]
    BY <1>3, <2>1, <2>2 DEF OnRecord
  <2> QED
    BY <2>2, <2>3 DEF Upheld, Passed, Justified, Checks, Known, Admitted
<1> QED
  BY <1>1, <1>2, <1>3

LEMMA IdentityStep ==
    ASSUME IInv, Watch, NEW c \in Clients, GitIdentity(c)
    PROVE  Upheld(c)
<1> DEFINE t == req[c].token
<1>0. /\ Passed(c) /\ req[c].pc = "identity" /\ UNCHANGED <<scenario, tokens, repo, members>>
      /\ req[c].via = "git" /\ Keyed(c) /\ req[c].id # NoRepo /\ (Gone(c) => "absent" \in seen[c])
  BY DEF IInv, GitIdentity, accountVars, repoVars, Passed, Checks
<1>1. CASE Live(t)
  <2>1. Step(c, "read") /\ t \in TokenNames /\ tokens'[t].state # "none"
    BY <1>0, <1>1 DEF GitIdentity, Step, Live
  <2>2. /\ req'[c].pc = "read" /\ req'[c].via = "git" /\ req'[c].id # NoRepo /\ req'[c].token = t
        /\ (Gone(c)' <=> Gone(c)) /\ Keyed(c)' /\ OnRecord(c, t)
        /\ RequestTypeOK' /\ \A d \in Clients : d # c => req'[d] = req[d]
    BY <1>0, <2>1, Stepped DEF Places
  <2>3. "in" \in seen'[c] /\ (Gone(c)' => "absent" \in seen'[c])
    BY <1>0, <1>1, <2>2 DEF OnRecord
  <2> QED
    BY <2>1, <2>2, <2>3 DEF Upheld, Passed, Justified, Checks, Known, Admitted
<1>2. CASE ~Live(t)
  <2>1. Step(c, "refused")
    BY <1>0, <1>2 DEF GitIdentity, Step
  <2>2. /\ req'[c].pc = "refused" /\ OnRecord(c, t)
        /\ RequestTypeOK' /\ \A d \in Clients : d # c => req'[d] = req[d]
    BY <2>1, Stepped DEF Places
  <2> QED
    BY <1>2, <2>2 DEF Upheld, Passed, Justified, Checks, Known, Admitted, OnRecord
<1> QED
  BY <1>1, <1>2

\* A request found to be allowed to read goes on to the check for writes, or to
\* its handler.
LEMMA ReadAllowed ==
    ASSUME IInv, Watch, NEW c \in Clients, req[c].pc \in {"read", "member"}, ~Gone(c), Step(c, AfterRead(c)),
           \/ ~repo.private \/ Principal(req[c].token) = Owner
           \/ IsMember(Principal(req[c].token), {"read", "write"})
    PROVE  Upheld(c)
<1> DEFINE t == req[c].token
<1>0. /\ Passed(c) /\ req[c].via \in {"api", "git"} /\ (req[c].via = "git" => Keyed(c))
      /\ req[c].id # NoRepo /\ repo.id # NoRepo /\ "in" \in seen[c]
      /\ t \in TokenNames /\ tokens'[t].state # "none"
  BY DEF IInv, Passed, Checks, Known, Admitted, Gone, Step
<1>1. AfterRead(c) \in {"write", "handle"} /\ (AfterRead(c) = "write" <=> req[c].write)
  BY DEF AfterRead
<1>2. /\ req'[c].pc = AfterRead(c) /\ req'[c].via = req[c].via /\ req'[c].id = req[c].id
      /\ req'[c].token = t /\ req'[c].write = req[c].write
      /\ ~Gone(c)' /\ (Keyed(c)' <=> Keyed(c)) /\ OnRecord(c, t)
      /\ RequestTypeOK' /\ \A d \in Clients : d # c => req'[d] = req[d]
  BY <1>1, Stepped DEF Places
<1>3. {"in", "may read"} \subseteq seen'[c]
  BY <1>0, <1>2 DEF OnRecord
<1>4. CASE AfterRead(c) = "write"
  BY <1>0, <1>1, <1>2, <1>3, <1>4 DEF Upheld, Passed, Justified, Checks, Known, Admitted
<1>5. CASE AfterRead(c) = "handle"
  BY <1>0, <1>1, <1>2, <1>3, <1>5 DEF Upheld, Passed, Justified, Checks, Known, Admitted, Permitted
<1> QED
  BY <1>1, <1>4, <1>5

\* A request whose principal is not the owner goes on to the members.
LEMMA NotOwner ==
    ASSUME IInv, Watch, NEW c \in Clients, NEW pc \in {"member", "role"}, ~Gone(c), Step(c, pc),
           Principal(req[c].token) # Owner,
           \/ pc = "member" /\ req[c].pc = "read" /\ repo.private
           \/ pc = "role" /\ req[c].pc = "write"
    PROVE  Upheld(c)
<1> DEFINE t == req[c].token
<1>0. /\ Passed(c) /\ req[c].via \in {"api", "git"} /\ (req[c].via = "git" => Keyed(c))
      /\ req[c].id # NoRepo /\ repo.id # NoRepo /\ "in" \in seen[c]
      /\ t \in TokenNames /\ tokens'[t].state # "none"
      /\ req[c].pc = "write" => req[c].write /\ "may read" \in seen[c]
  BY DEF IInv, Passed, Checks, Known, Admitted, Gone, Step
<1>2. /\ req'[c].pc = pc /\ req'[c].via = req[c].via /\ req'[c].id = req[c].id
      /\ req'[c].token = t /\ req'[c].write = req[c].write
      /\ ~Gone(c)' /\ (Keyed(c)' <=> Keyed(c)) /\ OnRecord(c, t)
      /\ Principal(t)' # Owner
      /\ RequestTypeOK' /\ \A d \in Clients : d # c => req'[d] = req[d]
  BY Stepped DEF Places
<1>3. seen[c] \subseteq seen'[c] /\ (repo.private => "private" \in seen'[c])
  BY <1>0, <1>2 DEF OnRecord
<1>4. CASE pc = "member"
  BY <1>0, <1>2, <1>3, <1>4 DEF Upheld, Passed, Justified, Checks, Known, Admitted
<1>5. CASE pc = "role"
  BY <1>0, <1>2, <1>3, <1>5 DEF Upheld, Passed, Justified, Checks, Known, Admitted
<1> QED
  BY <1>4, <1>5

LEMMA AccessStep ==
    ASSUME IInv, Watch, NEW c \in Clients, CheckAccess(c)
    PROVE  Upheld(c)
<1> DEFINE open == ~repo.private \/ Principal(req[c].token) = Owner
<1>0. req[c].pc = "read" /\ UNCHANGED <<scenario, tokens, repo, members>>
  BY DEF CheckAccess, accountVars, repoVars
<1>1. CASE Gone(c)
  BY <1>0, <1>1, FailedStep DEF CheckAccess, Step
<1>2. CASE ~Gone(c) /\ open
  BY <1>0, <1>2, ReadAllowed DEF CheckAccess, Step
<1>3. CASE ~Gone(c) /\ ~open
  BY <1>0, <1>3, NotOwner DEF CheckAccess, Step
<1> QED
  BY <1>1, <1>2, <1>3

LEMMA MemberStep ==
    ASSUME IInv, Watch, NEW c \in Clients, CheckMember(c)
    PROVE  Upheld(c)
<1> DEFINE t == req[c].token
           is == IsMember(Principal(t), {"read", "write"})
<1>0. req[c].pc = "member" /\ UNCHANGED <<scenario, tokens, repo, members>>
  BY DEF CheckMember, accountVars, repoVars
<1>1. CASE ~Gone(c) /\ is
  BY <1>0, <1>1, ReadAllowed DEF CheckMember, Step
<1>2. CASE Gone(c) \/ ~is
  <2>1. /\ Step(c, "refused") /\ Principal(t) # Owner /\ "private" \in seen[c]
        /\ Gone(c) => "absent" \in seen[c]
        /\ ~Gone(c) => repo.id # NoRepo
    BY <1>0, <1>2 DEF CheckMember, Step, IInv, Passed, Checks, Gone
  <2>2. /\ req'[c].pc = "refused" /\ OnRecord(c, t)
        /\ RequestTypeOK' /\ \A d \in Clients : d # c => req'[d] = req[d]
    BY <2>1, Stepped DEF Places
  <2>3. "absent" \in seen'[c] \/ {"private", "no role"} \subseteq seen'[c]
    BY <1>2, <2>1, <2>2 DEF OnRecord
  <2> QED
    BY <2>2, <2>3 DEF Upheld, Passed, Justified, Checks, Known, Admitted
<1> QED
  BY <1>1, <1>2

\* A request found to be allowed to write goes on to its handler.
LEMMA WriteAllowed ==
    ASSUME IInv, Watch, NEW c \in Clients, req[c].pc \in {"write", "role"}, ~Gone(c), Step(c, "handle"),
           Principal(req[c].token) = Owner \/ IsMember(Principal(req[c].token), {"write"})
    PROVE  Upheld(c)
<1>0. /\ Passed(c) /\ req[c].via \in {"api", "git"} /\ (req[c].via = "git" => Keyed(c))
      /\ repo.id # NoRepo /\ {"in", "may read"} \subseteq seen[c]
  BY DEF IInv, Passed, Checks, Known, Admitted, Gone
<1>1. /\ req'[c].pc = "handle" /\ req'[c].via = req[c].via
      /\ (Keyed(c)' <=> Keyed(c)) /\ OnRecord(c, req[c].token)
      /\ RequestTypeOK' /\ \A d \in Clients : d # c => req'[d] = req[d]
  BY Stepped DEF Places
<1>2. {"in", "may read", "may write"} \subseteq seen'[c]
  BY <1>0, <1>1 DEF OnRecord
<1> QED
  BY <1>0, <1>1, <1>2 DEF Upheld, Passed, Justified, Checks, Known, Admitted, Permitted

LEMMA WriteStep ==
    ASSUME IInv, Watch, NEW c \in Clients, CheckWrite(c)
    PROVE  Upheld(c)
<1> DEFINE own == Principal(req[c].token) = Owner
<1>0. req[c].pc = "write" /\ UNCHANGED <<scenario, tokens, repo, members>>
  BY DEF CheckWrite, accountVars, repoVars
<1>1. CASE Gone(c)
  BY <1>0, <1>1, FailedStep DEF CheckWrite, Step
<1>2. CASE ~Gone(c) /\ own
  BY <1>0, <1>2, WriteAllowed DEF CheckWrite, Step
<1>3. CASE ~Gone(c) /\ ~own
  BY <1>0, <1>3, NotOwner DEF CheckWrite, Step
<1> QED
  BY <1>1, <1>2, <1>3

LEMMA RoleStep ==
    ASSUME IInv, Watch, NEW c \in Clients, CheckRole(c)
    PROVE  Upheld(c)
<1> DEFINE t == req[c].token
           may == IsMember(Principal(t), {"write"})
<1>0. req[c].pc = "role" /\ UNCHANGED <<scenario, tokens, repo, members>>
  BY DEF CheckRole, accountVars, repoVars
<1>1. CASE ~Gone(c) /\ may
  BY <1>0, <1>1, WriteAllowed DEF CheckRole, Step
<1>2. CASE Gone(c) \/ ~may
  <2>1. /\ Step(c, "refused") /\ Principal(t) # Owner /\ req[c].write
        /\ Gone(c) => "absent" \in seen[c]
        /\ ~Gone(c) => repo.id # NoRepo
    BY <1>0, <1>2 DEF CheckRole, Step, IInv, Passed, Checks, Gone
  <2>2. /\ req'[c].pc = "refused" /\ req'[c].write = req[c].write /\ OnRecord(c, t)
        /\ RequestTypeOK' /\ \A d \in Clients : d # c => req'[d] = req[d]
    BY <2>1, Stepped DEF Places
  <2>3. "absent" \in seen'[c] \/ "no write role" \in seen'[c]
    BY <1>2, <2>1, <2>2 DEF OnRecord
  <2> QED
    BY <2>1, <2>2, <2>3 DEF Upheld, Passed, Justified, Checks, Known, Admitted
<1> QED
  BY <1>1, <1>2

LEMMA QueryFailsStep ==
    ASSUME IInv, Watch, NEW c \in Clients, QueryFails(c)
    PROVE  Upheld(c)
<1>0. /\ UNCHANGED <<scenario, tokens, repo, members>> /\ faults' > 0
  BY DEF QueryFails, DatabaseFails, accountVars, repoVars, IInv, TypeOK, StateTypeOK
<1>1. CASE req[c].pc # "identity"
  BY <1>0, <1>1, FailedStep DEF QueryFails, Step
<1>2. CASE req[c].pc = "identity"
  <2>1. Step(c, "refused") /\ req[c].via = "git"
    BY <1>0, <1>2 DEF QueryFails, Step, IInv, Passed
  <2>2. /\ req'[c].pc = "refused" /\ req'[c].via = "git"
        /\ RequestTypeOK' /\ \A d \in Clients : d # c => req'[d] = req[d]
    BY <2>1, Stepped DEF Places
  <2> QED
    BY <1>0, <2>2 DEF Upheld, Passed, Justified, Checks, Known, Admitted
<1> QED
  BY <1>1, <1>2

\* The handlers and the SSH session, which answer.
LEMMA FoundStep ==
    ASSUME IInv, Watch, NEW c \in Clients, Found(c), req[c].pc \in {"handle", "session"},
           UNCHANGED <<scenario, tokens, repo, members>>
    PROVE  Upheld(c)
<1> DEFINE t == req[c].token
<1>1. CASE repo.id = NoRepo
  <2>1. Step(c, "refused")
    BY <1>1 DEF Found, Step
  <2>2. /\ req'[c].pc = "refused" /\ OnRecord(c, t)
        /\ RequestTypeOK' /\ \A d \in Clients : d # c => req'[d] = req[d]
    BY <2>1, Stepped DEF Places
  <2>3. "absent" \in seen'[c]
    BY <1>1, <2>2 DEF OnRecord
  <2> QED
    BY <2>2, <2>3 DEF Upheld, Passed, Justified, Checks, Known, Admitted
<1>2. CASE repo.id # NoRepo
  <2>1. Step(c, "served") /\ Passed(c)
    BY <1>2 DEF Found, Step, IInv
  <2>2. /\ req'[c].pc = "served" /\ OnRecord(c, t) /\ req'[c].via = req[c].via
        /\ (Keyed(c)' <=> Keyed(c)) /\ (Permitted(c) => Permitted(c)')
        /\ RequestTypeOK' /\ \A d \in Clients : d # c => req'[d] = req[d]
    BY <2>1, Stepped DEF Places
  <2>3. seen[c] \subseteq seen'[c]
    BY <2>2 DEF OnRecord
  <2> QED
    BY <2>1, <2>2, <2>3 DEF Upheld, Passed, Justified, Checks, Known, Admitted
<1> QED
  BY <1>1, <1>2

LEMMA ArriveStep ==
    ASSUME IInv, NEW c \in Clients, Arrive(c)
    PROVE  Upheld(c)
<1>1. PICK via \in {"api", "git"}, write \in BOOLEAN, t \in Credentials :
        req' = [req EXCEPT ![c] = [pc |-> IF via = "api" THEN "auth" ELSE "basic",
                                   via |-> via, write |-> write, token |-> t, id |-> NoRepo]]
  BY DEF Arrive
<1>2. t \in Tokens
  BY DEF Credentials, Tokens
<1>3. /\ req'[c].pc = IF via = "api" THEN "auth" ELSE "basic"
      /\ req'[c].via = via
      /\ RequestTypeOK' /\ \A d \in Clients : d # c => req'[d] = req[d]
  BY <1>1, <1>2 DEF IInv, TypeOK, RequestTypeOK, NoRepo, Places
<1> QED
  BY <1>3 DEF Upheld, Passed, Justified, Checks, Known, Admitted

LEMMA HandshakeStep ==
    ASSUME IInv, Watch, NEW c \in Clients, NEW k \in Keys, Handshake(c, k)
    PROVE  Upheld(c)
<1> DEFINE t == keys[k]
<1>0. TypeOK /\ t \in Tokens /\ faults \in Nat /\ UNCHANGED <<scenario, tokens, repo, members>>
  BY DEF IInv, TypeOK, StateTypeOK, Handshake, accountVars, repoVars
<1>1. PICK write \in BOOLEAN, pc \in {"session", "refused"} :
        /\ \/ pc = (IF KeyIsGood(k) THEN "session" ELSE "refused")
           \/ pc = "refused" /\ DatabaseFails
        /\ req' = [req EXCEPT ![c] = [pc |-> pc, via |-> "ssh", write |-> write, token |-> t, id |-> NoRepo]]
  BY Zenon DEF Handshake
<1>7. (KeyIsGood(k) <=> Live(t)) /\ (DatabaseFails => faults' = faults + 1)
  BY DEF KeyIsGood, DatabaseFails
<1> HIDE DEF t
<1>2. /\ req'[c].pc = pc /\ req'[c].via = "ssh" /\ req'[c].token = t
      /\ RequestTypeOK' /\ \A d \in Clients : d # c => req'[d] = req[d]
  BY <1>0, <1>1 DEF TypeOK, RequestTypeOK, NoRepo, Places
<1>3. IF Live(t) THEN "in" \in seen'[c] ELSE "out" \in seen'[c]
  BY <1>0, <1>2, Recorded DEF OnRecord
<1>4. CASE pc = "session"
  BY <1>1, <1>2, <1>3, <1>4, <1>7 DEF Upheld, Passed, Justified, Checks, Known, Admitted
<1>5. CASE pc = "refused"
  <2>1. "out" \in seen'[c] \/ faults' > 0
    BY <1>0, <1>1, <1>3, <1>5, <1>7
  <2> QED
    BY <1>2, <1>5, <2>1 DEF Upheld, Passed, Justified, Checks, Known, Admitted
<1> QED
  BY <1>4, <1>5

LEMMA AnsweredStep ==
    ASSUME IInv, NEW c \in Clients, Answered(c)
    PROVE  Upheld(c)
<1>1. /\ req'[c] = Idle /\ RequestTypeOK'
      /\ \A d \in Clients : d # c => req'[d] = req[d]
  BY DEF Answered, IInv, TypeOK, RequestTypeOK, Idle, Tokens, NoRepo, Places
<1> QED
  BY <1>1 DEF Upheld, Passed, Justified, Idle, Checks, Known, Admitted

\* Every step of a request.
LEMMA RequestStep ==
    ASSUME IInv, Watch, NEW c \in Clients,
           Arrive(c) \/ Serve(c) \/ \E k \in Keys : Handshake(c, k)
    PROVE  Upheld(c)
<1>1. CASE Handle(c) \/ HandleInfoRefs(c) \/ RunGitOverSSH(c)
  <2>1. Found(c) /\ req[c].pc \in {"handle", "session"} /\ UNCHANGED <<scenario, tokens, repo, members>>
    BY <1>1 DEF Handle, HandleInfoRefs, RunGitOverSSH, accountVars, repoVars
  <2> QED
    BY <2>1, FoundStep
<1> QED
  BY <1>1, BasicStep, AuthenticateStep, TouchStep, LookupStep, PrivateStep, IdentityStep, AccessStep,
     MemberStep, WriteStep, RoleStep, QueryFailsStep, AnsweredStep, ArriveStep, HandshakeStep DEF Serve

-----------------------------------------------------------------------------
(* Accounts, tokens, the repository and their types                        *)

LEMMA CreateTokenTyped ==
    ASSUME TypeOK, NEW t \in TokenNames, NEW linked \in BOOLEAN, CreateToken(t, linked)
    PROVE  /\ tokens' \in [TokenNames -> [state : {"none", "live", "revoked"}, linked : BOOLEAN]]
           /\ \A x \in TokenNames : tokens[x].state # "none" => tokens'[x] = tokens[x]
  BY DEF TypeOK, StateTypeOK, CreateToken

LEMMA RevokeTyped ==
    ASSUME TypeOK, NEW t \in TokenNames, Revoke(t)
    PROVE  /\ tokens' \in [TokenNames -> [state : {"none", "live", "revoked"}, linked : BOOLEAN]]
           /\ \A x \in TokenNames : tokens[x].state # "none" =>
                tokens'[x].state # "none" /\ tokens'[x].linked = tokens[x].linked
  BY DEF TypeOK, StateTypeOK, Revoke

\* What is to be shown of a step that is no request's.
Administered == StateTypeOK' /\ Steady /\ req' = req

LEMMA AdministerStep ==
    ASSUME TypeOK, Administer
    PROVE  Administered
<1>0. StateTypeOK
  BY DEF TypeOK
<1>1. ASSUME NEW u \in Users, HandleRegister(u) PROVE Administered
  <2>1. <<"own", u>> \in TokenNames
    BY DEF TokenNames
  <2>2. /\ tokens' \in [TokenNames -> [state : {"none", "live", "revoked"}, linked : BOOLEAN]]
        /\ \A x \in TokenNames : tokens[x].state # "none" => tokens'[x] = tokens[x]
    BY <1>1, <2>1, CreateTokenTyped DEF HandleRegister, RegisterUser
  <2> QED
    BY <1>0, <1>1, <2>2 DEF HandleRegister, RegisterUser, Administered, Steady, StateTypeOK, repoVars
<1>2. ASSUME NEW u \in Users, HandleLogin(u) PROVE Administered
  <2>1. <<"session", u>> \in TokenNames
    BY DEF TokenNames
  <2>2. /\ tokens' \in [TokenNames -> [state : {"none", "live", "revoked"}, linked : BOOLEAN]]
        /\ \A x \in TokenNames : tokens[x].state # "none" => tokens'[x] = tokens[x]
    BY <1>2, <2>1, CreateTokenTyped DEF HandleLogin, LoginUser
  <2> QED
    BY <1>0, <1>2, <2>2 DEF HandleLogin, Administered, Steady, StateTypeOK, repoVars
<1>3. ASSUME NEW t \in TokenNames, HandleCreateToken(t) \/ RunTokenCreate(t) PROVE Administered
  <2>1. /\ tokens' \in [TokenNames -> [state : {"none", "live", "revoked"}, linked : BOOLEAN]]
        /\ \A x \in TokenNames : tokens[x].state # "none" => tokens'[x] = tokens[x]
    BY <1>3, CreateTokenTyped DEF HandleCreateToken, RunTokenCreate
  <2> QED
    BY <1>0, <1>3, <2>1 DEF HandleCreateToken, RunTokenCreate, Administered, Steady, StateTypeOK, repoVars
<1>4. ASSUME NEW t \in TokenNames, HandleRevokeToken(t) \/ RunTokenRevoke(t) PROVE Administered
  <2>1. /\ tokens' \in [TokenNames -> [state : {"none", "live", "revoked"}, linked : BOOLEAN]]
        /\ \A x \in TokenNames : tokens[x].state # "none" =>
             tokens'[x].state # "none" /\ tokens'[x].linked = tokens[x].linked
    BY <1>4, RevokeTyped DEF HandleRevokeToken, RunTokenRevoke
  <2> QED
    BY <1>0, <1>4, <2>1 DEF HandleRevokeToken, RunTokenRevoke, Administered, Steady, StateTypeOK, repoVars
<1>5. ASSUME NEW t \in TokenNames, NEW k \in Keys, HandleCreateSSHKey(k, t) \/ HandleDeleteSSHKey(k, t)
      PROVE  Administered
  <2>1. keys' \in [Keys -> Tokens]
    BY <1>0, <1>5 DEF HandleCreateSSHKey, HandleDeleteSSHKey, AddSSHKey, DeleteSSHKey, StateTypeOK, Tokens
  <2> QED
    BY <1>0, <1>5, <2>1 DEF HandleCreateSSHKey, HandleDeleteSSHKey, Administered, Steady, StateTypeOK, repoVars
<1>6. CASE RevokeStaleAgentTokens
  <2>1. /\ tokens' \in [TokenNames -> [state : {"none", "live", "revoked"}, linked : BOOLEAN]]
        /\ \A x \in TokenNames : tokens[x].state # "none" =>
             tokens'[x].state # "none" /\ tokens'[x].linked = tokens[x].linked
    BY <1>0, <1>6 DEF RevokeStaleAgentTokens, StateTypeOK
  <2> QED
    BY <1>0, <1>6, <2>1 DEF RevokeStaleAgentTokens, Administered, Steady, StateTypeOK, repoVars
<1>7. CASE Tick
  BY <1>0, <1>7 DEF Tick, Administered, Steady, StateTypeOK, repoVars
<1>8. ASSUME NEW p \in BOOLEAN, CreateRepo(p) PROVE Administered
  <2>1. users' \in [Users -> {"none", "bare", "password"}]
    BY <1>0, <1>8 DEF CreateRepo, StateTypeOK
  <2>2. repo' \in [id : Nat, private : BOOLEAN] /\ ids' \in Nat /\ hide' \in SUBSET Nat
    <3>1. FALSE \in BOOLEAN
      OBVIOUS
    <3> QED
      BY <1>0, <1>8, <3>1 DEF CreateRepo, StateTypeOK
  <2> QED
    BY <1>0, <1>8, <2>1, <2>2 DEF CreateRepo, Administered, Steady, StateTypeOK
<1>9. ASSUME NEW id \in hide, HideRepo(id) PROVE Administered
  <2>1. TRUE \in BOOLEAN
    OBVIOUS
  <2>2. /\ repo' \in [id : Nat, private : BOOLEAN] /\ repo'.id = repo.id
        /\ faults' \in Nat /\ faults' \in {faults, faults + 1} /\ hide' \in SUBSET Nat
    <3>1. CASE UNCHANGED faults /\ repo' = IF repo.id = id THEN [repo EXCEPT !.private = TRUE] ELSE repo
      BY <1>0, <1>9, <2>1, <3>1 DEF HideRepo, StateTypeOK
    <3>2. CASE DatabaseFails /\ UNCHANGED repo
      BY <1>0, <1>9, <3>2 DEF HideRepo, StateTypeOK, DatabaseFails
    <3> QED
      BY <1>9, <3>1, <3>2 DEF HideRepo
  <2> QED
    BY <1>0, <1>9, <2>2 DEF HideRepo, Administered, Steady, StateTypeOK, accountVars
<1>10. CASE DeleteRepo
  <2>1. FALSE \in BOOLEAN
    OBVIOUS
  <2>2. repo' \in [id : Nat, private : BOOLEAN] /\ repo'.id = NoRepo
    BY <1>10, <2>1 DEF DeleteRepo, NoRepo
  <2> QED
    BY <1>0, <1>10, <2>2 DEF DeleteRepo, Administered, Steady, StateTypeOK, accountVars
<1>11. CASE SetRepoVisibility
  <2>1. (~repo.private) \in BOOLEAN
    OBVIOUS
  <2>2. repo' \in [id : Nat, private : BOOLEAN] /\ repo'.id = repo.id
    BY <1>0, <1>11, <2>1 DEF SetRepoVisibility, StateTypeOK
  <2> QED
    BY <1>0, <1>11, <2>2 DEF SetRepoVisibility, Administered, Steady, StateTypeOK, accountVars
<1>12. ASSUME NEW u \in Users, NEW role \in {"read", "write"}, HandleAddMember(u, role)
       PROVE  Administered
  BY <1>0, <1>12 DEF HandleAddMember, Administered, Steady, StateTypeOK, accountVars
<1>13. ASSUME NEW u \in Users, HandleRemoveMember(u) PROVE Administered
  BY <1>0, <1>13 DEF HandleRemoveMember, Administered, Steady, StateTypeOK, accountVars
<1> QED
  BY <1>1, <1>2, <1>3, <1>4, <1>5, <1>6, <1>7, <1>8, <1>9, <1>10, <1>11, <1>12, <1>13 DEF Administer

\* The requests' steps touch of all this only last_used_at and the failures.
LEMMA RequestTyped ==
    ASSUME TypeOK, NEW c \in Clients,
           Arrive(c) \/ Serve(c) \/ \E k \in Keys : Handshake(c, k)
    PROVE  StateTypeOK' /\ Steady
<1>0. StateTypeOK
  BY DEF TypeOK
<1>1. UNCHANGED <<scenario, users, tokens, keys, repo, ids, hide, members>>
  BY DEF Serve, Arrive, Handshake, WithBasicAuth, Authenticate, TouchToken, LookupRepo, RepoIsPrivate,
         GitIdentity, CheckAccess, CheckMember, CheckWrite, CheckRole, QueryFails, Handle,
         HandleInfoRefs, RunGitOverSSH, Answered, accountVars, repoVars
<1>2. UNCHANGED fresh \/ TouchToken(c)
  BY DEF Serve, Arrive, Handshake, WithBasicAuth, Authenticate, LookupRepo, RepoIsPrivate,
         GitIdentity, CheckAccess, CheckMember, CheckWrite, CheckRole, QueryFails, Handle,
         HandleInfoRefs, RunGitOverSSH, Answered, accountVars
<1>3. fresh' \in [Agents -> BOOLEAN]
  <2>1. CASE UNCHANGED fresh
    BY <1>0, <2>1 DEF StateTypeOK
  <2>2. CASE TouchToken(c)
    <3>1. UNCHANGED fresh \/ fresh' = [fresh EXCEPT ![req[c].token[2]] = FALSE]
      BY <2>2 DEF TouchToken
    <3> QED
      BY <1>0, <3>1, Zenon DEF StateTypeOK
  <2> QED
    BY <1>2, <2>1, <2>2
<1>4. UNCHANGED faults \/ DatabaseFails
  BY DEF Serve, Arrive, Handshake, WithBasicAuth, Authenticate, TouchToken, LookupRepo, RepoIsPrivate,
         GitIdentity, CheckAccess, CheckMember, CheckWrite, CheckRole, QueryFails, Handle,
         HandleInfoRefs, RunGitOverSSH, Answered
<1>5. faults' \in Nat /\ faults' \in {faults, faults + 1}
  BY <1>0, <1>4 DEF StateTypeOK, DatabaseFails
<1> QED
  BY <1>0, <1>1, <1>3, <1>5 DEF StateTypeOK, Steady

-----------------------------------------------------------------------------
(* The age of a token and the time since its last use                      *)

Ages == age \in [Agents -> Nat] /\ quiet \in [Agents -> Nat] /\ lost \in SUBSET Agents /\ Debounced

LEMMA AgeTypes ==
    ASSUME IInv, NEW a \in Agents
    PROVE  /\ age[a] \in Nat /\ quiet[a] \in Nat /\ TouchInterval \in Nat \ {0}
           /\ age[a] < quiet[a] + TouchInterval \/ a \in lost \/ BeingTouched(a)
  BY TouchAssumption DEF IInv, TypeOK, Debounced

LEMMA TickAges ==
    ASSUME IInv, Tick
    PROVE  Ages'
<1>0. TypeOK /\ Ttl \in Nat /\ TouchInterval \in Nat \ {0}
  BY TtlNat, TouchAssumption DEF IInv
<1>1. \A a \in Agents : /\ age[a] \in Nat /\ quiet[a] \in Nat
                        /\ Older(age[a]) = IF age[a] + 1 <= Ttl THEN age[a] + 1 ELSE Ttl
                        /\ Older(quiet[a]) = IF quiet[a] + 1 <= Ttl THEN quiet[a] + 1 ELSE Ttl
  BY <1>0, OlderValue DEF TypeOK
<1>2. /\ age' = [a \in Agents |-> IF Live(<<"agent", a>>) THEN Older(age[a]) ELSE age[a]]
      /\ quiet' = [a \in Agents |-> IF Live(<<"agent", a>>) THEN Older(quiet[a]) ELSE quiet[a]]
      /\ UNCHANGED <<lost, req>>
  BY DEF Tick
<1>3. \A a \in Agents : Older(age[a]) \in Nat /\ Older(quiet[a]) \in Nat
  BY <1>0, <1>1
<1>4. age' \in [Agents -> Nat] /\ quiet' \in [Agents -> Nat] /\ lost' \in SUBSET Agents
  BY <1>0, <1>1, <1>2, <1>3 DEF TypeOK
<1>5. ASSUME NEW a \in Agents, age[a] < quiet[a] + TouchInterval PROVE age'[a] < quiet'[a] + TouchInterval
  <2>2. CASE Live(<<"agent", a>>)
    <3>1. age'[a] = Older(age[a]) /\ quiet'[a] = Older(quiet[a])
      BY <1>2, <2>2
    <3> QED
      BY <1>0, <1>1, <1>5, <3>1
  <2>3. CASE ~Live(<<"agent", a>>)
    BY <1>2, <1>5, <2>3
  <2> QED
    BY <2>2, <2>3
<1>6. \A a \in Agents : BeingTouched(a) => BeingTouched(a)'
  BY <1>2 DEF BeingTouched
<1>7. \A a \in Agents : age[a] < quiet[a] + TouchInterval \/ a \in lost \/ BeingTouched(a)
  BY DEF IInv, Debounced
<1> QED
  BY <1>2, <1>4, <1>5, <1>6, <1>7 DEF Ages, Debounced

\* A step of a request that is not between its lookup and its touch leaves
\* those that are.
LEMMA TouchesStay ==
    ASSUME NEW c \in Clients, req[c].pc # "touch", \A d \in Clients : d # c => req'[d] = req[d],
           NEW a \in Agents, BeingTouched(a)
    PROVE  BeingTouched(a)'
  BY DEF BeingTouched

\* A use: its touch is not due, or is now to be written.
LEMMA UseAges ==
    ASSUME IInv, NEW c \in Clients, Authenticate(c)
    PROVE  Ages'
<1> DEFINE t == req[c].token
<1>0. /\ TypeOK /\ req[c].pc = "auth" /\ UNCHANGED <<age, lost>>
  BY DEF IInv, Authenticate
<1>1. \E pc \in {"refused", "touch", "lookup"} : Goto(c, pc)
  BY DEF Authenticate
<1>2. \A d \in Clients : d # c => req'[d] = req[d]
  BY <1>0, <1>1, Moved DEF Places
<1>3. \A a \in Agents : BeingTouched(a) => BeingTouched(a)'
  BY <1>0, <1>2, TouchesStay
<1>4. CASE UNCHANGED quiet
  BY <1>0, <1>3, <1>4 DEF Ages, IInv, TypeOK, Debounced
<1>5. CASE /\ Live(t) /\ t[1] = "agent" /\ quiet' = [quiet EXCEPT ![t[2]] = 0]
           /\ Goto(c, IF TouchDue(t[2]) THEN "touch" ELSE "lookup")
  <2>1. t[2] \in Agents /\ t = <<"agent", t[2]>>
    BY <1>5, TokenShape DEF Live
  <2>2. quiet' \in [Agents -> Nat]
    BY <1>0, <1>5 DEF TypeOK
  <2>3. ASSUME NEW a \in Agents PROVE age[a] < quiet'[a] + TouchInterval \/ a \in lost \/ BeingTouched(a)'
    <3>0. /\ age[a] \in Nat /\ quiet[a] \in Nat /\ TouchInterval \in Nat
          /\ age[a] < quiet[a] + TouchInterval \/ a \in lost \/ BeingTouched(a)
      BY AgeTypes
    <3>1. CASE a # t[2]
      <4>1. quiet'[a] = quiet[a]
        BY <1>0, <1>5, <3>1 DEF TypeOK
      <4> QED
        BY <1>3, <3>0, <4>1
    <3>2. CASE a = t[2] /\ TouchDue(a)
      <4>1. Goto(c, "touch")
        BY <1>5, <3>2
      <4>2. req'[c].pc = "touch" /\ req'[c].token = t
        BY <1>0, <4>1, Moved DEF Places
      <4>3. t = <<"agent", a>>
        BY <2>1, <3>2
      <4>4. BeingTouched(a)'
        BY <4>2, <4>3 DEF BeingTouched
      <4> QED
        BY <4>4
    <3>3. CASE a = t[2] /\ ~TouchDue(a)
      <4>1. ~(age[a] >= TouchInterval) /\ quiet'[a] = 0
        BY <1>0, <1>5, <3>3 DEF TouchDue, TypeOK
      <4> QED
        BY <3>0, <4>1
    <3> QED
      BY <3>1, <3>2, <3>3
  <2> QED
    BY <1>0, <2>2, <2>3 DEF Ages, Debounced, TypeOK
<1> QED
  BY <1>4, <1>5 DEF Authenticate

\* The touch is written, or lost.
LEMMA TouchAges ==
    ASSUME IInv, NEW c \in Clients, TouchToken(c)
    PROVE  Ages'
<1> DEFINE u == req[c].token[2]
<1>0. /\ TypeOK /\ UNCHANGED quiet /\ Goto(c, "lookup") /\ req[c].token \in {"agent"} \X Agents
  BY DEF IInv, TouchToken, Passed
<1>1. u \in Agents /\ req[c].token = <<"agent", u>>
  BY <1>0
<1>2. \A d \in Clients : d # c => req'[d] = req[d]
  BY <1>0, Moved DEF Places
<1>3. ASSUME NEW a \in Agents, a # u, BeingTouched(a) PROVE BeingTouched(a)'
  <2>1. PICK d \in Clients : req[d].pc = "touch" /\ req[d].token = <<"agent", a>>
    BY <1>3 DEF BeingTouched
  <2>2. d # c
    BY <1>1, <1>3, <2>1
  <2> QED
    BY <1>2, <2>1, <2>2 DEF BeingTouched
<1>4. CASE age' = [age EXCEPT ![u] = 0] /\ lost' = lost \ {u}
  <2>1. age' \in [Agents -> Nat] /\ lost' \in SUBSET Agents
    BY <1>0, <1>4 DEF TypeOK
  <2>2. ASSUME NEW a \in Agents PROVE age'[a] < quiet[a] + TouchInterval \/ a \in lost' \/ BeingTouched(a)'
    <3>0. /\ age[a] \in Nat /\ quiet[a] \in Nat /\ TouchInterval \in Nat \ {0}
          /\ age[a] < quiet[a] + TouchInterval \/ a \in lost \/ BeingTouched(a)
      BY AgeTypes
    <3>1. CASE a = u
      <4>1. age'[a] = 0
        BY <1>0, <1>4, <3>1 DEF TypeOK
      <4> QED
        BY <3>0, <4>1
    <3>2. CASE a # u
      <4>1. age'[a] = age[a] /\ (a \in lost => a \in lost')
        BY <1>0, <1>4, <3>2 DEF TypeOK
      <4> QED
        BY <1>3, <3>0, <3>2, <4>1
    <3> QED
      BY <3>1, <3>2
  <2> QED
    BY <1>0, <2>1, <2>2 DEF Ages, Debounced, TypeOK
<1>5. CASE UNCHANGED age /\ lost' = lost \cup {u}
  <2>1. \A a \in Agents : age[a] < quiet[a] + TouchInterval \/ a \in lost \/ BeingTouched(a)
    BY DEF IInv, Debounced
  <2> HIDE DEF u
  <2> QED
    BY <1>0, <1>1, <1>3, <1>5, <2>1 DEF Ages, Debounced, TypeOK
<1> QED
  BY <1>4, <1>5 DEF TouchToken

LEMMA AgesInv == ASSUME IInv, Next PROVE Ages'
<1>0. TypeOK /\ Watch
  BY DEF IInv, Next
<1>1. CASE Administer
  <2>1. Tick \/ UNCHANGED <<age, quiet, lost>>
    BY <1>1 DEF Administer, HandleRegister, HandleLogin, HandleCreateToken, RunTokenCreate, HandleRevokeToken,
           RunTokenRevoke, HandleCreateSSHKey, HandleDeleteSSHKey, RevokeStaleAgentTokens, CreateRepo, HideRepo,
           DeleteRepo, SetRepoVisibility, HandleAddMember, HandleRemoveMember, accountVars
  <2>2. req' = req
    BY <1>0, <1>1, AdministerStep DEF Administered
  <2>3. CASE UNCHANGED <<age, quiet, lost>>
    BY <2>2, <2>3 DEF Ages, IInv, TypeOK, Debounced, BeingTouched
  <2> QED
    BY <2>1, <2>3, TickAges
<1>2. ASSUME NEW c \in Clients, Arrive(c) \/ Serve(c) \/ \E k \in Keys : Handshake(c, k)
      PROVE  Ages'
  <2>1. Authenticate(c) \/ TouchToken(c) \/ UNCHANGED <<age, quiet, lost>>
    BY <1>2 DEF Serve, Arrive, Handshake, WithBasicAuth, LookupRepo, RepoIsPrivate, GitIdentity, CheckAccess,
                CheckMember, CheckWrite, CheckRole, QueryFails, Handle, HandleInfoRefs, RunGitOverSSH,
                Answered, accountVars
  <2>2. TouchToken(c) \/ req[c].pc # "touch"
    BY <1>2 DEF Serve, Arrive, Handshake, WithBasicAuth, Authenticate, LookupRepo, RepoIsPrivate, GitIdentity,
                CheckAccess, CheckMember, CheckWrite, CheckRole, QueryFails, Handle, HandleInfoRefs,
                RunGitOverSSH, Answered
  <2>3. \A d \in Clients : d # c => req'[d] = req[d]
    BY <1>0, <1>2, RequestStep DEF Upheld
  <2>4. CASE req[c].pc # "touch" /\ UNCHANGED <<age, quiet, lost>>
    <3>1. \A a \in Agents : BeingTouched(a) => BeingTouched(a)'
      BY <2>3, <2>4, TouchesStay
    <3> QED
      BY <2>4, <3>1 DEF Ages, IInv, TypeOK, Debounced
  <2> QED
    BY <2>1, <2>2, <2>4, UseAges, TouchAges
<1> QED
  BY <1>1, <1>2 DEF Next

-----------------------------------------------------------------------------
(* The theorems                                                            *)

LEMMA InitInv == Init => IInv
<1> SUFFICES ASSUME Init PROVE IInv
  OBVIOUS
<1>1. TRUE \in BOOLEAN /\ FALSE \in BOOLEAN /\ 0 \in Nat
  OBVIOUS
<1>2. RequestTypeOK
  BY <1>1 DEF Init, RequestTypeOK, Idle, Tokens, NoRepo, Places
<1>3. tokens \in [TokenNames -> [state : {"none", "live", "revoked"}, linked : BOOLEAN]]
  BY <1>1 DEF Init
<1>4. repo \in [id : Nat, private : BOOLEAN] /\ ids \in Nat
  BY <1>1 DEF Init, NoRepo
<1>5. TypeOK
  BY <1>1, <1>2, <1>3, <1>4 DEF Init, TypeOK, StateTypeOK, Tokens
<1>6. Debounced
  BY TouchAssumption DEF Init, Debounced
<1>7. \A c \in Clients : Passed(c) /\ Justified(c)
  BY DEF Init, Passed, Justified, Idle, Checks, Known, Admitted
<1> QED
  BY <1>5, <1>6, <1>7 DEF IInv

LEMMA NextInv == IInv /\ [Next]_vars => IInv'
<1> SUFFICES ASSUME IInv, [Next]_vars PROVE IInv'
  OBVIOUS
<1>1. CASE Next
  <2>0. Ages' /\ TypeOK /\ Watch
    BY <1>1, AgesInv DEF IInv, Next
  <2>1. CASE Administer
    <3>1. StateTypeOK' /\ Steady /\ req' = req
      BY <2>0, <2>1, AdministerStep DEF Administered
    <3>2. \A c \in Clients : Passed(c)' /\ Justified(c)'
      BY <2>0, <3>1, OtherRequests
    <3>3. TypeOK'
      BY <2>0, <3>1 DEF TypeOK, RequestTypeOK, Ages
    <3> QED
      BY <2>0, <3>2, <3>3 DEF IInv, Ages
  <2>2. ASSUME NEW c \in Clients, Arrive(c) \/ Serve(c) \/ \E k \in Keys : Handshake(c, k)
        PROVE  IInv'
    <3>1. Upheld(c)
      BY <2>0, <2>2, RequestStep
    <3>2. StateTypeOK' /\ Steady
      BY <2>0, <2>2, RequestTyped
    <3>3. \A d \in Clients : Passed(d)' /\ Justified(d)'
      BY <2>0, <3>1, <3>2, OtherRequests DEF Upheld
    <3>4. TypeOK'
      BY <2>0, <3>1, <3>2 DEF TypeOK, Ages, Upheld
    <3> QED
      BY <2>0, <3>3, <3>4 DEF IInv, Ages
  <2> QED
    BY <1>1, <2>1, <2>2 DEF Next
<1>2. CASE UNCHANGED vars
  <2>1. TypeOK'
    BY <1>2 DEF vars, IInv, TypeOK, StateTypeOK, RequestTypeOK
  <2>2. Debounced'
    BY <1>2 DEF vars, IInv, Debounced, BeingTouched
  <2>3. ASSUME NEW c \in Clients PROVE Passed(c)' /\ Justified(c)'
    <3>0. /\ req' = req /\ seen' = seen /\ tokens' = tokens /\ repo' = repo
          /\ scenario' = scenario /\ faults' = faults
      BY <1>2 DEF vars
    <3>1. /\ Permitted(c)' <=> Permitted(c)
          /\ Keyed(c)' <=> Keyed(c)
          /\ Gone(c)' <=> Gone(c)
          /\ Admitted(c)' <=> Admitted(c)
          /\ Principal(req[c].token)' = Principal(req[c].token)
      BY <3>0 DEF Permitted, Keyed, Gone, Principal, Admitted
    <3>2. Passed(c) /\ Justified(c)
      BY DEF IInv
    <3> QED
      BY <3>0, <3>1, <3>2 DEF Passed, Justified
  <2> QED
    BY <2>1, <2>2, <2>3 DEF IInv
<1> QED
  BY <1>1, <1>2

\* Users, tokens, keys, members and requests keep their shapes.
THEOREM TypeCorrect == Spec => []TypeOK
<1>1. IInv => TypeOK
  BY DEF IInv
<1> QED
  BY <1>1, InitInv, NextInv, PTL DEF Spec

\* Whatever becomes of tokens, accounts, members, visibility and the
\* registration while requests pass withAuth, withRepoAccess, withBasicAuth and
\* withGitRepoAccess query by query, and whichever queries fail, what is served
\* is what the code permits and what is refused is not, by what was true in the
\* course of the request.
THEOREM AnswersAreJustified == Spec => []AnswersJustified
<1>1. IInv => AnswersJustified
  <2> SUFFICES ASSUME IInv, NEW c \in Clients
               PROVE  /\ req[c].pc = "served" =>
                           CASE req[c].via = "api" -> "in" \in seen[c] /\ ("absent" \in seen[c] \/ Permitted(c))
                             [] req[c].via = "git" -> /\ Keyed(c)
                                                      /\ \/ seen[c] \cap {"public", "absent"} # {}
                                                         \/ "in" \in seen[c] /\ Permitted(c)
                             [] req[c].via = "ssh" -> "in" \in seen[c]
                      /\ req[c].pc = "refused" =>
                           \/ seen[c] \cap {"out", "absent"} # {}
                           \/ {"private", "no role"} \subseteq seen[c]
                           \/ req[c].write /\ "no write role" \in seen[c]
                           \/ req[c].via = "git" /\ ~Keyed(c)
                           \/ req[c].via # "api" /\ faults > 0
    BY DEF AnswersJustified
  <2>1. req[c].via \in {"api", "git", "ssh"} /\ Justified(c)
    BY RequestFields DEF IInv
  <2> QED
    BY <2>1 DEF Justified
<1> QED
  BY <1>1, InitInv, NextInv, PTL DEF Spec

\* Whatever the lifetime and the debounce interval, a token that
\* RevokeStaleAgentTokens takes has not passed withAuth for the lifetime less one
\* interval, unless its touch is still to be written or was lost.
THEOREM ReaperIsPatient == Spec => ReaperSparesActive
<1> DEFINE Spares == \A a \in Agents :
                       RevokeStaleAgentTokens /\ a \in Stale =>
                           quiet[a] + TouchInterval > Ttl \/ a \in lost \/ BeingTouched(a)
<1>1. IInv => Spares
  <2> SUFFICES ASSUME IInv, NEW a \in Agents, a \in Stale
               PROVE  quiet[a] + TouchInterval > Ttl \/ a \in lost \/ BeingTouched(a)
    OBVIOUS
  <2>1. /\ age[a] >= Ttl /\ Ttl \in Nat
        /\ age[a] < quiet[a] + TouchInterval \/ a \in lost \/ BeingTouched(a)
        /\ age[a] \in Nat /\ quiet[a] \in Nat /\ TouchInterval \in Nat
    BY TtlNat, AgeTypes DEF IInv, Stale
  <2> QED
    BY <2>1
<1>2. Spec => [][Spares]_vars
  BY <1>1, InitInv, NextInv, PTL DEF Spec
<1> QED
  BY <1>2 DEF ReaperSparesActive
=============================================================================
