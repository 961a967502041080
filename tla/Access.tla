------------------------------- MODULE Access -------------------------------
(***************************************************************************)
(* Accounts, tokens, SSH keys and members, and the two gates in front of   *)
(* one repository: withAuth with withRepoAccess on /api, and withBasicAuth *)
(* with withGitRepoAccess on git over HTTP.  A request passes its gate in  *)
(* several queries on the read pool, and handlers resolve the name again;  *)
(* accounts, tokens, members, visibility and the registration itself       *)
(* change in between.  Handlers that change them are one step each: their  *)
(* own passage through the gate is that of any other request.              *)
(*                                                                         *)
(* Tokens are named after a user, a user's session or an agent.  Age is    *)
(* counted in ticks, for the agents' tokens, which the reaper revokes.     *)
(*                                                                         *)
(* Source: internal/server/{access,auth,auth_accounts,members,tokens,      *)
(* ssh_keys,ssh,repos}.go, internal/storage/{tokens,users,repo_members,    *)
(* ssh_keys}.go, cmd/codefortd/main.go (runTokenReaper).                   *)
(***************************************************************************)
EXTENDS Naturals, FiniteSets, FiniteSetsExt

CONSTANTS
    Users,           \* user names
    Owner,           \* the owner in the repository's name
    Agents,          \* the n of agent#<n>
    Keys,            \* SSH public keys
    Clients,         \* requests in flight
    TouchInterval,   \* tokenTouchInterval in ticks
    Scenarios        \* what is in play: see scenario

ASSUME OwnerAssumption == Owner \in Users
ASSUME TouchAssumption == TouchInterval \in Nat \ {0}

NoRepo == 0
Nobody == "nobody"
NoToken == <<"none", Nobody>>
\* The one credential of CODEFORT_BASIC_USER and CODEFORT_BASIC_PASS.
SharedPair == <<"shared", Nobody>>
TokenNames == ({"own", "session"} \X Users) \cup ({"agent"} \X Agents)

\* A scenario: the accounts there are at the start, with their first tokens; the
\* names for which tokens are minted; the SSH keys that are registered; the users
\* made members; the bound on the registrations of the repository; cfg.AgentTokenTTL
\* in ticks, 0 for no reaper; whether cfg.BasicUser is set; the bound on the
\* database's failures.
ScenarioRecords ==
    [registered : SUBSET Users, names : SUBSET TokenNames, keys : SUBSET Keys, invited : SUBSET Users,
     repos : Nat, ttl : Nat, basic : BOOLEAN, faults : Nat]
ASSUME ScenariosAssumption == \A s \in Scenarios : s \in ScenarioRecords

VARIABLES
    scenario,  \* a member of Scenarios, chosen at the start
    users,     \* users: [Users -> "none", "bare" (no password) or "password"]
    tokens,    \* tokens: [TokenNames -> [state, linked]]; linked: user_id is set
    age,       \* [Agents -> ticks since last_used_at, or created_at without it]
    fresh,     \* [Agents -> last_used_at is NULL]
    keys,      \* ssh_keys: [Keys -> a token name or NoToken]
    repo,      \* [id, private]; id is NoRepo when the name is not registered
    ids,       \* the AUTOINCREMENT counter of repos
    hide,      \* the ids of new repositories still to be made private
    members,   \* repo_members: [Users -> "none", "read" or "write"]
    req,       \* [Clients -> [pc, via, write, token, id]]
    faults,    \* the database's failures so far
    quiet,     \* history: [Agents -> ticks since the token last passed withAuth]
    lost,      \* history: agents whose last touch was not written
    seen       \* history: [Clients -> what has been true since the request came]

vars == <<scenario, users, tokens, age, fresh, keys, repo, ids, hide, members,
          req, faults, quiet, lost, seen>>
accountVars == <<scenario, users, tokens, age, fresh, keys, quiet, lost>>
repoVars == <<repo, ids, hide, members>>

Idle == [pc |-> "idle", via |-> "api", write |-> FALSE, token |-> NoToken, id |-> NoRepo]

Ttl == scenario.ttl
Live(t) == t \in TokenNames /\ tokens[t].state = "live"
DatabaseFails == faults < scenario.faults /\ faults' = faults + 1
SomeoneIsIn == \E t \in TokenNames : Live(t)

-----------------------------------------------------------------------------
(* Tokens and accounts                                                     *)

\* INSERT INTO tokens: a name, once taken, is taken for good.
CreateToken(t, linked) ==
    /\ t \in scenario.names /\ tokens[t].state = "none"
    /\ tokens' = [tokens EXCEPT ![t] = [state |-> "live", linked |-> linked]]

Revoke(t) ==
    /\ tokens[t].state # "none"
    /\ tokens' = [tokens EXCEPT ![t].state = "revoked"]

\* RegisterUser: the account and its first token, in one transaction.
RegisterUser(u) ==
    /\ users[u] = "none"
    /\ users' = [users EXCEPT ![u] = "password"]
    /\ CreateToken(<<"own", u>>, TRUE)

HandleRegister(u) ==
    /\ RegisterUser(u)
    /\ UNCHANGED <<scenario, age, fresh, keys, quiet, lost, repoVars, req, faults>>

\* LoginUser: every session's token has the same name, so only the first of an
\* account succeeds.
LoginUser(u) == users[u] = "password" /\ CreateToken(<<"session", u>>, TRUE)

HandleLogin(u) ==
    /\ LoginUser(u)
    /\ UNCHANGED <<scenario, users, age, fresh, keys, quiet, lost, repoVars, req, faults>>

\* POST /api/tokens, by any live token; the new one has no account.
HandleCreateToken(t) ==
    /\ SomeoneIsIn /\ CreateToken(t, FALSE)
    /\ UNCHANGED <<scenario, users, age, fresh, keys, quiet, lost, repoVars, req, faults>>

\* codefortd token create on the server, and the launch of an agent.
RunTokenCreate(t) ==
    /\ CreateToken(t, FALSE)
    /\ UNCHANGED <<scenario, users, age, fresh, keys, quiet, lost, repoVars, req, faults>>

HandleRevokeToken(t) ==
    /\ SomeoneIsIn /\ Revoke(t)
    /\ UNCHANGED <<scenario, users, age, fresh, keys, quiet, lost, repoVars, req, faults>>

RunTokenRevoke(t) ==
    /\ Revoke(t)
    /\ UNCHANGED <<scenario, users, age, fresh, keys, quiet, lost, repoVars, req, faults>>

Stale == {a \in Agents : Live(<<"agent", a>>) /\ age[a] >= Ttl}

\* RevokeStaleAgentTokens, at every interval of runTokenReaper.
RevokeStaleAgentTokens ==
    /\ Ttl > 0 /\ Stale # {}
    /\ tokens' = [t \in TokenNames |->
                    IF t[1] = "agent" /\ t[2] \in Stale
                    THEN [tokens[t] EXCEPT !.state = "revoked"] ELSE tokens[t]]
    /\ UNCHANGED <<scenario, users, age, fresh, keys, quiet, lost, repoVars, req, faults>>

Older(n) == Min({n + 1, Ttl})

Tick ==
    /\ Ttl > 0
    /\ age' = [a \in Agents |-> IF Live(<<"agent", a>>) THEN Older(age[a]) ELSE age[a]]
    /\ quiet' = [a \in Agents |-> IF Live(<<"agent", a>>) THEN Older(quiet[a]) ELSE quiet[a]]
    /\ UNCHANGED <<scenario, users, tokens, fresh, keys, lost, repoVars, req, faults>>

\* A fingerprint is registered once, for the caller's own token ...
AddSSHKey(k, t) == k \in scenario.keys /\ keys[k] = NoToken /\ keys' = [keys EXCEPT ![k] = t]

HandleCreateSSHKey(k, t) ==
    /\ Live(t) /\ AddSSHKey(k, t)
    /\ UNCHANGED <<scenario, users, tokens, age, fresh, quiet, lost, repoVars, req, faults>>

\* ... and deleted by that token only.
DeleteSSHKey(k, t) == keys[k] = t /\ keys' = [keys EXCEPT ![k] = NoToken]

HandleDeleteSSHKey(k, t) ==
    /\ Live(t) /\ DeleteSSHKey(k, t)
    /\ UNCHANGED <<scenario, users, tokens, age, fresh, quiet, lost, repoVars, req, faults>>

-----------------------------------------------------------------------------
(* The repository                                                          *)

\* Slip: the token's name in place of its account.
NameOf(t) == IF t[1] = "own" THEN t[2] ELSE Nobody

\* principalFromContext and gitIdentity: the account, else the token's name.
Principal(t) == IF t[1] = "own" \/ (t[1] = "session" /\ tokens[t].linked) THEN t[2] ELSE Nobody

IsMember(p, roles) == p \in Users /\ members[p] \in roles

\* CanAccessRepo and CanWriteRepo
CanAccessRepo(p) == ~repo.private \/ p = Owner \/ IsMember(p, {"read", "write"})
CanWriteRepo(p) == p = Owner \/ IsMember(p, {"write"})

\* A live token that passes the API gate for a write, and one of the owner's
\* name (identityFromContext), which managing members takes.
Writer == \E t \in TokenNames : Live(t) /\ CanAccessRepo(Principal(t)) /\ CanWriteRepo(Principal(t))
OwnerIsIn == Live(<<"own", Owner>>)

\* handleCreateRepo, by any live token: the new row is public, ...
CreateRepo(private) ==
    /\ SomeoneIsIn /\ repo.id = NoRepo /\ ids < scenario.repos
    /\ repo' = [id |-> ids + 1, private |-> FALSE]
    /\ ids' = ids + 1
    /\ hide' = IF private THEN hide \cup {ids + 1} ELSE hide
    /\ users' = [users EXCEPT ![Owner] = IF @ = "none" THEN "bare" ELSE @]
    /\ UNCHANGED <<scenario, tokens, age, fresh, keys, quiet, lost, members, req, faults>>

\* ... and made private by a second write, which may find the row gone.  If it
\* fails, the error is logged and the repository stays public.
HideRepo(id) ==
    /\ id \in hide
    /\ hide' = hide \ {id}
    /\ \/ repo' = (IF repo.id = id THEN [repo EXCEPT !.private = TRUE] ELSE repo) /\ UNCHANGED faults
       \/ DatabaseFails /\ UNCHANGED repo
    /\ UNCHANGED <<accountVars, ids, members, req>>

\* handleDeleteRepo: members go with the row.
DeleteRepo ==
    /\ repo.id # NoRepo /\ Writer
    /\ repo' = [id |-> NoRepo, private |-> FALSE]
    /\ members' = [u \in Users |-> "none"]
    /\ UNCHANGED <<accountVars, ids, hide, req, faults>>

\* handleUpdateRepo: visibility.
SetRepoVisibility ==
    /\ repo.id # NoRepo /\ Writer
    /\ repo' = [repo EXCEPT !.private = ~@]
    /\ UNCHANGED <<accountVars, ids, hide, members, req, faults>>

\* handleAddMember, which also changes a role, and handleRemoveMember.
HandleAddMember(u, role) ==
    /\ u \in scenario.invited /\ repo.id # NoRepo /\ OwnerIsIn
    /\ users[u] # "none"
    /\ members' = [members EXCEPT ![u] = role]
    /\ UNCHANGED <<accountVars, repo, ids, hide, req, faults>>

HandleRemoveMember(u) ==
    /\ repo.id # NoRepo /\ OwnerIsIn
    /\ members[u] # "none"
    /\ members' = [members EXCEPT ![u] = "none"]
    /\ UNCHANGED <<accountVars, repo, ids, hide, req, faults>>

-----------------------------------------------------------------------------
(* Requests                                                                *)

Goto(c, pc) == req' = [req EXCEPT ![c].pc = pc]

\* What a request can carry: a token that was minted, the shared pair, nothing.
Credentials ==
    {t \in TokenNames : tokens[t].state # "none"} \cup {NoToken}
    \cup {t \in {SharedPair} : scenario.basic}

Arrive(c) ==
    /\ req[c].pc = "idle"
    /\ \E via \in {"api", "git"}, write \in BOOLEAN, t \in Credentials :
        req' = [req EXCEPT ![c] = [pc |-> IF via = "api" THEN "auth" ELSE "basic",
                                   via |-> via, write |-> write, token |-> t, id |-> NoRepo]]
    /\ UNCHANGED <<accountVars, repoVars, faults>>

\* withBasicAuth, in front of git: with cfg.BasicUser set, whoever presents a
\* token instead of the shared pair is turned away.
WithBasicAuth(c) ==
    /\ req[c].pc = "basic"
    /\ Goto(c, IF scenario.basic /\ req[c].token # SharedPair THEN "refused" ELSE "lookup")
    /\ UNCHANGED <<accountVars, repoVars, faults>>

\* Slip: only the first use is recorded.
TouchOnce(a) == fresh[a]

\* The debounce of last_used_at.
TouchDue(a) == fresh[a] \/ age[a] >= TouchInterval

\* withAuth: LookupToken, which is the use of the token, ...
Authenticate(c) ==
    /\ req[c].pc = "auth"
    /\ LET t == req[c].token IN
       IF ~Live(t) THEN Goto(c, "refused") /\ UNCHANGED quiet
       ELSE IF t[1] # "agent" THEN Goto(c, "lookup") /\ UNCHANGED quiet
       ELSE /\ Goto(c, IF TouchDue(t[2]) THEN "touch" ELSE "lookup")
            /\ quiet' = [quiet EXCEPT ![t[2]] = 0]
    /\ UNCHANGED <<scenario, users, tokens, age, fresh, keys, lost, repoVars, faults>>

\* ... then TouchToken when it is due, whose failure is ignored.
TouchToken(c) ==
    /\ req[c].pc = "touch"
    /\ LET a == req[c].token[2] IN
       \/ /\ age' = [age EXCEPT ![a] = 0]
          /\ fresh' = [fresh EXCEPT ![a] = FALSE]
          /\ lost' = lost \ {a}
          /\ UNCHANGED faults
       \/ /\ DatabaseFails
          /\ lost' = lost \cup {a}
          /\ UNCHANGED <<age, fresh>>
    /\ Goto(c, "lookup")
    /\ UNCHANGED <<scenario, users, tokens, keys, quiet, repoVars>>

\* Both gates begin with LookupRepo: a name that is not registered passes.
LookupRepo(c) ==
    /\ req[c].pc = "lookup"
    /\ req' = [req EXCEPT ![c].id = repo.id,
                          ![c].pc = IF repo.id = NoRepo THEN "handle"
                                   ELSE IF req[c].via = "api" THEN "read" ELSE "private"]
    /\ UNCHANGED <<accountVars, repoVars, faults>>

\* A check whose row has gone since the lookup is an internal error.
Gone(c) == repo.id # req[c].id

\* withGitRepoAccess: public repositories are open, a private one takes a token.
RepoIsPrivate(c) ==
    /\ req[c].pc = "private"
    /\ Goto(c, IF Gone(c) THEN "failed" ELSE IF repo.private THEN "identity" ELSE "handle")
    /\ UNCHANGED <<accountVars, repoVars, faults>>

GitIdentity(c) ==
    /\ req[c].pc = "identity"
    /\ Goto(c, IF Live(req[c].token) THEN "read" ELSE "refused")
    /\ UNCHANGED <<accountVars, repoVars, faults>>

AfterRead(c) == IF req[c].write THEN "write" ELSE "handle"

\* CanAccessRepo: its first query reads the visibility and the owner, ...
CheckAccess(c) ==
    /\ req[c].pc = "read"
    /\ Goto(c, IF Gone(c) THEN "failed"
               ELSE IF ~repo.private \/ Principal(req[c].token) = Owner THEN AfterRead(c)
               ELSE "member")
    /\ UNCHANGED <<accountVars, repoVars, faults>>

\* ... its second counts the member's rows, of which a deleted repository has none.
CheckMember(c) ==
    /\ req[c].pc = "member"
    /\ Goto(c, IF ~Gone(c) /\ IsMember(Principal(req[c].token), {"read", "write"})
               THEN AfterRead(c) ELSE "refused")
    /\ UNCHANGED <<accountVars, repoVars, faults>>

\* CanWriteRepo, likewise: the owner, ...
CheckWrite(c) ==
    /\ req[c].pc = "write"
    /\ Goto(c, IF Gone(c) THEN "failed"
               ELSE IF Principal(req[c].token) = Owner THEN "handle" ELSE "role")
    /\ UNCHANGED <<accountVars, repoVars, faults>>

\* ... then the rows with the role.
CheckRole(c) ==
    /\ req[c].pc = "role"
    /\ Goto(c, IF ~Gone(c) /\ IsMember(Principal(req[c].token), {"write"}) THEN "handle" ELSE "refused")
    /\ UNCHANGED <<accountVars, repoVars, faults>>

\* A query of a gate, or of the handler's lookup, fails: an internal error,
\* except that gitIdentity takes it for a credential that is not good.
QueryFails(c) ==
    /\ \/ req[c].pc \in {"auth", "lookup", "private", "identity", "read", "member", "write", "role"}
       \/ req[c].pc = "handle" /\ req[c].via = "api"
    /\ DatabaseFails
    /\ Goto(c, IF req[c].pc = "identity" THEN "refused" ELSE "failed")
    /\ UNCHANGED <<accountVars, repoVars>>

Found(c) == Goto(c, IF repo.id = NoRepo THEN "refused" ELSE "served")

\* An API handler resolves the name once more (lookupRepoOrFail), ...
Handle(c) ==
    /\ req[c].pc = "handle" /\ req[c].via = "api"
    /\ Found(c)
    /\ UNCHANGED <<accountVars, repoVars, faults>>

\* ... handleInfoRefs and handleServiceRPC by the directory.
HandleInfoRefs(c) ==
    /\ req[c].pc = "handle" /\ req[c].via = "git"
    /\ Found(c)
    /\ UNCHANGED <<accountVars, repoVars, faults>>

\* LookupTokenBySSHKey
KeyIsGood(k) == Live(keys[k])

\* The SSH handshake looks the key's token up, and nothing after it does.
Handshake(c, k) ==
    /\ req[c].pc = "idle"
    /\ \E write \in BOOLEAN, pc \in {"session", "refused"} :
        /\ \/ pc = (IF KeyIsGood(k) THEN "session" ELSE "refused") /\ UNCHANGED faults
           \/ pc = "refused" /\ DatabaseFails
        /\ req' = [req EXCEPT ![c] = [pc |-> pc, via |-> "ssh", write |-> write, token |-> keys[k], id |-> NoRepo]]
    /\ UNCHANGED <<accountVars, repoVars>>

\* handleSSHSession and runGitOverSSH: the repository's directory.
RunGitOverSSH(c) ==
    /\ req[c].pc = "session"
    /\ Found(c)
    /\ UNCHANGED <<accountVars, repoVars, faults>>

Answered(c) ==
    /\ req[c].pc \in {"served", "refused", "failed"}
    /\ req' = [req EXCEPT ![c] = Idle]
    /\ UNCHANGED <<accountVars, repoVars, faults>>

-----------------------------------------------------------------------------
(* What has been true while a request was under way                        *)

\* Whom a token speaks for: its account, or the user it is named after.
AccountOf(t) ==
    IF t \in {<<"own", u>> : u \in Users} THEN t[2]
    ELSE IF t \in TokenNames /\ t[1] = "session" /\ tokens[t].linked THEN t[2] ELSE Nobody

RoleOf(t) ==
    IF AccountOf(t) = Owner THEN "owner" ELSE IF AccountOf(t) \in Users THEN members[AccountOf(t)] ELSE "none"

Facts(c) ==
    LET t == req[c].token IN
    {IF Live(t) THEN "in" ELSE "out"}
    \cup (IF repo.id = NoRepo THEN {"absent"}
          ELSE {IF repo.private THEN "private" ELSE "public"}
               \cup {f \in {"may read"} : ~repo.private \/ RoleOf(t) # "none"}
               \cup {f \in {"no role"} : RoleOf(t) = "none"}
               \cup {IF RoleOf(t) \in {"owner", "write"} THEN "may write" ELSE "no write role"})

Watch == seen' = [c \in Clients |-> IF req'[c].pc = "idle" THEN {} ELSE seen[c] \cup Facts(c)']

Init ==
    /\ scenario \in Scenarios
    /\ users = [u \in Users |-> IF u \in scenario.registered THEN "password" ELSE "none"]
    /\ tokens = [t \in TokenNames |->
                   IF t[1] = "own" /\ t[2] \in scenario.registered
                   THEN [state |-> "live", linked |-> TRUE]
                   ELSE [state |-> "none", linked |-> FALSE]]
    /\ age = [a \in Agents |-> 0] /\ fresh = [a \in Agents |-> TRUE]
    /\ quiet = [a \in Agents |-> 0] /\ lost = {} /\ faults = 0
    /\ keys = [k \in Keys |-> NoToken]
    /\ repo = [id |-> NoRepo, private |-> FALSE] /\ ids = 0 /\ hide = {}
    /\ members = [u \in Users |-> "none"]
    /\ req = [c \in Clients |-> Idle] /\ seen = [c \in Clients |-> {}]

Administer ==
    \/ \E u \in Users : HandleRegister(u) \/ HandleLogin(u)
    \/ \E t \in TokenNames :
        \/ HandleCreateToken(t) \/ RunTokenCreate(t) \/ HandleRevokeToken(t) \/ RunTokenRevoke(t)
        \/ \E k \in Keys : HandleCreateSSHKey(k, t) \/ HandleDeleteSSHKey(k, t)
    \/ RevokeStaleAgentTokens \/ Tick
    \/ \E p \in BOOLEAN : CreateRepo(p)
    \/ \E id \in hide : HideRepo(id)
    \/ DeleteRepo \/ SetRepoVisibility
    \/ \E u \in Users : HandleRemoveMember(u) \/ \E role \in {"read", "write"} : HandleAddMember(u, role)

Serve(c) ==
    \/ WithBasicAuth(c) \/ Authenticate(c) \/ TouchToken(c)
    \/ LookupRepo(c) \/ RepoIsPrivate(c) \/ GitIdentity(c)
    \/ CheckAccess(c) \/ CheckMember(c) \/ CheckWrite(c) \/ CheckRole(c) \/ QueryFails(c)
    \/ Handle(c) \/ HandleInfoRefs(c) \/ RunGitOverSSH(c) \/ Answered(c)

Next ==
    /\ \/ Administer
       \/ \E c \in Clients : Arrive(c) \/ Serve(c) \/ \E k \in Keys : Handshake(c, k)
    /\ Watch

Spec == Init /\ [][Next]_vars

-----------------------------------------------------------------------------
(* Properties                                                              *)

\* What a request has met that reads, or reads and writes, the repository; and
\* the shared pair, where one is set.
Permitted(c) == "may read" \in seen[c] /\ (req[c].write => "may write" \in seen[c])
Keyed(c) == scenario.basic => req[c].token = SharedPair

\* What the gates let through was permitted, and what they turn away was not, by
\* what was true between a request's arrival and its answer: for the account a
\* token speaks for, a browser session's included, whatever becomes of tokens,
\* members, visibility and the repository in between.  Permitted is what the code
\* permits: writing through /api takes the owner or a member with the role, in a
\* public repository too; a git request takes the shared pair where one is set,
\* and is open to the public; over SSH the key's token is what counts.  The facts
\* of one answer may be of different moments: a caller who could read at each of
\* them is turned away if the repository was private first and made public before
\* the caller's membership went; and a name that was not registered at some moment
\* justifies either answer, as handlers resolve it again.
AnswersJustified ==
    \A c \in Clients :
        /\ req[c].pc = "served" =>
             CASE req[c].via = "api" -> "in" \in seen[c] /\ ("absent" \in seen[c] \/ Permitted(c))
               [] req[c].via = "git" -> /\ Keyed(c)
                                        /\ \/ seen[c] \cap {"public", "absent"} # {}
                                           \/ "in" \in seen[c] /\ Permitted(c)
               [] req[c].via = "ssh" -> "in" \in seen[c]
        /\ req[c].pc = "refused" =>
             \/ seen[c] \cap {"out", "absent"} # {}
             \/ {"private", "no role"} \subseteq seen[c]
             \/ req[c].write /\ "no write role" \in seen[c]
             \/ req[c].via = "git" /\ ~Keyed(c)
             \/ req[c].via # "api" /\ faults > 0

\* Between LookupToken and the write of last_used_at.
BeingTouched(a) == \E c \in Clients : req[c].pc = "touch" /\ req[c].token = <<"agent", a>>

\* "revokes idle per-agent session tokens": a token the reaper takes has not
\* passed withAuth for the whole of the lifetime less one debounce interval,
\* although most uses leave no trace in last_used_at.  The exceptions are the
\* code's: a use whose touch is not written yet, or failed, is unknown to the
\* reaper (and so is one over git or SSH, which are not counted here).
ReaperSparesActive ==
    [][\A a \in Agents :
         RevokeStaleAgentTokens /\ a \in Stale =>
             quiet[a] + TouchInterval > Ttl \/ a \in lost \/ BeingTouched(a)]_vars
=============================================================================
