---------------------------- MODULE ProjectClaims ----------------------------
(***************************************************************************)
(* Who may operate a project: the reservation rows of SqliteStateStore, the *)
(* calls of ControlService that take, renew and release them, and what an   *)
(* MCP session of McpRuntime keeps of its claims.                           *)
(*                                                                          *)
(* A human reservation has no expiry.  An agent's lease expires, and nothing *)
(* marks it when it does: rows are expired lazily by whoever looks next.    *)
(* claim_project and release_project_claim take turns on their project's    *)
(* chain (ProjectLifecycle.serialized) and await Git and the server there;  *)
(* renewals do not.                                                         *)
(***************************************************************************)
EXTENDS Naturals, FiniteSets

CONSTANTS
  Projects, Worktrees,
  Keys,        \* idempotency keys
  Sessions,    \* MCP sessions, each the owner of its claims
  Human,       \* the owner "local-user"
  TTLs,        \* values of ttlSeconds, the code's 30..1800
  DefaultTTL,  \* AGENT_LEASE_DEFAULT_SECONDS
  MaxLife,     \* AGENT_LEASE_MAX_SECONDS
  IdleLimit,   \* claimRenewalIdleMs
  NRows,       \* bound: reservations ever made
  NCalls,      \* bound: queued calls ever made
  MaxTime      \* bound: the last moment

ASSUME ClaimsAssumption ==
  /\ Human \notin Sessions
  /\ TTLs \subseteq Nat \ 0..2 /\ DefaultTTL \in TTLs
  /\ \A t \in TTLs : t <= DefaultTTL
  /\ MaxLife \in Nat /\ DefaultTTL <= MaxLife
  /\ IdleLimit \in Nat \ {0}
  /\ NRows \in Nat /\ NCalls \in Nat /\ MaxTime \in Nat

VARIABLES
  now,
  res,      \* the reservation rows
  call,     \* the calls on the projects' chains, in the order they came
  tokens,   \* idempotencyTokens of each session
  handle,   \* a session's claims entry for each row, with its renewal timer
  last,     \* lastQualifyingActivityAt of each session
  stopped,  \* sessions whose renewal stopped for idleness
  closing   \* sessions that have begun to close

session == <<tokens, handle, last, stopped>>
vars == <<now, res, call, session, closing>>

Ids    == 1..NRows
Calls  == 1..NCalls
Tokens == 0..NCalls              \* a token is the number of the call that drew it
Owners == Sessions \cup {Human}

Rows == [status : {"held", "released"}, project : Projects, worktree : Worktrees,
         owner : Owners, key : Keys \cup {Human}, token : Tokens,
         created : Nat, expires : Nat, maximum : Nat]
Free == [status |-> "free"]

Requests == [kind : {"claim", "release"}, stage : {"queued", "operating"},
             session : Sessions, project : Projects, worktree : Worktrees,
             key : Keys \cup {Human}, ttl : TTLs, token : Tokens, row : 0..NRows]
NoCall  == [stage |-> "unused"]
Done    == [stage |-> "done"]
Refused == [stage |-> "refused"]
Pending(c) == call[c].stage \in {"queued", "operating"}

Handles == [timer : {"armed", "stopped"}, due : Nat, ttl : TTLs]
NoHandle == [timer |-> "none"]

-----------------------------------------------------------------------------
(* Rows. *)

Expired(i) == res[i].owner # Human /\ res[i].expires <= now
Held(i)    == res[i].status = "held"
\* getEffectiveReservation(): what a reader takes for the reservation.
Effective(i) == Held(i) /\ ~Expired(i)

\* expireReservations() of one project.
Expire(p) == [i \in Ids |->
  IF Held(i) /\ res[i].project = p /\ Expired(i)
  THEN [res[i] EXCEPT !.status = "released"] ELSE res[i]]

\* Fault: only people's locks stand in the way of a claim.
HumanHeldOf(p) == {i \in Ids : Effective(i) /\ res[i].project = p /\ res[i].owner = Human}
\* Rows of p that are held once expired ones are released.
HeldOf(p) == {i \in Ids : Effective(i) /\ res[i].project = p}

\* The row under the owner's key, in any project: only rows of p were expired.
Repeated(p, s, k) ==
  {i \in Ids : /\ Held(i) /\ res[i].owner = s /\ res[i].key = k
               /\ res[i].project = p => ~Expired(i)}

NewId == CHOOSE i \in Ids : res[i] = Free
CanInsert == \E i \in Ids : res[i] = Free

Inserted(p, row) == [Expire(p) EXCEPT ![NewId] = row]

-----------------------------------------------------------------------------
(* The session's side. *)

\* One third of the TTL; the code's floor of ten seconds and cap of ten minutes
\* are the thirds of the least and the greatest TTL.
Delay(ttl) == ttl \div 3

Armed(ttl) == [timer |-> "armed", due |-> now + Delay(ttl), ttl |-> ttl]

\* Fault: a returning client resumes nothing.
NotWoken(h, s) == h
\* recordActivity() of an open session, applied to the claims h: renewals that
\* stopped for idleness resume at once.
Woken(h, s) == [i \in Ids |->
  IF s \in stopped /\ res[i] # Free /\ res[i].owner = s /\ h[i].timer = "stopped"
  THEN [h[i] EXCEPT !.timer = "armed", !.due = now] ELSE h[i]]
Active(s) == /\ last' = [last EXCEPT ![s] = now]
             /\ stopped' = stopped \ {s}

\* A call settles: activity unless the session began to close meanwhile.
Settled(s, h) ==
  IF s \in closing
  THEN handle' = h /\ UNCHANGED <<last, stopped>>
  ELSE handle' = Woken(h, s) /\ Active(s)

-----------------------------------------------------------------------------
(* Calls that take turns on a project's chain. *)

NextCall(c) == call[c] = NoCall /\ \A d \in Calls : call[d] = NoCall => c <= d

On(c, p) == Pending(c) /\ call[c].project = p
ChainFree(p) == \A d \in Calls : On(d, p) => call[d].stage # "operating"

\* The call is at the head of its project's chain.
Turn(c) ==
  /\ call[c].stage = "queued"
  /\ ChainFree(call[c].project)
  /\ \A d \in Calls : d < c /\ On(d, call[c].project) => call[d].stage # "queued"

\* claim_project arrives: the token is chosen now, the chain comes later.
ClaimArrives(c, s, p, w, k, ttl) ==
  /\ NextCall(c) /\ s \notin closing
  /\ call' = [call EXCEPT ![c] =
       [kind |-> "claim", stage |-> "queued", session |-> s, project |-> p,
        worktree |-> w, key |-> k, ttl |-> ttl, row |-> 0,
        token |-> IF tokens[s][<<p, k>>] # 0 THEN tokens[s][<<p, k>>] ELSE c]]
  /\ handle' = Woken(handle, s) /\ Active(s)
  /\ UNCHANGED <<now, res, tokens, closing>>

\* release_project_claim arrives with a claim this session has.
ReleaseArrives(c, s, i) ==
  /\ NextCall(c) /\ s \notin closing
  /\ handle[i] # NoHandle /\ res[i].owner = s
  /\ call' = [call EXCEPT ![c] =
       [kind |-> "release", stage |-> "queued", session |-> s,
        project |-> res[i].project, worktree |-> res[i].worktree, key |-> res[i].key,
        ttl |-> DefaultTTL, token |-> res[i].token, row |-> i]]
  /\ handle' = Woken(handle, s) /\ Active(s)
  /\ UNCHANGED <<now, res, tokens, closing>>

\* acquireReservation() for an agent: a new lease.
ClaimAcquires(c) ==
  LET r == call[c] IN
  /\ Turn(c) /\ r.kind = "claim"
  /\ Repeated(r.project, r.session, r.key) = {}
  /\ HeldOf(r.project) = {}
  /\ CanInsert
  /\ res' = Inserted(r.project,
       [status |-> "held", project |-> r.project, worktree |-> r.worktree,
        owner |-> r.session, key |-> r.key, token |-> r.token, created |-> now,
        expires |-> now + r.ttl, maximum |-> now + MaxLife])
  /\ call' = [call EXCEPT ![c].stage = "operating", ![c].row = NewId]
  /\ UNCHANGED <<now, session, closing>>

\* The same request again: the lease it made.
ClaimRepeats(c) ==
  LET r == call[c] IN
  /\ Turn(c) /\ r.kind = "claim"
  /\ \E i \in Repeated(r.project, r.session, r.key) :
       /\ res[i].project = r.project /\ res[i].worktree = r.worktree
       /\ res[i].token = r.token
       /\ call' = [call EXCEPT ![c].stage = "operating", ![c].row = i]
  /\ res' = Expire(r.project)
  /\ UNCHANGED <<now, session, closing>>

\* The key belongs to another lease, or the project to another owner: the
\* transaction is rolled back, the expiry of rows with it.
ClaimRefused(c) ==
  LET r == call[c] IN
  /\ Turn(c) /\ r.kind = "claim"
  /\ LET repeated == Repeated(r.project, r.session, r.key) IN
     \/ \E i \in repeated : \/ res[i].project # r.project
                            \/ res[i].worktree # r.worktree
                            \/ res[i].token # r.token
     \/ repeated = {} /\ HeldOf(r.project) # {}
  /\ call' = [call EXCEPT ![c] = Refused]
  /\ Settled(r.session, handle)
  /\ UNCHANGED <<now, res, tokens, closing>>

\* The server was operated, well or not: the session keeps the secret and arms
\* the renewal, unless it began to close.
ClaimReturns(c) ==
  LET r == call[c] IN
  /\ r.stage = "operating"
  /\ IF r.session \in closing
     THEN /\ call' = [call EXCEPT ![c] = Refused]
          /\ UNCHANGED <<tokens, handle, last, stopped>>
     ELSE /\ call' = [call EXCEPT ![c] = Done]
          /\ tokens' = [tokens EXCEPT ![r.session][<<r.project, r.key>>] = r.token]
          /\ Settled(r.session, [handle EXCEPT ![r.row] = Armed(r.ttl)])
  /\ UNCHANGED <<now, res, closing>>

\* releaseAgentClaim(): the claim is checked again in its turn.
ReleaseRuns(c) ==
  LET r == call[c] IN
  /\ Turn(c) /\ r.kind = "release"
  /\ IF r.row \in HeldOf(r.project) /\ res[r.row].token = r.token
     THEN /\ res' = [Expire(r.project) EXCEPT ![r.row].status = "released"]
          /\ call' = [call EXCEPT ![c] = Done]
          /\ Settled(r.session, [handle EXCEPT ![r.row] = NoHandle])
     ELSE /\ res' = Expire(r.project)
          /\ call' = [call EXCEPT ![c] = Refused]
          /\ Settled(r.session, handle)
  /\ UNCHANGED <<now, tokens, closing>>

-----------------------------------------------------------------------------
(* Renewals, outside the chain. *)

RenewedExpiry(i, ttl) == IF now + ttl <= res[i].maximum THEN now + ttl
                         ELSE res[i].maximum
\* Fault: finds the row without expiring it first.
RenewableUnexpired(i) == Held(i) /\ now < res[i].maximum
\* The row is found unreleased after expireReservations(), which had nothing to
\* release: a project has one unreleased row.
Renewable(i) == Effective(i) /\ now < res[i].maximum
Renewed(i, ttl) == [res EXCEPT ![i].expires = RenewedExpiry(i, ttl)]

\* Fault: renews while the session exists.
AllowedWhileOpen(s) == s \notin closing
\* renewalAllowed(): a client that called within the idle limit.
Allowed(s) == now - last[s] < IdleLimit

\* The renewal timer of a claim fires.
RenewalTimer(i) ==
  /\ handle[i].timer = "armed" /\ handle[i].due <= now
  /\ LET s == res[i].owner IN
     IF ~Allowed(s)
     THEN /\ stopped' = stopped \cup {s}
          /\ handle' = [handle EXCEPT ![i].timer = "stopped"]
          /\ UNCHANGED res
     ELSE /\ UNCHANGED stopped
          /\ IF Renewable(i)
             THEN /\ res' = Renewed(i, handle[i].ttl)
                  /\ handle' = [handle EXCEPT ![i] = Armed(@.ttl)]
             ELSE handle' = [handle EXCEPT ![i] = NoHandle] /\ UNCHANGED res
  /\ UNCHANGED <<now, call, tokens, last, closing>>

\* renew_project_claim.  Without a TTL the store takes the default and the timer
\* keeps the claim's own.
RenewCall(s, i, ttl, given) ==
  /\ s \notin closing /\ handle[i] # NoHandle /\ res[i].owner = s
  /\ given \/ ttl = DefaultTTL
  /\ Active(s)
  /\ IF Renewable(i)
     THEN /\ res' = Renewed(i, ttl)
          /\ handle' = [Woken(handle, s) EXCEPT
               ![i] = Armed(IF given THEN ttl ELSE handle[i].ttl)]
     ELSE handle' = Woken(handle, s) /\ UNCHANGED res
  /\ UNCHANGED <<now, call, tokens, closing>>

\* Any other tool call or resource read.
OtherCall(s) ==
  /\ s \notin closing
  /\ handle' = Woken(handle, s) /\ Active(s)
  /\ UNCHANGED <<now, res, call, tokens, closing>>

-----------------------------------------------------------------------------
(* People, readers, the end of sessions, time. *)

\* reserve() and release() by the local user, in their turn on the chain.
HumanReserves(p, w) ==
  /\ ChainFree(p) /\ HeldOf(p) = {} /\ CanInsert
  /\ res' = Inserted(p, [status |-> "held", project |-> p, worktree |-> w,
              owner |-> Human, key |-> Human, token |-> 0, created |-> now,
              expires |-> now, maximum |-> now])
  /\ UNCHANGED <<now, call, session, closing>>

HumanReleases(p, force) ==
  /\ ChainFree(p)
  /\ \E i \in HeldOf(p) :
       /\ force \/ res[i].owner = Human
       /\ res' = [Expire(p) EXCEPT ![i].status = "released"]
  /\ UNCHANGED <<now, call, session, closing>>

\* getActiveReservation() by a reader.
Reader(p) ==
  /\ res' = Expire(p) /\ res' # res
  /\ UNCHANGED <<now, call, session, closing>>

Dropped(S) == [i \in Ids |-> IF res[i] # Free /\ res[i].owner \in S THEN NoHandle
                             ELSE handle[i]]
\* beginClose() or close(): handles, timers and secrets go, leases stay.
SessionCloses(s) ==
  /\ s \notin closing /\ closing' = closing \cup {s}
  /\ handle' = Dropped({s})
  /\ tokens' = [tokens EXCEPT ![s] = [x \in Projects \X Keys |-> 0]]
  /\ UNCHANGED <<now, res, call, last, stopped>>

\* The controller restarts: no session survives, every row does.
Restart ==
  /\ closing # Sessions /\ closing' = Sessions
  /\ handle' = Dropped(Sessions)
  /\ tokens' = [s \in Sessions |-> [x \in Projects \X Keys |-> 0]]
  /\ call' = [c \in Calls |-> IF Pending(c) THEN Refused ELSE call[c]]
  /\ UNCHANGED <<now, res, last, stopped>>

\* Time passes; a timer that is due fires first.
Tick ==
  /\ now < MaxTime /\ now' = now + 1
  /\ \A i \in Ids : handle[i].timer = "armed" => handle[i].due > now
  /\ UNCHANGED <<res, call, session, closing>>

-----------------------------------------------------------------------------
Init ==
  /\ now = 0
  /\ res = [i \in Ids |-> Free]
  /\ call = [c \in Calls |-> NoCall]
  /\ tokens = [s \in Sessions |-> [x \in Projects \X Keys |-> 0]]
  /\ handle = [i \in Ids |-> NoHandle]
  /\ last = [s \in Sessions |-> 0]
  /\ stopped = {} /\ closing = {}

Next ==
  \/ \E c \in Calls :
       \/ \E s \in Sessions, p \in Projects, w \in Worktrees, k \in Keys, t \in TTLs :
            ClaimArrives(c, s, p, w, k, t)
       \/ \E s \in Sessions, i \in Ids : ReleaseArrives(c, s, i)
       \/ ClaimAcquires(c)
       \/ ClaimRepeats(c)
       \/ ClaimRefused(c)
       \/ ClaimReturns(c)
       \/ ReleaseRuns(c)
  \/ \E i \in Ids : RenewalTimer(i)
  \/ \E s \in Sessions, i \in Ids, t \in TTLs, g \in BOOLEAN : RenewCall(s, i, t, g)
  \/ \E s \in Sessions : OtherCall(s) \/ SessionCloses(s)
  \/ \E p \in Projects : \E w \in Worktrees : HumanReserves(p, w)
  \/ \E p \in Projects : Reader(p) \/ \E force \in BOOLEAN : HumanReleases(p, force)
  \/ Restart
  \/ Tick

Spec == Init /\ [][Next]_vars

-----------------------------------------------------------------------------
(* Properties. *)

\* Every variable holds a value of its type; a lease ends within its lifetime.
TypeOK ==
  /\ now \in Nat
  /\ res \in [Ids -> Rows \cup {Free}]
  /\ \A i \in Ids : res[i] # Free => res[i].expires <= res[i].maximum
  /\ call \in [Calls -> Requests \cup {NoCall, Done, Refused}]
  /\ tokens \in [Sessions -> [Projects \X Keys -> Tokens]]
  /\ handle \in [Ids -> Handles \cup {NoHandle}]
  /\ last \in [Sessions -> Nat]
  /\ stopped \subseteq Sessions /\ closing \subseteq Sessions

\* "a binary exclusive reservation" (docs/reservations-and-mcp.md:15): at most
\* one row of a project is unreleased, expired or not.
OneReservation ==
  \A i, j \in Ids : Held(i) /\ Held(j) /\ res[i].project = res[j].project => i = j

\* "The existing holder is never silently displaced"
\* (docs/reservations-and-mcp.md:78): a new reservation of a project is made only
\* when none was effective.
NeverDisplaced ==
  [][\A i, j \in Ids :
       /\ Effective(i)
       /\ ~Effective(j) /\ Effective(j)'
       => res[i].project # res'[j].project]_vars

\* A reservation that expired or was released is never in force again.
NeverRevived ==
  [][\A i \in Ids : res[i] # Free /\ ~Effective(i) => ~Effective(i)']_vars

\* "a claim lapses at most 45 minutes after an agent stops using MCP"
\* (README.md:194): the idle limit and one TTL after the later of the session's
\* last call and the claim itself.
LapsesAfterSilence ==
  \A i \in Ids : Held(i) /\ res[i].owner # Human =>
    \E from \in {res[i].created, last[res[i].owner]} :
      res[i].expires <= from + IdleLimit + DefaultTTL

\* "Some renewal tick always falls within 10 minutes of the last call, so the
\* lease runs for at least 30 minutes after it"
\* (docs/reservations-and-mcp.md:327), for the TTL the session renews with.
KeptWhileActive ==
  \A i \in Ids :
    LET s == res[i].owner
        h == handle[i] IN
    /\ handle[i] # NoHandle /\ Held(i)
    /\ h.timer = "armed" => h.due > now
    /\ now >= last[s] + Delay(h.ttl)
    => \/ res[i].expires >= last[s] + h.ttl
       \/ res[i].expires = res[i].maximum

\* "Repeating an acquire request with the same idempotency key returns the
\* existing lease" (docs/reservations-and-mcp.md:50): the same request is not
\* refused while its lease is in force.
RepeatReturnsTheLease ==
  [][\A c \in Calls :
       LET r == call[c] IN
       /\ r.stage = "queued" /\ call'[c] = Refused
       /\ r.kind = "claim" /\ UNCHANGED closing
       => ~\E i \in Ids :
            /\ Effective(i) /\ res[i].owner = r.session /\ res[i].key = r.key
            /\ res[i].project = r.project /\ res[i].worktree = r.worktree]_vars
=============================================================================
