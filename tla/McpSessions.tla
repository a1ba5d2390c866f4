----------------------------- MODULE McpSessions -----------------------------
(***************************************************************************)
(* The sessions of MCP clients: admission within the limits, the deadline  *)
(* of an idle or abandoned session, the drain of what was accepted, and    *)
(* the status waits that are among the accepted calls.                     *)
(*                                                                         *)
(* Every handler of the code runs to completion, so a step is one handler  *)
(* with all it sets off: a call that settles may end a drain, which closes *)
(* the session, which gives its slot back.                                 *)
(***************************************************************************)
EXTENDS StatusWaiters

CONSTANTS
  NSessions,          \* bound: sessions ever admitted
  Credentials,
  NExchanges,         \* bound: HTTP exchanges that are open at a time
  MaxAsked,           \* bound: HTTP exchanges ever begun
  MaxSessions,        \* admitted sessions, together
  MaxPerCredential,   \* admitted sessions of one credential
  SessionIdle,        \* an interrupted session closes after this much inactivity
  OpenIdle,           \* an open one, or one that never streamed, after this much
  Grace,              \* a client may reconnect for this long
  Drain,              \* accepted calls are awaited for this long
  Lifetime,           \* no session is older
  MaxCloses           \* bound: closes of every session

ASSUME SessionsAssumption ==
  /\ {MaxSessions, MaxPerCredential} \subseteq Nat \ {0} /\ MaxPerCredential <= MaxSessions
  /\ {SessionIdle, OpenIdle, Grace, Drain, Lifetime} \subseteq Nat \ {0}
  /\ {NSessions, NExchanges, MaxAsked, MaxCloses} \subseteq Nat

Sessions == 1 .. NSessions      \* in the order of their admission
Exchanges == 1 .. NExchanges
Never == -1
NoOne == 0
Kinds == {"initialize", "call", "list", "wait", "stream", "delete"}
(* A tool call or the read of a resource counts as activity. *)
Qualifying == {"call", "wait"}

VARIABLES
  sessions,   \* what is known of each session
  exchanges,  \* the HTTP exchanges: their response, their protocol handler
  asked,      \* how many of the bounded exchanges have begun
  closes      \* how many of the bounded closes have happened

vars == <<now, waitVars, sessions, exchanges, asked, closes>>

NoSession == [state |-> "none", credential |-> "none", released |-> TRUE, routed |-> FALSE,
              created |-> 0, activity |-> Never, streamed |-> FALSE, interrupted |-> Never,
              deadline |-> Off, drain |-> Off]
NoExchange == [session |-> NoOne, kind |-> "none", response |-> "none", handler |-> "none"]

TypeOK ==
  /\ WaitersTypeOK
  /\ waiters \subseteq [id : Exchanges, session : Sessions, target : Targets, cursor : Statuses, until : Time]
  /\ sessions \in [Sessions ->
       [state : {"none", "open", "draining", "closed"}, credential : Credentials \cup {"none"},
        released : BOOLEAN, routed : BOOLEAN, created : Time, activity : Time \cup {Never},
        streamed : BOOLEAN, interrupted : Time \cup {Never}, deadline : Time \cup {Off},
        drain : 0 .. MaxTime + Drain \cup {Off}]]
  /\ exchanges \in [Exchanges ->
       [session : Sessions \cup {NoOne}, kind : Kinds \cup {"none"},
        response : {"none", "open", "stream", "ended"},
        handler : {"none", "ready", "running", "waiting", "done"}]]
  /\ asked \in 0 .. MaxAsked /\ closes \in 0 .. MaxCloses

-----------------------------------------------------------------------------
(* What a session has accepted, and when it must close *)

Of(s, X) == {e \in Exchanges : X[e].session = s}
InFlight(s, X) == {e \in Of(s, X) : X[e].handler \in {"running", "waiting"}}
RequestResponses(s, X) == {e \in Of(s, X) : X[e].response = "open"}
OpenResponses(s, X) == {e \in Of(s, X) : X[e].response \in {"open", "stream"}}

Least(x, y) == IF x < y THEN x ELSE y
Greatest(x, y) == IF x > y THEN x ELSE y

(* sessionDeadline() *)
Interrupted(s, r, X) == r.streamed /\ OpenResponses(s, X) = {}
GraceEnd(r) == (IF r.interrupted = Never THEN r.created ELSE r.interrupted) + Grace
IdleEnd(s, r, X) ==
  IF Interrupted(s, r, X)
  THEN IF r.activity = Never THEN GraceEnd(r) ELSE Greatest(GraceEnd(r), r.activity + SessionIdle)
  ELSE (IF r.activity = Never THEN r.created ELSE r.activity) + OpenIdle
DeadlineOf(s, r, X) == Least(IdleEnd(s, r, X), r.created + Lifetime)

(* arm() *)
Armed(s, r, X) ==
  IF r.state = "open" THEN [r EXCEPT !.deadline = Greatest(now, DeadlineOf(s, r, X))] ELSE r

(* A session that is not open is not routed to, and its activity is no      *)
(* longer asked for.                                                        *)
Idle(r) == [NoSession EXCEPT !.credential = r.credential, !.released = r.released]

(* cleanupSession(), where every close ends; then settle(). *)
Cleaned(r) == [Idle(r) EXCEPT !.state = "closed", !.drain = Off]
\* Fault: a response that is still open does not hold the slot.
ReleasedByCalls(s, r, X) ==
  IF r.state = "closed" /\ InFlight(s, X) = {} THEN [r EXCEPT !.released = TRUE] ELSE r

Released(s, r, X) ==
  IF r.state = "closed" /\ InFlight(s, X) = {} /\ OpenResponses(s, X) = {}
  THEN [r EXCEPT !.released = TRUE] ELSE r
Drained(s, X) == InFlight(s, X) = {} /\ RequestResponses(s, X) = {}
\* Fault: the responses of accepted calls are not awaited.
SettledByCalls(s, r, X) ==
  Released(s, IF r.state = "draining" /\ InFlight(s, X) = {} THEN Cleaned(r) ELSE r, X)

Settled(s, r, X) ==
  Released(s, IF r.state = "draining" /\ Drained(s, X) THEN Cleaned(r) ELSE r, X)
Closed(s, r, X) == Released(s, Cleaned(r), X)

(* activity(), of a session that is not closing; the timer is left alone. *)
Active(s, r, X) ==
  IF r.state # "open" THEN r
  ELSE [r EXCEPT !.activity = now, !.interrupted = IF Interrupted(s, r, X) THEN now ELSE Never]
Counts(s, e, r, X) == IF exchanges[e].kind \in Qualifying THEN Active(s, r, X) ELSE r

(* beginClose() *)
BeginClose(s, r, X) ==
  Settled(s, [Idle(r) EXCEPT !.state = "draining",
                             !.drain = IF Drained(s, X) THEN Off ELSE now + Drain], X)

Becomes(s, r) == sessions' = [sessions EXCEPT ![s] = r]
(* An exchange is forgotten when its handler is done and its response over. *)
With(e, x) == [exchanges EXCEPT ![e] = IF x.handler = "done" /\ x.response = "ended" THEN NoExchange ELSE x]
Handler(e, h) == With(e, [exchanges[e] EXCEPT !.handler = h])
Response(e, r) == With(e, [exchanges[e] EXCEPT !.response = r])
Begins(e, s, kind) ==
  /\ asked < MaxAsked /\ asked' = asked + 1
  /\ exchanges[e] = NoExchange /\ \A f \in Exchanges : f < e => exchanges[f] # NoExchange
  /\ exchanges' = [exchanges EXCEPT ![e] =
       [session |-> s, kind |-> kind, response |-> "open", handler |-> "ready"]]

-----------------------------------------------------------------------------
(* Admission *)

Held == {s \in Sessions : ~sessions[s].released}
HeldBy(c) == {s \in Held : sessions[s].credential = c}
Admits(c) == Cardinality(Held) < MaxSessions /\ Cardinality(HeldBy(c)) < MaxPerCredential

(* An initialize request.  The bound leaves the session the time to close.  *)
Admit(s, c, e) ==
  /\ \A t \in Sessions : sessions[t].state = "none" <=> t >= s
  /\ Admits(c)
  /\ now + Lifetime + Drain <= MaxTime
  /\ Begins(e, s, "initialize")
  /\ LET r == [NoSession EXCEPT !.state = "open", !.credential = c, !.released = FALSE, !.created = now]
     IN  Becomes(s, Armed(s, r, exchanges'))
  /\ UNCHANGED <<now, waitVars, closes>>

(* The transport is initialised and its session routed, or it is not and   *)
(* the session is closed.                                                  *)
Initialize(e) ==
  LET s == exchanges[e].session
      X == Handler(e, "done")
  IN  /\ exchanges[e].kind = "initialize" /\ exchanges[e].handler = "ready"
      /\ exchanges' = X
      /\ \/ Becomes(s, [sessions[s] EXCEPT !.routed = TRUE])
         \/ Becomes(s, Closed(s, sessions[s], X))
      /\ UNCHANGED <<now, waitVars, asked, closes>>

-----------------------------------------------------------------------------
(* The exchanges of a session *)

(* handleTransport(): the response is open, its handler comes later. *)
Receive(e, s, kind) ==
  /\ sessions[s].routed
  /\ Begins(e, s, kind)
  /\ Becomes(s, Armed(s, sessions[s], exchanges'))
  /\ UNCHANGED <<now, waitVars, closes>>

(* The protocol handler: a session that closes accepts nothing. *)
Handle(e) ==
  LET s == exchanges[e].session
      r == sessions[s]
      X == Handler(e, IF r.state = "open" THEN "running" ELSE "done")
  IN  /\ exchanges[e].handler = "ready" /\ exchanges[e].kind \in {"call", "list", "wait"}
      /\ exchanges' = X
      /\ Becomes(s, IF r.state = "open" THEN Counts(s, e, r, X) ELSE r)
      /\ UNCHANGED <<now, waitVars, asked, closes>>

(* wait_for_status_change registers a waiter, unless it is answered at once. *)
Wait(e, target) ==
  /\ exchanges[e].kind = "wait" /\ exchanges[e].handler = "running"
  /\ now + WaitLimit <= MaxTime
  /\ Register(e, exchanges[e].session, target)
  /\ exchanges' = Handler(e, "waiting")
  /\ UNCHANGED <<now, sessions, asked, closes>>

(* A handler settles, a waiting one once its waiter is gone. *)
Settle(e) ==
  LET s == exchanges[e].session
      X == Handler(e, "done")
  IN  /\ \/ exchanges[e].handler = "running"
         \/ exchanges[e].handler = "waiting" /\ \A w \in waiters : w.id # e
      /\ exchanges' = X
      /\ Becomes(s, Settled(s, Counts(s, e, sessions[s], X), X))
      /\ UNCHANGED <<now, waitVars, asked, closes>>

(* The one stream of a session; another is refused. *)
Stream(e) ==
  LET s == exchanges[e].session
      streaming == \E f \in Of(s, exchanges) : exchanges[f].response = "stream"
      taken == sessions[s].state = "closed" \/ streaming \/ exchanges[e].response # "open"
      X == [Handler(e, "done") EXCEPT ![e].response = IF taken THEN @ ELSE "stream"]
  IN  /\ exchanges[e].kind = "stream" /\ exchanges[e].handler = "ready"
      /\ exchanges' = X
      /\ Becomes(s, IF taken THEN sessions[s]
                    ELSE LET r == [sessions[s] EXCEPT !.streamed = TRUE]
                         IN  Settled(s, Armed(s, r, X), X))
      /\ UNCHANGED <<now, waitVars, asked, closes>>

(* The client deletes its session. *)
Delete(e) ==
  LET s == exchanges[e].session
      X == Handler(e, "done")
  IN  /\ exchanges[e].kind = "delete" /\ exchanges[e].handler = "ready"
      /\ exchanges' = X
      /\ Becomes(s, Closed(s, sessions[s], X))
      /\ UNCHANGED <<now, waitVars, asked, closes>>
\* Fault: the deadline timer is left as it was.
EndUnarmed(e) ==
  LET s == exchanges[e].session
      X == Response(e, "ended")
  IN  /\ exchanges[e].response \in {"open", "stream"}
      /\ exchanges' = X
      /\ Becomes(s, Settled(s, IF Interrupted(s, sessions[s], X) /\ sessions[s].interrupted = Never
                               THEN [sessions[s] EXCEPT !.interrupted = now] ELSE sessions[s], X))
      /\ UNCHANGED <<now, waitVars, asked, closes>>

(* A response is complete or its client is gone.  The end of the last one   *)
(* interrupts a session that has streamed.                                  *)
End(e) ==
  LET s == exchanges[e].session
      r == sessions[s]
      X == Response(e, "ended")
      ended == IF Interrupted(s, r, X) /\ r.interrupted = Never
               THEN [r EXCEPT !.interrupted = now] ELSE r
  IN  /\ exchanges[e].response \in {"open", "stream"}
      /\ exchanges' = X
      /\ Becomes(s, Settled(s, Armed(s, ended, X), X))
      /\ UNCHANGED <<now, waitVars, asked, closes>>

(* A response that has nothing left to wait for.  A close answers every     *)
(* request but the one that initialises its session.                        *)
Answered(e) ==
  \/ exchanges[e].response = "open" /\ exchanges[e].handler = "done"
  \/ exchanges[e].kind # "initialize" /\ sessions[exchanges[e].session].state = "closed"

-----------------------------------------------------------------------------
(* Timers, closes and the time *)
\* Fault: the timer is not armed again when the deadline has moved.
CheckOnce(s) ==
  LET r == sessions[s] IN
  /\ Due(r.deadline)
  /\ Becomes(s, IF now < DeadlineOf(s, r, exchanges) THEN [r EXCEPT !.deadline = Off]
                ELSE BeginClose(s, r, exchanges))
  /\ UNCHANGED <<now, waitVars, exchanges, asked, closes>>

(* check(): activity may have moved the deadline since the timer was armed. *)
Check(s) ==
  LET r == sessions[s] IN
  /\ Due(r.deadline)
  /\ Becomes(s, IF now < DeadlineOf(s, r, exchanges) THEN Armed(s, r, exchanges)
                ELSE BeginClose(s, r, exchanges))
  /\ UNCHANGED <<now, waitVars, exchanges, asked, closes>>

DrainEnds(s) ==
  /\ Due(sessions[s].drain)
  /\ Becomes(s, Closed(s, sessions[s], exchanges))
  /\ UNCHANGED <<now, waitVars, exchanges, asked, closes>>

(* close(): shutdown, or a change of the authentication.  A session that is *)
(* still initialising is not among those that are closed.                   *)
CloseAll ==
  /\ closes < MaxCloses /\ closes' = closes + 1
  /\ sessions' = [s \in Sessions |->
       IF sessions[s].routed \/ sessions[s].state = "draining"
       THEN Closed(s, sessions[s], exchanges) ELSE sessions[s]]
  /\ UNCHANGED <<now, waitVars, exchanges, asked>>

(* An initialisation waits for nothing but the code, so that no timer runs  *)
(* and no time passes while it is under way.                                *)
Initialising(e) == exchanges[e].kind = "initialize" /\ exchanges[e].handler = "ready"

Tick ==
  /\ now < MaxTime /\ now' = now + 1
  /\ \A e \in Exchanges : ~Initialising(e)
  /\ \A s \in Sessions : ~Due(sessions[s].deadline) /\ ~Due(sessions[s].drain)
  /\ ~Due(sampler) /\ \A w \in waiters : ~Due(w.until)
  /\ UNCHANGED <<waitVars, sessions, exchanges, asked, closes>>

Waiters(A) == A /\ UNCHANGED <<sessions, exchanges, asked, closes>>

Init ==
  /\ InitWaiters
  /\ sessions = [s \in Sessions |-> NoSession]
  /\ exchanges = [e \in Exchanges |-> NoExchange]
  /\ asked = 0 /\ closes = 0

(* What goes on without a client. *)
Process ==
  \/ Tick
  \/ \E e \in Exchanges : \/ Initialize(e) \/ Handle(e) \/ Settle(e) \/ Stream(e) \/ Delete(e)
                          \/ End(e) /\ Answered(e)
  \/ \E s \in Sessions : Check(s) \/ DrainEnds(s)
  \/ Waiters(Sample) \/ \E w \in waiters : Waiters(TimedOut(w))

Next ==
  \/ Process
  \/ \E s \in Sessions, e \in Exchanges :
       \/ \E c \in Credentials : Admit(s, c, e)
       \/ \E kind \in Kinds \ {"initialize"} : Receive(e, s, kind)
  \/ \E e \in Exchanges : End(e) \/ \E target \in Targets : Wait(e, target)
  \/ \E w \in waiters : Waiters(Abort(w))
  \/ CloseAll
  \/ closes > 0 /\ Waiters(CloseStatus)
  \/ \E target \in Targets, next \in Statuses \cup {Gone} : Waiters(Change(target, next))

Spec == Init /\ [][Next]_vars
(* Handlers settle, answers are sent, timers run and the time goes on. *)
FairSpec == Spec /\ WF_vars(Process)

-----------------------------------------------------------------------------
(* Properties *)

(* The slot of a session is held until the closed session's accepted work   *)
(* has settled and no longer, and the limits hold meanwhile                 *)
(* (docs/reservations-and-mcp.md:312).                                      *)
SlotsHeld ==
  /\ \A s \in Sessions : sessions[s].state # "none" =>
       (sessions[s].released <=>
          sessions[s].state = "closed" /\ InFlight(s, exchanges) = {} /\ OpenResponses(s, exchanges) = {})
  /\ Cardinality(Held) <= MaxSessions
  /\ \A c \in Credentials : Cardinality(HeldBy(c)) <= MaxPerCredential

(* No session that is open outlives its deadline, nor one that drains its   *)
(* bound: whatever came in between, a timer is armed in time.               *)
ClosedInTime ==
  \A s \in Sessions :
    LET r == sessions[s] IN
    /\ r.state = "open" => r.deadline \in now .. Greatest(now, DeadlineOf(s, r, exchanges))
    /\ r.state = "draining" => r.drain \in now .. now + Drain
    /\ r.state = "closed" => r.deadline = Off /\ r.drain = Off

(* A policy close lets what was accepted finish: a draining session closes  *)
(* with work left only at its bound, when its client deletes it, or when    *)
(* every session is closed.                                                 *)
DrainHonoured ==
  [][\A s \in Sessions :
       sessions[s].state = "draining" /\ sessions'[s].state = "closed" =>
         \/ Drained(s, exchanges')
         \/ now >= sessions[s].drain
         \/ closes' > closes
         \/ \E e \in Of(s, exchanges) : /\ exchanges[e].kind = "delete"
                                       /\ exchanges[e].handler = "ready"
                                       /\ exchanges'[e].handler # "ready"]_vars

(* Every admitted session closes, everything it accepted ends, status waits *)
(* among it, and its slot is given back.                                    *)
EverySlotReturns == \A s \in Sessions : sessions[s].state # "none" ~> sessions[s].released
===============================================================================
