-------------------------- MODULE McpSessionsProofs --------------------------
(* Proofs about sessions and status waits, for every limit, every timer and   *)
(* any number of clients.                                                     *)
EXTENDS McpSessions, FiniteSetTheorems, TLAPS

-----------------------------------------------------------------------------
(* Status waits                                                              *)

WaitersInv ==
  /\ WaitersTypeOK
  /\ waiters \subseteq [id : Exchanges, session : Sessions, target : Targets, cursor : Statuses,
                        until : Time]
  /\ WaitersServed

LEMMA WaiterConstants ==
  /\ MaxTime \in Nat /\ Sampling \in Nat \ {0} /\ WaitLimit \in Nat \ {0}
  /\ Off = -1 /\ Time = 0 .. MaxTime
BY WaitersAssumption DEF Off, Time

LEMMA WaitersFew ==
  ASSUME WaitersInv, NEW W, W \subseteq waiters,
         \/ Remove(W)
         \/ /\ waiters' = waiters \ W /\ Due(sampler)
            /\ sampler' = IF waiters \ W = {} THEN Off ELSE now + Sampling,
         now' = now, status' = status,
         statusClosed' \in BOOLEAN, statusClosed' => waiters' = {}
  PROVE  WaitersInv'
<1>1. waiters' = waiters \ W
  BY DEF Remove
<1>2. sampler' = (IF waiters' = {} THEN Off ELSE sampler) \/
      sampler' = (IF waiters' = {} THEN Off ELSE now + Sampling)
  BY <1>1 DEF Remove
<1>3. now \in 0 .. MaxTime /\ (waiters' # {} => sampler # Off)
  BY <1>1, WaiterConstants DEF WaitersInv, WaitersTypeOK, WaitersServed
<1>4. WaitersServed'
  BY <1>1, <1>2, <1>3, WaiterConstants DEF WaitersInv, WaitersServed
<1>5. WaitersTypeOK'
  BY <1>2, <1>3, <1>4, WaiterConstants DEF WaitersInv, WaitersTypeOK
<1> QED
  BY <1>1, <1>4, <1>5 DEF WaitersInv

LEMMA WaiterRegistered ==
  ASSUME WaitersInv, NEW e \in Exchanges, NEW s \in Sessions, NEW target \in Targets,
         Register(e, s, target), now + WaitLimit <= MaxTime, now' = now
  PROVE  WaitersInv'
<1> DEFINE w == [id |-> e, session |-> s, target |-> target, cursor |-> status[target],
                 until |-> now + WaitLimit]
<1>1. now \in 0 .. MaxTime /\ status \in [Targets -> Statuses \cup {Gone}]
  BY WaiterConstants DEF WaitersInv, WaitersTypeOK
<1>2. /\ w \in [id : Exchanges, session : Sessions, target : Targets, cursor : Statuses, until : Time]
      /\ w.until = now + WaitLimit
  BY <1>1, WaiterConstants DEF Register
<1> HIDE DEF w
<1>3. /\ waiters' = waiters \cup {w} /\ statusClosed' = FALSE /\ status' = status
      /\ sampler' = IF sampler = Off THEN now + Sampling ELSE sampler
  BY DEF Register, w, WaitersInv, WaitersTypeOK
<1>4. sampler' \in now .. now + Sampling /\ sampler' # Off
  <2>1. CASE sampler = Off
    BY <1>1, <1>3, <2>1, WaiterConstants
  <2>2. CASE sampler # Off
    BY <1>1, <1>3, <2>2, WaiterConstants DEF WaitersInv, WaitersServed
  <2> QED
    BY <2>1, <2>2
<1>5. \A x \in waiters' : now <= x.until
  BY <1>1, <1>2, <1>3, WaiterConstants DEF WaitersInv, WaitersServed
<1>6. WaitersServed'
  BY <1>3, <1>4, <1>5 DEF WaitersServed
<1>7. WaitersTypeOK'
  <2>1. sampler' \in 0 .. MaxTime + Sampling
    BY <1>1, <1>4, WaiterConstants
  <2>2. now' \in Time /\ status' \in [Targets -> Statuses \cup {Gone}] /\ statusClosed' \in BOOLEAN
    BY <1>1, <1>3, WaiterConstants
  <2> QED
    BY <2>1, <2>2 DEF WaitersTypeOK
<1> QED
  BY <1>2, <1>3, <1>6, <1>7 DEF WaitersInv

-----------------------------------------------------------------------------
(* Sessions                                                                  *)

SessionRecords ==
  [state : {"none", "open", "draining", "closed"}, credential : Credentials \cup {"none"},
   released : BOOLEAN, routed : BOOLEAN, created : Time, activity : Time \cup {Never},
   streamed : BOOLEAN, interrupted : Time \cup {Never}, deadline : Time \cup {Off},
   drain : 0 .. MaxTime + Drain \cup {Off}]
ExchangeRecords ==
  [session : Sessions \cup {NoOne}, kind : Kinds \cup {"none"},
   response : {"none", "open", "stream", "ended"},
   handler : {"none", "ready", "running", "waiting", "done"}]

Spent(s, X) == InFlight(s, X) = {} /\ OpenResponses(s, X) = {}

(* An admitted session at time n with the exchanges X: before its timer is   *)
(* armed, before its slot is looked at, and after a handler.                 *)
Prior(n, s, r, X) ==
  /\ r \in SessionRecords
  /\ r.state # "none"
  /\ r.routed => r.state \in {"open", "draining"}
  /\ r.state # "open" => r.deadline = Off
  /\ r.state # "draining" => r.drain = Off
  /\ r.released => r.state = "closed" /\ Spent(s, X)
  /\ r.state = "open" =>
       /\ r.created <= n /\ r.activity <= n /\ r.interrupted <= n
       /\ r.created + Lifetime <= MaxTime
  /\ r.state = "draining" /\ ~Drained(s, X) => r.drain \in n .. n + Drain

Almost(n, s, r, X) ==
  /\ Prior(n, s, r, X)
  /\ r.state = "open" => r.deadline \in n .. Greatest(n, DeadlineOf(s, r, X))

SessionOK(n, s, r, X) ==
  \/ r = NoSession
  \/ /\ Almost(n, s, r, X)
     /\ r.state = "closed" /\ Spent(s, X) => r.released
     /\ r.state = "draining" => r.drain \in n .. n + Drain

ExchangesOK(S, X) ==
  /\ X \in [Exchanges -> ExchangeRecords]
  /\ \A e \in Exchanges :
       \/ X[e] = NoExchange
       \/ /\ X[e].session \in Sessions /\ S[X[e].session].state # "none"
          /\ X[e].kind \in Kinds /\ X[e].response # "none" /\ X[e].handler # "none"

(* What a handler may not take back of a session.                            *)
Keeps(r, q) ==
  /\ q \in SessionRecords /\ q.credential = r.credential /\ (r.released => q.released)
  /\ (q.state = "none" <=> r.state = "none")

LimitsKept ==
  /\ Cardinality(Held) <= MaxSessions
  /\ \A c \in Credentials : Cardinality(HeldBy(c)) <= MaxPerCredential

IInv ==
  /\ WaitersInv
  /\ \A s \in Sessions : SessionOK(now, s, sessions[s], exchanges)
  /\ ExchangesOK(sessions, exchanges)
  /\ sessions \in [Sessions -> SessionRecords]
  /\ LimitsKept
  /\ asked \in 0 .. MaxAsked /\ closes \in 0 .. MaxCloses

(* A session that is initialised was admitted in this instant and has no     *)
(* other exchange, so that nothing has closed it.                            *)
Fresh(r) ==
  r.state = "open" /\ ~r.routed /\ r.created = now /\ r.activity = Never /\ ~r.streamed
FreshInv ==
  \A e \in Exchanges : Initialising(e) =>
    Fresh(sessions[exchanges[e].session]) /\ Of(exchanges[e].session, exchanges) = {e}

SInv == IInv /\ FreshInv

LEMMA SessionConstants ==
  /\ SessionIdle \in Nat \ {0} /\ OpenIdle \in Nat \ {0} /\ Grace \in Nat \ {0}
  /\ Drain \in Nat \ {0} /\ Lifetime \in Nat \ {0}
  /\ MaxSessions \in Nat \ {0} /\ MaxPerCredential \in Nat \ {0}
  /\ NSessions \in Nat /\ NExchanges \in Nat /\ MaxAsked \in Nat /\ MaxCloses \in Nat
  /\ Never = -1
BY SessionsAssumption DEF Never

\* The records the handlers write, field by field.
LEMMA SessionFields ==
  ASSUME NEW r \in SessionRecords
  PROVE  /\ r.state \in {"none", "open", "draining", "closed"}
         /\ r.credential \in Credentials \cup {"none"}
         /\ r.released \in BOOLEAN /\ r.routed \in BOOLEAN /\ r.streamed \in BOOLEAN
         /\ r.created \in 0 .. MaxTime
         /\ r.activity \in 0 .. MaxTime \cup {-1} /\ r.interrupted \in 0 .. MaxTime \cup {-1}
         /\ r.deadline \in 0 .. MaxTime \cup {-1} /\ r.drain \in 0 .. MaxTime + Drain \cup {-1}
BY WaiterConstants, SessionConstants DEF SessionRecords

LEMMA DeadlineFacts ==
  ASSUME NEW s, NEW X, NEW r \in SessionRecords
  PROVE  /\ DeadlineOf(s, r, X) \in Int
         /\ DeadlineOf(s, r, X) <= r.created + Lifetime
         /\ \A q : /\ q.created = r.created /\ q.activity = r.activity
                   /\ q.streamed = r.streamed /\ q.interrupted = r.interrupted
                   => DeadlineOf(s, q, X) = DeadlineOf(s, r, X)
         /\ \A Y : OpenResponses(s, Y) = OpenResponses(s, X) =>
                   /\ DeadlineOf(s, r, Y) = DeadlineOf(s, r, X)
                   /\ Interrupted(s, r, Y) = Interrupted(s, r, X)
<1> USE WaiterConstants, SessionConstants, SessionFields
<1>1. IdleEnd(s, r, X) \in Int
  BY DEF IdleEnd, GraceEnd, Greatest, Least
<1>2. DeadlineOf(s, r, X) \in Int /\ DeadlineOf(s, r, X) <= r.created + Lifetime
  BY <1>1 DEF DeadlineOf, Least
<1>3. \A q : /\ q.created = r.created /\ q.activity = r.activity
             /\ q.streamed = r.streamed /\ q.interrupted = r.interrupted
             => DeadlineOf(s, q, X) = DeadlineOf(s, r, X)
  BY DEF DeadlineOf, IdleEnd, GraceEnd, Interrupted
<1>4. \A Y : OpenResponses(s, Y) = OpenResponses(s, X) =>
             /\ DeadlineOf(s, r, Y) = DeadlineOf(s, r, X)
             /\ Interrupted(s, r, Y) = Interrupted(s, r, X)
  BY DEF DeadlineOf, IdleEnd, Interrupted
<1> QED
  BY <1>2, <1>3, <1>4

LEMMA GreatestFacts ==
  ASSUME NEW x \in Int, NEW y \in Int
  PROVE  /\ Greatest(x, y) \in Int /\ Greatest(x, y) >= x /\ Greatest(x, y) >= y
         /\ Greatest(x, y) \in {x, y}
BY DEF Greatest

LEMMA Amending ==
  ASSUME NEW r \in SessionRecords
  PROVE  /\ \A x : [r EXCEPT !.state = x] =
                [state |-> x, credential |-> r.credential, released |-> r.released,
                 routed |-> r.routed, created |-> r.created,
                 activity |-> r.activity, streamed |-> r.streamed,
                 interrupted |-> r.interrupted, deadline |-> r.deadline,
                 drain |-> r.drain]
         /\ \A x : [r EXCEPT !.credential = x] =
                [state |-> r.state, credential |-> x, released |-> r.released,
                 routed |-> r.routed, created |-> r.created,
                 activity |-> r.activity, streamed |-> r.streamed,
                 interrupted |-> r.interrupted, deadline |-> r.deadline,
                 drain |-> r.drain]
         /\ \A x : [r EXCEPT !.released = x] =
                [state |-> r.state, credential |-> r.credential, released |-> x,
                 routed |-> r.routed, created |-> r.created,
                 activity |-> r.activity, streamed |-> r.streamed,
                 interrupted |-> r.interrupted, deadline |-> r.deadline,
                 drain |-> r.drain]
         /\ \A x : [r EXCEPT !.routed = x] =
                [state |-> r.state, credential |-> r.credential,
                 released |-> r.released, routed |-> x, created |-> r.created,
                 activity |-> r.activity, streamed |-> r.streamed,
                 interrupted |-> r.interrupted, deadline |-> r.deadline,
                 drain |-> r.drain]
         /\ \A x : [r EXCEPT !.created = x] =
                [state |-> r.state, credential |-> r.credential,
                 released |-> r.released, routed |-> r.routed, created |-> x,
                 activity |-> r.activity, streamed |-> r.streamed,
                 interrupted |-> r.interrupted, deadline |-> r.deadline,
                 drain |-> r.drain]
         /\ \A x : [r EXCEPT !.activity = x] =
                [state |-> r.state, credential |-> r.credential,
                 released |-> r.released, routed |-> r.routed,
                 created |-> r.created, activity |-> x, streamed |-> r.streamed,
                 interrupted |-> r.interrupted, deadline |-> r.deadline,
                 drain |-> r.drain]
         /\ \A x : [r EXCEPT !.streamed = x] =
                [state |-> r.state, credential |-> r.credential,
                 released |-> r.released, routed |-> r.routed,
                 created |-> r.created, activity |-> r.activity, streamed |-> x,
                 interrupted |-> r.interrupted, deadline |-> r.deadline,
                 drain |-> r.drain]
         /\ \A x : [r EXCEPT !.interrupted = x] =
                [state |-> r.state, credential |-> r.credential,
                 released |-> r.released, routed |-> r.routed,
                 created |-> r.created, activity |-> r.activity,
                 streamed |-> r.streamed, interrupted |-> x,
                 deadline |-> r.deadline, drain |-> r.drain]
         /\ \A x : [r EXCEPT !.deadline = x] =
                [state |-> r.state, credential |-> r.credential,
                 released |-> r.released, routed |-> r.routed,
                 created |-> r.created, activity |-> r.activity,
                 streamed |-> r.streamed, interrupted |-> r.interrupted,
                 deadline |-> x, drain |-> r.drain]
         /\ \A x : [r EXCEPT !.drain = x] =
                [state |-> r.state, credential |-> r.credential,
                 released |-> r.released, routed |-> r.routed,
                 created |-> r.created, activity |-> r.activity,
                 streamed |-> r.streamed, interrupted |-> r.interrupted,
                 deadline |-> r.deadline, drain |-> x]
<1>1. \A x : [r EXCEPT !.state = x] =
         [state |-> x, credential |-> r.credential, released |-> r.released,
          routed |-> r.routed, created |-> r.created, activity |-> r.activity,
          streamed |-> r.streamed, interrupted |-> r.interrupted,
          deadline |-> r.deadline, drain |-> r.drain]
  BY DEF SessionRecords
<1>2. \A x : [r EXCEPT !.credential = x] =
         [state |-> r.state, credential |-> x, released |-> r.released,
          routed |-> r.routed, created |-> r.created, activity |-> r.activity,
          streamed |-> r.streamed, interrupted |-> r.interrupted,
          deadline |-> r.deadline, drain |-> r.drain]
  BY DEF SessionRecords
<1>3. \A x : [r EXCEPT !.released = x] =
         [state |-> r.state, credential |-> r.credential, released |-> x,
          routed |-> r.routed, created |-> r.created, activity |-> r.activity,
          streamed |-> r.streamed, interrupted |-> r.interrupted,
          deadline |-> r.deadline, drain |-> r.drain]
  BY DEF SessionRecords
<1>4. \A x : [r EXCEPT !.routed = x] =
         [state |-> r.state, credential |-> r.credential, released |-> r.released,
          routed |-> x, created |-> r.created, activity |-> r.activity,
          streamed |-> r.streamed, interrupted |-> r.interrupted,
          deadline |-> r.deadline, drain |-> r.drain]
  BY DEF SessionRecords
<1>5. \A x : [r EXCEPT !.created = x] =
         [state |-> r.state, credential |-> r.credential, released |-> r.released,
          routed |-> r.routed, created |-> x, activity |-> r.activity,
          streamed |-> r.streamed, interrupted |-> r.interrupted,
          deadline |-> r.deadline, drain |-> r.drain]
  BY DEF SessionRecords
<1>6. \A x : [r EXCEPT !.activity = x] =
         [state |-> r.state, credential |-> r.credential, released |-> r.released,
          routed |-> r.routed, created |-> r.created, activity |-> x,
          streamed |-> r.streamed, interrupted |-> r.interrupted,
          deadline |-> r.deadline, drain |-> r.drain]
  BY DEF SessionRecords
<1>7. \A x : [r EXCEPT !.streamed = x] =
         [state |-> r.state, credential |-> r.credential, released |-> r.released,
          routed |-> r.routed, created |-> r.created, activity |-> r.activity,
          streamed |-> x, interrupted |-> r.interrupted, deadline |-> r.deadline,
          drain |-> r.drain]
  BY DEF SessionRecords
<1>8. \A x : [r EXCEPT !.interrupted = x] =
         [state |-> r.state, credential |-> r.credential, released |-> r.released,
          routed |-> r.routed, created |-> r.created, activity |-> r.activity,
          streamed |-> r.streamed, interrupted |-> x, deadline |-> r.deadline,
          drain |-> r.drain]
  BY DEF SessionRecords
<1>9. \A x : [r EXCEPT !.deadline = x] =
         [state |-> r.state, credential |-> r.credential, released |-> r.released,
          routed |-> r.routed, created |-> r.created, activity |-> r.activity,
          streamed |-> r.streamed, interrupted |-> r.interrupted, deadline |-> x,
          drain |-> r.drain]
  BY DEF SessionRecords
<1>10. \A x : [r EXCEPT !.drain = x] =
         [state |-> r.state, credential |-> r.credential, released |-> r.released,
          routed |-> r.routed, created |-> r.created, activity |-> r.activity,
          streamed |-> r.streamed, interrupted |-> r.interrupted,
          deadline |-> r.deadline, drain |-> x]
  BY DEF SessionRecords
<1> QED
  BY <1>1, <1>2, <1>3, <1>4, <1>5, <1>6, <1>7, <1>8, <1>9, <1>10

\* activity() writes two fields, and what ends a session all of them.
LEMMA ActivityFields ==
  ASSUME NEW r \in SessionRecords, NEW x \in Time \cup {Never}, NEW y \in Time \cup {Never}
  PROVE  [r EXCEPT !.activity = x, !.interrupted = y] =
           [state |-> r.state, credential |-> r.credential, released |-> r.released,
            routed |-> r.routed, created |-> r.created, activity |-> x,
            streamed |-> r.streamed, interrupted |-> y, deadline |-> r.deadline,
            drain |-> r.drain]
<1> DEFINE q == [r EXCEPT !.activity = x]
<1>1. q = [state |-> r.state, credential |-> r.credential, released |-> r.released,
           routed |-> r.routed, created |-> r.created, activity |-> x,
           streamed |-> r.streamed, interrupted |-> r.interrupted,
           deadline |-> r.deadline, drain |-> r.drain]
  BY Amending
<1>2. q \in SessionRecords
  BY <1>1 DEF SessionRecords
<1> HIDE DEF q
<1>3. [q EXCEPT !.interrupted = y] =
        [state |-> q.state, credential |-> q.credential, released |-> q.released,
         routed |-> q.routed, created |-> q.created, activity |-> q.activity,
         streamed |-> q.streamed, interrupted |-> y, deadline |-> q.deadline,
         drain |-> q.drain]
  BY <1>2, Amending
<1> QED
  BY <1>1, <1>3 DEF q

\* What admits a session writes four fields of NoSession.
LEMMA OpenedFields ==
  ASSUME NEW c \in Credentials, NEW n \in Time
  PROVE  [NoSession EXCEPT !.state = "open", !.credential = c, !.released = FALSE, !.created = n] =
           [state |-> "open", credential |-> c, released |-> FALSE,
            routed |-> FALSE, created |-> n, activity |-> Never, streamed |-> FALSE,
            interrupted |-> Never, deadline |-> Off, drain |-> Off]
<1> DEFINE o == [NoSession EXCEPT !.state = "open"]
           p == [o EXCEPT !.credential = c]
           q == [p EXCEPT !.released = FALSE]
<1>1. /\ NoSession \in SessionRecords
      /\ NoSession =
           [state |-> "none", credential |-> "none", released |-> TRUE,
            routed |-> FALSE, created |-> 0, activity |-> Never, streamed |-> FALSE,
            interrupted |-> Never, deadline |-> Off, drain |-> Off]
  BY WaiterConstants DEF NoSession, SessionRecords
<1>2. o = [state |-> "open", credential |-> "none", released |-> TRUE,
           routed |-> FALSE, created |-> 0, activity |-> Never, streamed |-> FALSE,
           interrupted |-> Never, deadline |-> Off, drain |-> Off]
  BY <1>1, Amending
<1> HIDE DEF o
<1>3. o \in SessionRecords
  BY <1>2, WaiterConstants DEF SessionRecords
<1>4. p = [state |-> o.state, credential |-> c, released |-> o.released,
           routed |-> o.routed, created |-> o.created, activity |-> o.activity,
           streamed |-> o.streamed, interrupted |-> o.interrupted,
           deadline |-> o.deadline, drain |-> o.drain]
  BY <1>3, Amending
<1> HIDE DEF p
<1>5. p \in SessionRecords
  BY <1>3, <1>4 DEF SessionRecords
<1>6. q = [state |-> p.state, credential |-> p.credential, released |-> FALSE,
           routed |-> p.routed, created |-> p.created, activity |-> p.activity,
           streamed |-> p.streamed, interrupted |-> p.interrupted,
           deadline |-> p.deadline, drain |-> p.drain]
  BY <1>5, Amending
<1> HIDE DEF q
<1>7. q \in SessionRecords
  BY <1>5, <1>6 DEF SessionRecords
<1>8. [q EXCEPT !.created = n] =
        [state |-> q.state, credential |-> q.credential, released |-> q.released,
         routed |-> q.routed, created |-> n, activity |-> q.activity,
         streamed |-> q.streamed, interrupted |-> q.interrupted,
         deadline |-> q.deadline, drain |-> q.drain]
  BY <1>7, Amending
<1>9. [q EXCEPT !.created = n] =
        [state |-> "open", credential |-> c, released |-> FALSE, routed |-> FALSE,
         created |-> n, activity |-> Never, streamed |-> FALSE,
         interrupted |-> Never, deadline |-> Off, drain |-> Off]
  BY <1>2, <1>4, <1>6, <1>8
<1> QED
  BY <1>9 DEF o, p, q

LEMMA IdleFields ==
  ASSUME NEW r \in SessionRecords
  PROVE  /\ Idle(r) \in SessionRecords
         /\ Idle(r) =
              [state |-> "none", credential |-> r.credential,
               released |-> r.released, routed |-> FALSE, created |-> 0,
               activity |-> Never, streamed |-> FALSE, interrupted |-> Never,
               deadline |-> Off, drain |-> Off]
<1>1. /\ NoSession \in SessionRecords
      /\ NoSession =
           [state |-> "none", credential |-> "none", released |-> TRUE,
            routed |-> FALSE, created |-> 0, activity |-> Never, streamed |-> FALSE,
            interrupted |-> Never, deadline |-> Off, drain |-> Off]
  BY WaiterConstants DEF NoSession, SessionRecords
<1> DEFINE q == [NoSession EXCEPT !.credential = r.credential]
<1>2. q = [state |-> "none", credential |-> r.credential, released |-> TRUE,
           routed |-> FALSE, created |-> 0, activity |-> Never, streamed |-> FALSE,
           interrupted |-> Never, deadline |-> Off, drain |-> Off]
  BY <1>1, Amending
<1> HIDE DEF q
<1>3. q \in SessionRecords
  BY <1>2, WaiterConstants DEF SessionRecords
<1>4. [q EXCEPT !.released = r.released] =
        [state |-> q.state, credential |-> q.credential, released |-> r.released,
         routed |-> q.routed, created |-> q.created, activity |-> q.activity,
         streamed |-> q.streamed, interrupted |-> q.interrupted,
         deadline |-> q.deadline, drain |-> q.drain]
  BY <1>3, Amending
<1>5. Idle(r) =
        [state |-> "none", credential |-> r.credential, released |-> r.released,
         routed |-> FALSE, created |-> 0, activity |-> Never, streamed |-> FALSE,
         interrupted |-> Never, deadline |-> Off, drain |-> Off]
  BY <1>2, <1>4 DEF q, Idle
<1> QED
  BY <1>5, WaiterConstants DEF SessionRecords

LEMMA EndingFields ==
  ASSUME NEW r \in SessionRecords, NEW x \in {"draining", "closed"},
         NEW y \in 0 .. MaxTime + Drain \cup {Off}
  PROVE  /\ [Idle(r) EXCEPT !.state = x, !.drain = y] \in SessionRecords
         /\ [Idle(r) EXCEPT !.state = x, !.drain = y] =
              [state |-> x, credential |-> r.credential, released |-> r.released,
               routed |-> FALSE, created |-> 0, activity |-> Never,
               streamed |-> FALSE, interrupted |-> Never, deadline |-> Off,
               drain |-> y]
<1> DEFINE p == Idle(r)
           q == [p EXCEPT !.state = x]
<1>1. p \in SessionRecords
  BY IdleFields
<1>2. p = [state |-> "none", credential |-> r.credential, released |-> r.released,
           routed |-> FALSE, created |-> 0, activity |-> Never, streamed |-> FALSE,
           interrupted |-> Never, deadline |-> Off, drain |-> Off]
  BY IdleFields
<1>d. p = Idle(r)
  OBVIOUS
<1> HIDE DEF p
<1>3. q = [state |-> x, credential |-> p.credential, released |-> p.released,
           routed |-> p.routed, created |-> p.created, activity |-> p.activity,
           streamed |-> p.streamed, interrupted |-> p.interrupted, deadline |-> p.deadline,
           drain |-> p.drain]
  BY <1>1, Amending
<1> HIDE DEF q
<1>4. q \in SessionRecords
  BY <1>1, <1>3 DEF SessionRecords
<1>5. [q EXCEPT !.drain = y] =
        [state |-> q.state, credential |-> q.credential, released |-> q.released,
         routed |-> q.routed, created |-> q.created, activity |-> q.activity,
         streamed |-> q.streamed, interrupted |-> q.interrupted, deadline |-> q.deadline,
         drain |-> y]
  BY <1>4, Amending
<1>6. [q EXCEPT !.drain = y] =
        [state |-> x, credential |-> r.credential, released |-> r.released,
         routed |-> FALSE, created |-> 0, activity |-> Never, streamed |-> FALSE,
         interrupted |-> Never, deadline |-> Off, drain |-> y]
  BY <1>2, <1>3, <1>5
<1>7. [Idle(r) EXCEPT !.state = x, !.drain = y] =
        [state |-> x, credential |-> r.credential, released |-> r.released,
         routed |-> FALSE, created |-> 0, activity |-> Never, streamed |-> FALSE,
         interrupted |-> Never, deadline |-> Off, drain |-> y]
  BY <1>6, <1>d DEF q
<1>8. [state |-> x, credential |-> r.credential, released |-> r.released,
       routed |-> FALSE, created |-> 0, activity |-> Never, streamed |-> FALSE,
       interrupted |-> Never, deadline |-> Off, drain |-> y] \in SessionRecords
  BY WaiterConstants DEF SessionRecords
<1> QED
  BY <1>7, <1>8

\* arm(): an open session has a timer, at its deadline or now.
LEMMA ArmedInTime ==
  ASSUME now \in Time, NEW s, NEW r, NEW X, Prior(now, s, r, X)
  PROVE  /\ Almost(now, s, Armed(s, r, X), X) /\ Keeps(r, Armed(s, r, X))
         /\ Armed(s, r, X).state = r.state
<1>1. r \in SessionRecords
  BY DEF Prior
<1>2. CASE r.state # "open"
  BY <1>1, <1>2 DEF Armed, Almost, Keeps
<1>3. CASE r.state = "open"
  <2> DEFINE d == Greatest(now, DeadlineOf(s, r, X))
             q == [r EXCEPT !.deadline = d]
  <2>1. /\ now \in 0 .. MaxTime /\ DeadlineOf(s, r, X) \in Int
        /\ DeadlineOf(s, r, X) <= r.created + Lifetime /\ r.created + Lifetime <= MaxTime
    BY <1>1, <1>3, DeadlineFacts, WaiterConstants DEF Prior
  <2>2. d \in now .. d /\ d \in Time
    <3>1. now \in Int /\ DeadlineOf(s, r, X) \in Int /\ DeadlineOf(s, r, X) <= MaxTime
      BY <1>1, <2>1, SessionFields, WaiterConstants, SessionConstants
    <3>2. d \in Int /\ d >= now /\ d \in {now, DeadlineOf(s, r, X)}
      BY <3>1, GreatestFacts
    <3> HIDE DEF d
    <3> QED
      BY <2>1, <3>1, <3>2, WaiterConstants
  <2>3. q = [state |-> r.state, credential |-> r.credential, released |-> r.released,
             routed |-> r.routed, created |-> r.created, activity |-> r.activity,
             streamed |-> r.streamed, interrupted |-> r.interrupted, deadline |-> d,
             drain |-> r.drain]
    BY <1>1, Amending
  <2>4. q = Armed(s, r, X)
    BY <1>3 DEF Armed
  <2> HIDE DEF q
  <2>5. DeadlineOf(s, q, X) = DeadlineOf(s, r, X)
    BY <1>1, <2>3, DeadlineFacts
  <2> HIDE DEF d
  <2>6. q \in SessionRecords
    BY <1>1, <2>2, <2>3 DEF SessionRecords
  <2>7. Prior(now, s, q, X)
    BY <1>3, <2>3, <2>6 DEF Prior
  <2>8. Almost(now, s, q, X)
    BY <2>2, <2>3, <2>5, <2>7 DEF Almost, d
  <2> QED
    BY <2>3, <2>4, <2>6, <2>8 DEF Keeps
<1> QED
  BY <1>2, <1>3

LEMMA CleanedFields ==
  ASSUME NEW r \in SessionRecords
  PROVE  /\ Cleaned(r) \in SessionRecords
         /\ Cleaned(r) =
              [state |-> "closed", credential |-> r.credential, released |-> r.released,
               routed |-> FALSE, created |-> 0, activity |-> Never, streamed |-> FALSE,
               interrupted |-> Never, deadline |-> Off, drain |-> Off]
<1>1. Off \in 0 .. MaxTime + Drain \cup {Off}
  OBVIOUS
<1> QED
  BY <1>1, EndingFields DEF Cleaned

\* settle(), the part that gives the slot back.
LEMMA ReleasedInTime ==
  ASSUME NEW n, NEW s, NEW r, NEW X, Almost(n, s, r, X),
         r.state = "draining" => r.drain \in n .. n + Drain
  PROVE  /\ SessionOK(n, s, Released(s, r, X), X) /\ Keeps(r, Released(s, r, X))
         /\ Released(s, r, X).state = r.state
<1>1. r \in SessionRecords /\ Prior(n, s, r, X)
  BY DEF Almost, Prior
<1>2. CASE r.state = "closed" /\ Spent(s, X)
  <2> DEFINE q == [r EXCEPT !.released = TRUE]
  <2>1. q = [state |-> r.state, credential |-> r.credential, released |-> TRUE,
             routed |-> r.routed, created |-> r.created, activity |-> r.activity,
             streamed |-> r.streamed, interrupted |-> r.interrupted, deadline |-> r.deadline,
             drain |-> r.drain]
    BY <1>1, Amending
  <2>2. q = Released(s, r, X)
    BY <1>2 DEF Released, Spent
  <2> HIDE DEF q
  <2>3. q \in SessionRecords
    BY <1>1, <2>1 DEF SessionRecords
  <2>4. Prior(n, s, q, X)
    BY <1>1, <1>2, <2>1, <2>3 DEF Prior
  <2>5. SessionOK(n, s, q, X)
    BY <1>2, <2>1, <2>4 DEF SessionOK, Almost
  <2>6. q.released = TRUE /\ q.credential = r.credential /\ q.state = r.state
    BY <2>1
  <2>7. Keeps(r, q)
    BY <2>3, <2>6 DEF Keeps
  <2> QED
    BY <2>2, <2>5, <2>6, <2>7
<1>3. CASE ~(r.state = "closed" /\ Spent(s, X))
  <2>1. Released(s, r, X) = r
    BY <1>3 DEF Released, Spent
  <2> QED
    BY <1>1, <1>3, <2>1 DEF SessionOK, Keeps
<1> QED
  BY <1>2, <1>3

\* cleanupSession(), where every close ends.
LEMMA ClosedInOrder ==
  ASSUME NEW n, NEW s, NEW r \in SessionRecords, NEW X, r.state # "none",
         r.released => Spent(s, X)
  PROVE  /\ SessionOK(n, s, Closed(s, r, X), X) /\ Keeps(r, Closed(s, r, X))
         /\ Closed(s, r, X).state = "closed"
<1> DEFINE q == Cleaned(r)
<1>1. /\ q \in SessionRecords
      /\ q = [state |-> "closed", credential |-> r.credential, released |-> r.released,
              routed |-> FALSE, created |-> 0, activity |-> Never, streamed |-> FALSE,
              interrupted |-> Never, deadline |-> Off, drain |-> Off]
  BY CleanedFields
<1>2. Closed(s, r, X) = Released(s, q, X)
  BY DEF Closed
<1> HIDE DEF q
<1>3. Almost(n, s, q, X)
  BY <1>1 DEF Almost, Prior
<1>4. /\ SessionOK(n, s, Released(s, q, X), X) /\ Keeps(q, Released(s, q, X))
      /\ Released(s, q, X).state = q.state
  BY <1>1, <1>3, ReleasedInTime
<1>5. Keeps(r, Released(s, q, X))
  BY <1>1, <1>4 DEF Keeps
<1> QED
  BY <1>1, <1>2, <1>4, <1>5

\* settle(): what is drained closes.
LEMMA SettledInTime ==
  ASSUME NEW n, NEW s, NEW r, NEW X, Almost(n, s, r, X)
  PROVE  /\ SessionOK(n, s, Settled(s, r, X), X) /\ Keeps(r, Settled(s, r, X))
         /\ \/ Settled(s, r, X).state = r.state
            \/ r.state = "draining" /\ Drained(s, X)
<1>1. CASE r.state = "draining" /\ Drained(s, X)
  <2>1. r \in SessionRecords /\ r.state # "none" /\ ~r.released
    BY <1>1, SessionFields DEF Almost, Prior
  <2>2. Settled(s, r, X) = Closed(s, r, X)
    BY <1>1 DEF Settled, Closed
  <2> QED
    BY <1>1, <2>1, <2>2, ClosedInOrder
<1>2. CASE ~(r.state = "draining" /\ Drained(s, X))
  <2>1. Settled(s, r, X) = Released(s, r, X)
    BY <1>2 DEF Settled
  <2>2. r.state = "draining" => r.drain \in n .. n + Drain
    BY <1>2 DEF Almost, Prior
  <2> QED
    BY <2>1, <2>2, ReleasedInTime
<1> QED
  BY <1>1, <1>2

\* beginClose()
LEMMA CloseBegun ==
  ASSUME now \in Time, NEW s, NEW r, NEW X, Almost(now, s, r, X), r.state = "open"
  PROVE  SessionOK(now, s, BeginClose(s, r, X), X) /\ Keeps(r, BeginClose(s, r, X))
<1> DEFINE y == IF Drained(s, X) THEN Off ELSE now + Drain
           q == [Idle(r) EXCEPT !.state = "draining", !.drain = y]
<1>1. now \in 0 .. MaxTime /\ y \in 0 .. MaxTime + Drain \cup {Off}
  BY WaiterConstants, SessionConstants
<1>2. r \in SessionRecords /\ ~r.released
  BY SessionFields DEF Almost, Prior
<1>3. /\ q \in SessionRecords
      /\ q = [state |-> "draining", credential |-> r.credential, released |-> r.released,
              routed |-> FALSE, created |-> 0, activity |-> Never, streamed |-> FALSE,
              interrupted |-> Never, deadline |-> Off, drain |-> y]
  BY <1>1, <1>2, EndingFields
<1>4. BeginClose(s, r, X) = Settled(s, q, X)
  BY DEF BeginClose
<1> HIDE DEF q
<1>5. ~Drained(s, X) => y \in now .. now + Drain
  BY <1>1, SessionConstants
<1> HIDE DEF y
<1>6. Almost(now, s, q, X)
  BY <1>2, <1>3, <1>5 DEF Almost, Prior
<1>7. SessionOK(now, s, Settled(s, q, X), X) /\ Keeps(q, Settled(s, q, X))
  BY <1>6, SettledInTime
<1>8. Keeps(r, Settled(s, q, X))
  BY <1>3, <1>7 DEF Keeps
<1> QED
  BY <1>4, <1>7, <1>8

\* activity() never brings the deadline forward, so the timer may stay.
LEMMA ActiveInTime ==
  ASSUME now \in Time, NEW s, NEW r, NEW X, Almost(now, s, r, X)
  PROVE  /\ Almost(now, s, Active(s, r, X), X) /\ Keeps(r, Active(s, r, X))
         /\ Active(s, r, X).state = r.state
<1>1. r \in SessionRecords
  BY DEF Almost, Prior
<1>2. CASE r.state # "open"
  BY <1>1, <1>2 DEF Active, Keeps
<1>3. CASE r.state = "open"
  <2> DEFINE y == IF Interrupted(s, r, X) THEN now ELSE Never
             q == [r EXCEPT !.activity = now, !.interrupted = y]
  <2>1. now \in 0 .. MaxTime /\ y \in Time \cup {Never}
    BY WaiterConstants
  <2>2. q = [state |-> r.state, credential |-> r.credential, released |-> r.released,
             routed |-> r.routed, created |-> r.created, activity |-> now,
             streamed |-> r.streamed, interrupted |-> y, deadline |-> r.deadline,
             drain |-> r.drain]
    BY <1>1, <2>1, ActivityFields
  <2>3. q = Active(s, r, X)
    BY <1>3 DEF Active
  <2> HIDE DEF q
  <2>4. q \in SessionRecords
    BY <1>1, <2>1, <2>2 DEF SessionRecords
  <2>5. /\ r.created <= now /\ r.activity <= now /\ r.interrupted <= now
        /\ r.created + Lifetime <= MaxTime
        /\ r.deadline \in now .. Greatest(now, DeadlineOf(s, r, X))
    BY <1>3 DEF Almost, Prior
  <2>6. Interrupted(s, q, X) = Interrupted(s, r, X)
    BY <2>2 DEF Interrupted
  <2>7. IdleEnd(s, r, X) \in Int /\ IdleEnd(s, q, X) \in Int /\ IdleEnd(s, r, X) <= IdleEnd(s, q, X)
    <3>1. /\ now \in Int /\ now >= 0 /\ now # Never
          /\ r.created \in Int /\ r.activity \in Int /\ r.interrupted \in Int
          /\ Grace \in Int /\ SessionIdle \in Int /\ OpenIdle \in Int
      BY <1>1, <2>1, SessionFields, SessionConstants
    <3>2. CASE Interrupted(s, r, X)
      <4>1. GraceEnd(r) \in Int /\ GraceEnd(r) <= now + Grace
        BY <2>5, <3>1 DEF GraceEnd
      <4>2. GraceEnd(q) = now + Grace
        BY <2>2, <3>1, <3>2 DEF GraceEnd
      <4>3. IdleEnd(s, q, X) = Greatest(now + Grace, now + SessionIdle)
        BY <2>2, <2>6, <3>1, <3>2, <4>2 DEF IdleEnd
      <4>4. \/ IdleEnd(s, r, X) = GraceEnd(r)
            \/ IdleEnd(s, r, X) = Greatest(GraceEnd(r), r.activity + SessionIdle)
        BY <3>2 DEF IdleEnd
      <4> QED
        BY <2>5, <3>1, <4>1, <4>3, <4>4 DEF Greatest
    <3>3. CASE ~Interrupted(s, r, X)
      <4>1. IdleEnd(s, q, X) = now + OpenIdle
        BY <2>2, <2>6, <3>1, <3>3 DEF IdleEnd
      <4>2. \/ IdleEnd(s, r, X) = r.created + OpenIdle
            \/ IdleEnd(s, r, X) = r.activity + OpenIdle
        BY <3>3 DEF IdleEnd
      <4> QED
        BY <2>5, <3>1, <4>1, <4>2
    <3> QED
      BY <3>2, <3>3
  <2>8. /\ DeadlineOf(s, r, X) \in Int /\ DeadlineOf(s, q, X) \in Int
        /\ DeadlineOf(s, r, X) <= DeadlineOf(s, q, X)
    <3>1. r.created \in Int /\ q.created = r.created /\ Lifetime \in Int
      BY <1>1, <2>2, SessionFields, SessionConstants, WaiterConstants
    <3> QED
      BY <2>7, <3>1 DEF DeadlineOf, Least
  <2>9. q.deadline \in now .. Greatest(now, DeadlineOf(s, q, X))
    BY <2>1, <2>2, <2>5, <2>8 DEF Greatest
  <2>10. Prior(now, s, q, X)
    <3>1. Prior(now, s, r, X)
      BY DEF Almost
    <3>2. q.created <= now /\ q.activity <= now /\ q.interrupted <= now
      BY <2>1, <2>2, <2>5, WaiterConstants, SessionConstants
    <3> QED
      BY <1>3, <2>2, <2>4, <2>5, <3>1, <3>2 DEF Prior
  <2> QED
    BY <2>2, <2>3, <2>4, <2>9, <2>10 DEF Almost, Keeps
<1> QED
  BY <1>2, <1>3

-----------------------------------------------------------------------------
(* Exchanges                                                                 *)

LEMMA SameTransfers ==
  ASSUME NEW n, NEW s, NEW r, NEW X, NEW Y, SessionOK(n, s, r, X),
         InFlight(s, X) = InFlight(s, Y), OpenResponses(s, X) = OpenResponses(s, Y)
  PROVE  SessionOK(n, s, r, Y)
<1>1. r = NoSession \/ r \in SessionRecords
  BY DEF SessionOK, Almost, Prior
<1>2. r # NoSession => DeadlineOf(s, r, X) = DeadlineOf(s, r, Y)
  BY <1>1, DeadlineFacts
<1> QED
  BY <1>2 DEF SessionOK, Almost, Prior, Spent

\* With less under way, a session is what it was before its slot is looked at.
LEMMA Shrunk ==
  ASSUME NEW n, NEW s, NEW r, NEW X, NEW Y, SessionOK(n, s, r, X), r.state # "none",
         InFlight(s, Y) \subseteq InFlight(s, X), OpenResponses(s, Y) \subseteq OpenResponses(s, X)
  PROVE  /\ Prior(n, s, r, Y)
         /\ OpenResponses(s, Y) = OpenResponses(s, X) => Almost(n, s, r, Y)
<1>1. r # NoSession
  BY DEF NoSession
<1>2. r \in SessionRecords
  BY <1>1 DEF SessionOK, Almost, Prior
<1>3. OpenResponses(s, Y) = OpenResponses(s, X) => DeadlineOf(s, r, Y) = DeadlineOf(s, r, X)
  BY <1>2, DeadlineFacts
<1> QED
  BY <1>1, <1>3 DEF SessionOK, Almost, Prior, Spent

(* The exchange e is written, or forgotten.                                  *)
Written(e, p, h) ==
  [exchanges EXCEPT ![e] =
     IF h = "done" /\ p = "ended" THEN NoExchange
     ELSE [session |-> exchanges[e].session, kind |-> exchanges[e].kind,
           response |-> p, handler |-> h]]

LEMMA WrittenExchange ==
  ASSUME NEW S, ExchangesOK(S, exchanges), NEW e \in Exchanges, exchanges[e] # NoExchange,
         NEW h \in {"ready", "running", "waiting", "done"},
         NEW p \in {"open", "stream", "ended"}
  PROVE  LET s == exchanges[e].session
             X == Written(e, p, h)
         IN
         /\ s \in Sessions /\ S[s].state # "none" /\ ExchangesOK(S, X)
         /\ \A t \in Sessions \ {s} : /\ InFlight(t, X) = InFlight(t, exchanges)
                                      /\ OpenResponses(t, X) = OpenResponses(t, exchanges)
                                      /\ RequestResponses(t, X) = RequestResponses(t, exchanges)
         /\ h = exchanges[e].handler \/ h \in {"ready", "done"} =>
              InFlight(s, X) \subseteq InFlight(s, exchanges)
         /\ p = exchanges[e].response \/ p = "ended" =>
              OpenResponses(s, X) \subseteq OpenResponses(s, exchanges)
         /\ (exchanges[e].response \in {"open", "stream"} <=> p \in {"open", "stream"}) =>
              OpenResponses(s, X) = OpenResponses(s, exchanges)
         /\ (exchanges[e].handler \in {"running", "waiting"} <=> h \in {"running", "waiting"}) =>
              InFlight(s, X) = InFlight(s, exchanges)
<1> DEFINE s == exchanges[e].session
           X == Written(e, p, h)
           x == [session |-> s, kind |-> exchanges[e].kind, response |-> p, handler |-> h]
<1>1. /\ exchanges \in [Exchanges -> ExchangeRecords]
      /\ s \in Sessions /\ S[s].state # "none"
      /\ exchanges[e].kind \in Kinds
      /\ exchanges[e].response \in {"open", "stream", "ended"}
      /\ exchanges[e].handler \in {"ready", "running", "waiting", "done"}
  BY DEF ExchangesOK, ExchangeRecords
<1>2. NoOne \notin Sessions /\ NoExchange \in ExchangeRecords /\ NoExchange.session = NoOne
      /\ NoExchange.handler = "none" /\ NoExchange.response = "none"
  BY SessionConstants DEF NoOne, Sessions, NoExchange, ExchangeRecords
<1>3. /\ x \in ExchangeRecords /\ x # NoExchange
      /\ x.session = s /\ x.kind = exchanges[e].kind /\ x.response = p /\ x.handler = h
  BY <1>1, <1>2 DEF ExchangeRecords
<1> HIDE DEF x
<1>4. /\ X \in [Exchanges -> ExchangeRecords]
      /\ \A f \in Exchanges \ {e} : X[f] = exchanges[f]
      /\ X[e] = x \/ (X[e] = NoExchange /\ h = "done" /\ p = "ended")
      /\ X[e] = x \/ X[e] = NoExchange
  BY <1>1, <1>2, <1>3 DEF x, Written
<1> HIDE DEF X
<1>5. ExchangesOK(S, X)
  BY <1>1, <1>3, <1>4 DEF ExchangesOK
<1>a. /\ X[e].session = s => X[e] = x
      /\ \A f \in Exchanges : X[f].session = s => exchanges[f].session = s
      /\ \A t \in Sessions \ {s}, f \in Exchanges :
           (X[f].session = t <=> exchanges[f].session = t) /\ (X[f].session = t => X[f] = exchanges[f])
  BY <1>1, <1>2, <1>3, <1>4
<1>6. ASSUME NEW t \in Sessions, t # s
      PROVE  /\ InFlight(t, X) = InFlight(t, exchanges)
             /\ OpenResponses(t, X) = OpenResponses(t, exchanges)
             /\ RequestResponses(t, X) = RequestResponses(t, exchanges)
  <2>1. Of(t, X) = Of(t, exchanges) /\ \A f \in Of(t, X) : X[f] = exchanges[f]
    BY <1>6, <1>a DEF Of
  <2> QED
    BY <2>1 DEF InFlight, OpenResponses, RequestResponses
<1>8. ASSUME h = exchanges[e].handler \/ h \in {"ready", "done"}, NEW f \in InFlight(s, X)
      PROVE  f \in InFlight(s, exchanges)
  BY <1>3, <1>4, <1>8, <1>a DEF InFlight, Of
<1>9. ASSUME p = exchanges[e].response \/ p = "ended", NEW f \in OpenResponses(s, X)
      PROVE  f \in OpenResponses(s, exchanges)
  BY <1>3, <1>4, <1>9, <1>a DEF OpenResponses, Of
<1>10. ASSUME exchanges[e].response \in {"open", "stream"} <=> p \in {"open", "stream"},
              NEW f \in Exchanges
       PROVE  f \in OpenResponses(s, X) <=> f \in OpenResponses(s, exchanges)
  BY <1>3, <1>4, <1>10, <1>a DEF OpenResponses, Of
<1>11. ASSUME exchanges[e].handler \in {"running", "waiting"} <=> h \in {"running", "waiting"},
              NEW f \in Exchanges
       PROVE  f \in InFlight(s, X) <=> f \in InFlight(s, exchanges)
  BY <1>3, <1>4, <1>11, <1>a DEF InFlight, Of
<1>12. /\ InFlight(s, X) \subseteq Exchanges /\ InFlight(s, exchanges) \subseteq Exchanges
       /\ OpenResponses(s, X) \subseteq Exchanges /\ OpenResponses(s, exchanges) \subseteq Exchanges
  BY DEF InFlight, OpenResponses, Of
<1> QED
  BY <1>1, <1>5, <1>6, <1>8, <1>9, <1>10, <1>11, <1>12 DEF X

\* A handler's exchange, as Handler and Response write it.
LEMMA HandlerWrites ==
  ASSUME NEW S, ExchangesOK(S, exchanges), NEW e \in Exchanges, exchanges[e] # NoExchange
  PROVE  /\ exchanges[e].response \in {"open", "stream", "ended"}
         /\ exchanges[e].handler \in {"ready", "running", "waiting", "done"}
         /\ \A h : Handler(e, h) = Written(e, exchanges[e].response, h)
         /\ \A p : Response(e, p) = Written(e, p, exchanges[e].handler)
<1>1. /\ exchanges[e] \in ExchangeRecords
      /\ exchanges[e].response # "none" /\ exchanges[e].handler # "none"
  BY DEF ExchangesOK
<1>2. ASSUME NEW h
      PROVE  [exchanges[e] EXCEPT !.handler = h] =
               [session |-> exchanges[e].session, kind |-> exchanges[e].kind,
                response |-> exchanges[e].response, handler |-> h]
  BY <1>1 DEF ExchangeRecords
<1>3. ASSUME NEW p
      PROVE  [exchanges[e] EXCEPT !.response = p] =
               [session |-> exchanges[e].session, kind |-> exchanges[e].kind,
                response |-> p, handler |-> exchanges[e].handler]
  BY <1>1 DEF ExchangeRecords
<1>4. ASSUME NEW h PROVE Handler(e, h) = Written(e, exchanges[e].response, h)
  BY <1>2 DEF Handler, With, Written
<1>5. ASSUME NEW p PROVE Response(e, p) = Written(e, p, exchanges[e].handler)
  BY <1>3 DEF Response, With, Written
<1>6. /\ exchanges[e].response \in {"open", "stream", "ended"}
      /\ exchanges[e].handler \in {"ready", "running", "waiting", "done"}
  BY <1>1 DEF ExchangeRecords
<1> QED
  BY <1>4, <1>5, <1>6

-----------------------------------------------------------------------------
(* The limits                                                                *)

LEMMA HeldFinite ==
  /\ IsFiniteSet(Held) /\ Cardinality(Held) \in Nat
  /\ \A c : IsFiniteSet(HeldBy(c)) /\ Cardinality(HeldBy(c)) \in Nat
<1>1. IsFiniteSet(Sessions)
  BY SessionConstants, FS_Interval DEF Sessions
<1>2. Held \subseteq Sessions /\ \A c : HeldBy(c) \subseteq Sessions
  BY DEF Held, HeldBy
<1> QED
  BY <1>1, <1>2, FS_Subset, FS_CardinalityType

LEMMA LimitsStay ==
  ASSUME LimitsKept,
         \A t \in Sessions : /\ sessions'[t].credential = sessions[t].credential
                             /\ sessions[t].released => sessions'[t].released
  PROVE  LimitsKept'
<1>1. Held' \subseteq Held /\ \A c : {s \in Held' : sessions'[s].credential = c} \subseteq HeldBy(c)
  BY DEF Held, HeldBy
<1>2. Cardinality(Held') <= Cardinality(Held) /\ Cardinality(Held') \in Nat
  BY <1>1, HeldFinite, FS_Subset, FS_CardinalityType
<1>3. \A c : LET H == {s \in Held' : sessions'[s].credential = c}
             IN  Cardinality(H) <= Cardinality(HeldBy(c)) /\ Cardinality(H) \in Nat
  BY <1>1, HeldFinite, FS_Subset, FS_CardinalityType
<1>4. ASSUME NEW c \in Credentials PROVE Cardinality(HeldBy(c)') <= MaxPerCredential
  <2>1. HeldBy(c)' = {s \in Held' : sessions'[s].credential = c}
    BY DEF HeldBy
  <2> QED
    BY <1>3, <2>1, HeldFinite, SessionConstants DEF LimitsKept
<1>5. Cardinality(Held') <= MaxSessions
  BY <1>2, HeldFinite, SessionConstants DEF LimitsKept
<1> QED
  BY <1>4, <1>5 DEF LimitsKept

\* Admits(): one more session may be held.
LEMMA LimitsAdmit ==
  ASSUME LimitsKept, NEW s \in Sessions, NEW c \in Credentials, Admits(c),
         sessions'[s].credential = c, \A t \in Sessions \ {s} : sessions'[t] = sessions[t]
  PROVE  LimitsKept'
<1>1. Held' \subseteq Held \cup {s}
  BY DEF Held
<1>2. Cardinality(Held \cup {s}) <= Cardinality(Held) + 1 /\ IsFiniteSet(Held \cup {s})
  <2>1. /\ IsFiniteSet(Held \cup {s})
        /\ Cardinality(Held \cup {s}) = Cardinality(Held)
           \/ Cardinality(Held \cup {s}) = Cardinality(Held) + 1
    BY HeldFinite, FS_AddElement
  <2> QED
    BY <2>1, HeldFinite
<1>3. Cardinality(Held') <= MaxSessions
  <2>1. Cardinality(Held') <= Cardinality(Held \cup {s}) /\ Cardinality(Held') \in Nat
        /\ Cardinality(Held \cup {s}) \in Nat
    BY <1>1, <1>2, FS_Subset, FS_CardinalityType
  <2> QED
    BY <1>2, <2>1, HeldFinite, SessionConstants DEF Admits
<1>4. ASSUME NEW b \in Credentials PROVE Cardinality(HeldBy(b)') <= MaxPerCredential
  <2>1. HeldBy(b)' = {t \in Held' : sessions'[t].credential = b}
    BY DEF HeldBy
  <2>2. HeldBy(b)' \subseteq IF b = c THEN HeldBy(b) \cup {s} ELSE HeldBy(b)
    BY <1>1, <2>1 DEF HeldBy, Held
  <2>3. CASE b = c
    <3>1. Cardinality(HeldBy(b) \cup {s}) <= Cardinality(HeldBy(b)) + 1
          /\ IsFiniteSet(HeldBy(b) \cup {s})
      BY HeldFinite, FS_AddElement, FS_CardinalityType
    <3>2. Cardinality(HeldBy(b)') <= Cardinality(HeldBy(b) \cup {s})
          /\ Cardinality(HeldBy(b)') \in Nat /\ Cardinality(HeldBy(b) \cup {s}) \in Nat
      BY <2>2, <2>3, <3>1, FS_Subset, FS_CardinalityType
    <3>3. Cardinality(HeldBy(b)) < MaxPerCredential
      BY <2>3 DEF Admits
    <3> QED
      BY <3>1, <3>2, <3>3, HeldFinite, SessionConstants
  <2>4. CASE b # c
    <3>1. Cardinality(HeldBy(b)') <= Cardinality(HeldBy(b)) /\ Cardinality(HeldBy(b)') \in Nat
      BY <2>2, <2>4, HeldFinite, FS_Subset, FS_CardinalityType
    <3> QED
      BY <3>1, HeldFinite, SessionConstants DEF LimitsKept
  <2> QED
    BY <2>3, <2>4
<1> QED
  BY <1>3, <1>4 DEF LimitsKept

-----------------------------------------------------------------------------
(* The steps                                                                 *)

\* What a session is changes with its own handlers alone.
LEMMA OneSession ==
  ASSUME IInv, NEW s \in Sessions, NEW q, Becomes(s, q), Keeps(sessions[s], q),
         SessionOK(now, s, q, exchanges'), ExchangesOK(sessions, exchanges'),
         \A t \in Sessions \ {s} : /\ InFlight(t, exchanges') = InFlight(t, exchanges)
                                   /\ OpenResponses(t, exchanges') = OpenResponses(t, exchanges),
         now' = now, UNCHANGED waitVars \/ WaitersInv', asked' \in 0 .. MaxAsked, closes' \in 0 .. MaxCloses
  PROVE  IInv'
<1>1. /\ sessions \in [Sessions -> SessionRecords] /\ q \in SessionRecords
      /\ sessions' = [sessions EXCEPT ![s] = q]
  BY DEF IInv, Keeps, Becomes
<1>2. /\ sessions' \in [Sessions -> SessionRecords] /\ sessions'[s] = q
      /\ \A t \in Sessions \ {s} : sessions'[t] = sessions[t]
  BY <1>1
<1>3. ASSUME NEW t \in Sessions PROVE SessionOK(now, t, sessions'[t], exchanges')
  <2>1. CASE t = s
    BY <1>2, <2>1
  <2>2. CASE t # s
    <3>1. SessionOK(now, t, sessions[t], exchanges)
      BY DEF IInv
    <3>2. SessionOK(now, t, sessions[t], exchanges')
      BY <2>2, <3>1, SameTransfers
    <3> QED
      BY <1>2, <2>2, <3>2
  <2> QED
    BY <2>1, <2>2
<1>4. ExchangesOK(sessions', exchanges')
  BY <1>2 DEF ExchangesOK, Keeps
<1>5. LimitsKept'
  <2>1. \A t \in Sessions : /\ sessions'[t].credential = sessions[t].credential
                            /\ sessions[t].released => sessions'[t].released
    BY <1>2 DEF Keeps
  <2> QED
    BY <2>1, LimitsStay DEF IInv
<1>6. WaitersInv'
  BY DEF IInv, WaitersInv, WaitersTypeOK, WaitersServed, waitVars
<1> QED
  BY <1>2, <1>3, <1>4, <1>5, <1>6 DEF IInv

\* What the invariant says of an exchange that is under way.
LEMMA UnderWay ==
  ASSUME IInv, NEW e \in Exchanges, exchanges[e] # NoExchange
  PROVE  LET s == exchanges[e].session IN
         /\ s \in Sessions /\ sessions[s].state # "none" /\ sessions[s] \in SessionRecords
         /\ SessionOK(now, s, sessions[s], exchanges) /\ ExchangesOK(sessions, exchanges)
         /\ now \in Time /\ asked \in 0 .. MaxAsked /\ closes \in 0 .. MaxCloses
         /\ sessions[s].released => Spent(s, exchanges)
<1>1. /\ exchanges[e].session \in Sessions /\ sessions[exchanges[e].session].state # "none"
  BY DEF IInv, ExchangesOK
<1>2. sessions[exchanges[e].session].released => Spent(exchanges[e].session, exchanges)
  BY <1>1 DEF IInv, SessionOK, Almost, Prior, NoSession
<1> QED
  BY <1>1, <1>2 DEF IInv, WaitersInv, WaitersTypeOK

LEMMA KeepsSelf ==
  ASSUME NEW r \in SessionRecords PROVE Keeps(r, r)
BY DEF Keeps

LEMMA KeepsOn ==
  ASSUME NEW p, NEW q, NEW r, Keeps(p, q), Keeps(q, r) PROVE Keeps(p, r)
BY DEF Keeps

LEMMA InitializeStep ==
  ASSUME IInv, FreshInv, NEW e \in Exchanges, Initialize(e) PROVE IInv'
<1> DEFINE s == exchanges[e].session
           r == sessions[s]
           X == Handler(e, "done")
<1>1. exchanges[e] # NoExchange /\ exchanges[e].handler = "ready"
  BY DEF Initialize, NoExchange
<1>2. /\ s \in Sessions /\ r.state # "none" /\ r \in SessionRecords
      /\ SessionOK(now, s, r, exchanges) /\ ExchangesOK(sessions, exchanges)
      /\ now \in Time /\ asked \in 0 .. MaxAsked /\ closes \in 0 .. MaxCloses
      /\ r.released => Spent(s, exchanges)
  BY <1>1, UnderWay
<1>3. /\ ExchangesOK(sessions, X)
      /\ \A t \in Sessions \ {s} : /\ InFlight(t, X) = InFlight(t, exchanges)
                                   /\ OpenResponses(t, X) = OpenResponses(t, exchanges)
      /\ InFlight(s, X) = InFlight(s, exchanges) /\ OpenResponses(s, X) = OpenResponses(s, exchanges)
  BY <1>1, <1>2, HandlerWrites, WrittenExchange
<1>4. UNCHANGED <<now, waitVars, asked, closes>> /\ exchanges' = X
  BY DEF Initialize
<1>5. CASE Becomes(s, [r EXCEPT !.routed = TRUE])
  <2> DEFINE q == [r EXCEPT !.routed = TRUE]
  <2>1. q = [state |-> r.state, credential |-> r.credential, released |-> r.released,
             routed |-> TRUE, created |-> r.created, activity |-> r.activity,
             streamed |-> r.streamed, interrupted |-> r.interrupted, deadline |-> r.deadline,
             drain |-> r.drain]
    BY <1>2, Amending
  <2>2. r.state = "open"
    BY DEF Initialize, Initialising, FreshInv, Fresh
  <2>3. Becomes(s, q)
    BY <1>5
  <2> HIDE DEF q
  <2>4. q \in SessionRecords /\ q.routed = TRUE
    BY <1>2, <2>1 DEF SessionRecords
  <2>5. r # NoSession /\ SessionOK(now, s, r, X)
    BY <1>2, <1>3, SameTransfers DEF NoSession
  <2>6. DeadlineOf(s, q, X) = DeadlineOf(s, r, X)
    BY <1>2, <2>1, DeadlineFacts
  <2>7. SessionOK(now, s, q, X)
    <3>1. Prior(now, s, q, X)
      BY <2>1, <2>2, <2>4, <2>5 DEF SessionOK, Almost, Prior
    <3> QED
      BY <2>1, <2>5, <2>6, <3>1 DEF SessionOK, Almost
  <2>8. Keeps(r, q)
    BY <2>1, <2>4 DEF Keeps
  <2> QED
    BY <1>2, <1>3, <1>4, <2>3, <2>7, <2>8, OneSession
<1>6. CASE Becomes(s, Closed(s, r, X))
  <2>1. r.released => Spent(s, X)
    BY <1>2, <1>3 DEF Spent
  <2>2. SessionOK(now, s, Closed(s, r, X), X) /\ Keeps(r, Closed(s, r, X))
    BY <1>2, <2>1, ClosedInOrder
  <2> QED
    BY <1>2, <1>3, <1>4, <1>6, <2>2, OneSession
<1> QED
  BY <1>5, <1>6 DEF Initialize

LEMMA DeleteStep ==
  ASSUME IInv, NEW e \in Exchanges, Delete(e) PROVE IInv'
<1> DEFINE s == exchanges[e].session
           r == sessions[s]
           X == Handler(e, "done")
<1>1. exchanges[e] # NoExchange /\ exchanges[e].handler = "ready"
  BY DEF Delete, NoExchange
<1>2. /\ s \in Sessions /\ r.state # "none" /\ r \in SessionRecords
      /\ ExchangesOK(sessions, exchanges)
      /\ asked \in 0 .. MaxAsked /\ closes \in 0 .. MaxCloses
      /\ r.released => Spent(s, exchanges)
  BY <1>1, UnderWay
<1>3. /\ ExchangesOK(sessions, X)
      /\ \A t \in Sessions \ {s} : /\ InFlight(t, X) = InFlight(t, exchanges)
                                   /\ OpenResponses(t, X) = OpenResponses(t, exchanges)
      /\ InFlight(s, X) = InFlight(s, exchanges) /\ OpenResponses(s, X) = OpenResponses(s, exchanges)
  BY <1>1, <1>2, HandlerWrites, WrittenExchange
<1>4. /\ UNCHANGED <<now, waitVars, asked, closes>> /\ exchanges' = X
      /\ Becomes(s, Closed(s, r, X))
  BY DEF Delete
<1>5. r.released => Spent(s, X)
  BY <1>2, <1>3 DEF Spent
<1>6. SessionOK(now, s, Closed(s, r, X), X) /\ Keeps(r, Closed(s, r, X))
  BY <1>2, <1>5, ClosedInOrder
<1> QED
  BY <1>2, <1>3, <1>4, <1>6, OneSession

LEMMA CountsInTime ==
  ASSUME now \in Time, NEW s, NEW r, NEW X, NEW e, Almost(now, s, r, X)
  PROVE  /\ Almost(now, s, Counts(s, e, r, X), X) /\ Keeps(r, Counts(s, e, r, X))
         /\ Counts(s, e, r, X).state = r.state
<1>1. r \in SessionRecords
  BY DEF Almost, Prior
<1> QED
  BY <1>1, ActiveInTime, KeepsSelf DEF Counts

LEMMA HandleStep ==
  ASSUME IInv, NEW e \in Exchanges, Handle(e) PROVE IInv'
<1> DEFINE s == exchanges[e].session
           r == sessions[s]
           h == IF r.state = "open" THEN "running" ELSE "done"
           X == Handler(e, h)
           q == IF r.state = "open" THEN Counts(s, e, r, X) ELSE r
<1>1. exchanges[e] # NoExchange /\ exchanges[e].handler = "ready"
  BY DEF Handle, NoExchange
<1>2. /\ s \in Sessions /\ r.state # "none" /\ r \in SessionRecords
      /\ SessionOK(now, s, r, exchanges) /\ ExchangesOK(sessions, exchanges)
      /\ now \in Time /\ asked \in 0 .. MaxAsked /\ closes \in 0 .. MaxCloses
      /\ r.released => Spent(s, exchanges)
  BY <1>1, UnderWay
<1>3. /\ ExchangesOK(sessions, X)
      /\ \A t \in Sessions \ {s} : /\ InFlight(t, X) = InFlight(t, exchanges)
                                   /\ OpenResponses(t, X) = OpenResponses(t, exchanges)
      /\ OpenResponses(s, X) = OpenResponses(s, exchanges)
      /\ r.state # "open" => InFlight(s, X) = InFlight(s, exchanges)
  BY <1>1, <1>2, HandlerWrites, WrittenExchange
<1>4. UNCHANGED <<now, waitVars, asked, closes>> /\ exchanges' = X /\ Becomes(s, q)
  BY DEF Handle
<1>5. SessionOK(now, s, q, X) /\ Keeps(r, q)
  <2>1. CASE r.state # "open"
    BY <1>2, <1>3, <2>1, SameTransfers, KeepsSelf
  <2>2. CASE r.state = "open"
    <3>1. Almost(now, s, r, exchanges) /\ ~r.released
      BY <1>2, <2>2, SessionFields DEF SessionOK, Almost, Prior, NoSession
    <3>2. DeadlineOf(s, r, X) = DeadlineOf(s, r, exchanges)
      BY <1>2, <1>3, DeadlineFacts
    <3>3. Almost(now, s, r, X)
      BY <2>2, <3>1, <3>2 DEF Almost, Prior
    <3>4. Almost(now, s, q, X) /\ Keeps(r, q) /\ q.state = r.state
      BY <1>2, <2>2, <3>3, CountsInTime
    <3> QED
      BY <2>2, <3>4 DEF SessionOK
  <2> QED
    BY <2>1, <2>2
<1> QED
  BY <1>2, <1>3, <1>4, <1>5, OneSession

LEMMA SettleStep ==
  ASSUME IInv, NEW e \in Exchanges, Settle(e) PROVE IInv'
<1> DEFINE s == exchanges[e].session
           r == sessions[s]
           X == Handler(e, "done")
           a == Counts(s, e, r, X)
           q == Settled(s, a, X)
<1>1. exchanges[e] # NoExchange
  BY DEF Settle, NoExchange
<1>2. /\ s \in Sessions /\ r.state # "none" /\ r \in SessionRecords
      /\ SessionOK(now, s, r, exchanges) /\ ExchangesOK(sessions, exchanges)
      /\ now \in Time /\ asked \in 0 .. MaxAsked /\ closes \in 0 .. MaxCloses
  BY <1>1, UnderWay
<1>3. /\ ExchangesOK(sessions, X)
      /\ \A t \in Sessions \ {s} : /\ InFlight(t, X) = InFlight(t, exchanges)
                                   /\ OpenResponses(t, X) = OpenResponses(t, exchanges)
      /\ OpenResponses(s, X) = OpenResponses(s, exchanges)
      /\ InFlight(s, X) \subseteq InFlight(s, exchanges)
  <2>1. /\ exchanges[e].response \in {"open", "stream", "ended"}
        /\ X = Written(e, exchanges[e].response, "done")
    BY <1>1, <1>2, HandlerWrites
  <2> HIDE DEF X
  <2> QED
    BY <1>1, <1>2, <2>1, WrittenExchange
<1>4. UNCHANGED <<now, waitVars, asked, closes>> /\ exchanges' = X /\ Becomes(s, q)
  BY DEF Settle
<1>5. Almost(now, s, r, X)
  BY <1>2, <1>3, Shrunk
<1>6. Almost(now, s, a, X) /\ Keeps(r, a)
  BY <1>2, <1>5, CountsInTime
<1>7. SessionOK(now, s, q, X) /\ Keeps(a, q)
  BY <1>6, SettledInTime
<1>8. Keeps(r, q)
  BY <1>6, <1>7, KeepsOn
<1> QED
  BY <1>2, <1>3, <1>4, <1>7, <1>8, OneSession

\* What a stream writes of its exchange: it is taken, or refused.
LEMMA StreamWritten ==
  ASSUME IInv, NEW e \in Exchanges, exchanges[e] # NoExchange, NEW taken \in BOOLEAN,
         taken \/ exchanges[e].response = "open"
  PROVE  LET X == [Handler(e, "done") EXCEPT ![e].response = IF taken THEN @ ELSE "stream"] IN
         /\ taken => X = Handler(e, "done")
         /\ ~taken => X = Written(e, "stream", "done")
<1> DEFINE s == exchanges[e].session
           H == Handler(e, "done")
           X == [H EXCEPT ![e].response = IF taken THEN @ ELSE "stream"]
<1>1. /\ exchanges \in [Exchanges -> ExchangeRecords] /\ NoExchange \in ExchangeRecords
      /\ exchanges[e].response \in {"open", "stream", "ended"}
      /\ H = Written(e, exchanges[e].response, "done")
  BY HandlerWrites DEF IInv, ExchangesOK, NoExchange, ExchangeRecords
<1>2. ASSUME taken PROVE X = H
  <2>1. H \in [Exchanges -> ExchangeRecords]
    <3>1. [session |-> s, kind |-> exchanges[e].kind, response |-> exchanges[e].response,
           handler |-> "done"] \in ExchangeRecords
      BY <1>1 DEF ExchangeRecords
    <3> HIDE DEF H
    <3> QED
      BY <1>1, <3>1 DEF Written
  <2> HIDE DEF H
  <2>2. \A x \in ExchangeRecords : [x EXCEPT !.response = x.response] = x
    BY DEF ExchangeRecords
  <2>3. X = [H EXCEPT ![e] = [H[e] EXCEPT !.response = H[e].response]]
    BY <1>2
  <2> QED
    BY <2>1, <2>2, <2>3
<1>3. ASSUME ~taken PROVE X = Written(e, "stream", "done")
  <2> DEFINE x == [session |-> s, kind |-> exchanges[e].kind, response |-> "open",
                   handler |-> "done"]
  <2>1. x \in ExchangeRecords
    BY <1>1 DEF ExchangeRecords
  <2>2. [x EXCEPT !.response = "stream"] =
          [session |-> s, kind |-> exchanges[e].kind, response |-> "stream", handler |-> "done"]
    OBVIOUS
  <2>3. H = [exchanges EXCEPT ![e] = x]
    BY <1>1, <1>3 DEF Written
  <2> HIDE DEF H, x
  <2>4. H[e] = x
    BY <1>1, <2>3
  <2>5. X = [H EXCEPT ![e] = [H[e] EXCEPT !.response = "stream"]]
    BY <1>3
  <2>6. X = [exchanges EXCEPT ![e] = [x EXCEPT !.response = "stream"]]
    BY <1>1, <2>3, <2>4, <2>5
  <2> QED
    BY <2>2, <2>6 DEF Written
<1> QED
  BY <1>2, <1>3

LEMMA StreamStep ==
  ASSUME IInv, NEW e \in Exchanges, Stream(e) PROVE IInv'
<1> DEFINE s == exchanges[e].session
           r == sessions[s]
           streaming == \E f \in Of(s, exchanges) : exchanges[f].response = "stream"
           taken == r.state = "closed" \/ streaming \/ exchanges[e].response # "open"
           H == Handler(e, "done")
           X == [H EXCEPT ![e].response = IF taken THEN @ ELSE "stream"]
           p == [r EXCEPT !.streamed = TRUE]
           a == Armed(s, p, X)
           q == Settled(s, a, X)
<1>1. exchanges[e] # NoExchange /\ exchanges[e].handler = "ready"
  BY DEF Stream, NoExchange
<1>2. /\ s \in Sessions /\ r.state # "none" /\ r \in SessionRecords
      /\ SessionOK(now, s, r, exchanges) /\ ExchangesOK(sessions, exchanges)
      /\ now \in Time /\ asked \in 0 .. MaxAsked /\ closes \in 0 .. MaxCloses
  BY <1>1, UnderWay
<1>3. UNCHANGED <<now, waitVars, asked, closes>> /\ exchanges' = X
  BY DEF Stream
<1>4. /\ exchanges \in [Exchanges -> ExchangeRecords] /\ NoExchange \in ExchangeRecords
      /\ exchanges[e].response \in {"open", "stream", "ended"}
      /\ H = Written(e, exchanges[e].response, "done")
  BY <1>1, <1>2, HandlerWrites DEF ExchangesOK, NoExchange, ExchangeRecords
<1>5. CASE taken
  <2>2. X = H
    BY <1>1, <1>5, StreamWritten
  <2>3. /\ ExchangesOK(sessions, H)
        /\ \A t \in Sessions \ {s} : /\ InFlight(t, H) = InFlight(t, exchanges)
                                     /\ OpenResponses(t, H) = OpenResponses(t, exchanges)
        /\ OpenResponses(s, H) = OpenResponses(s, exchanges)
        /\ InFlight(s, H) = InFlight(s, exchanges)
    <3> HIDE DEF H
    <3> QED
      BY <1>1, <1>2, <1>4, WrittenExchange
  <2>4. Becomes(s, r)
    BY <1>5 DEF Stream
  <2>5. SessionOK(now, s, r, H) /\ Keeps(r, r)
    BY <1>2, <2>3, SameTransfers, KeepsSelf
  <2> QED
    BY <1>2, <1>3, <2>2, <2>3, <2>4, <2>5, OneSession
<1>6. CASE ~taken
  <2>1. exchanges[e].response = "open" /\ Becomes(s, q)
    BY <1>6 DEF Stream
  <2>2. X = Written(e, "stream", "done")
    BY <1>1, <1>6, <2>1, StreamWritten
  <2> HIDE DEF X
  <2>3. /\ ExchangesOK(sessions, X)
        /\ \A t \in Sessions \ {s} : /\ InFlight(t, X) = InFlight(t, exchanges)
                                     /\ OpenResponses(t, X) = OpenResponses(t, exchanges)
        /\ OpenResponses(s, X) = OpenResponses(s, exchanges)
        /\ InFlight(s, X) \subseteq InFlight(s, exchanges)
    BY <1>1, <1>2, <2>1, <2>2, WrittenExchange
  <2>4. Almost(now, s, r, X)
    BY <1>2, <2>3, Shrunk
  <2>5. /\ p \in SessionRecords
        /\ p = [state |-> r.state, credential |-> r.credential, released |-> r.released,
                routed |-> r.routed, created |-> r.created, activity |-> r.activity,
                streamed |-> TRUE, interrupted |-> r.interrupted, deadline |-> r.deadline,
                drain |-> r.drain]
    <3>1. p = [state |-> r.state, credential |-> r.credential, released |-> r.released,
               routed |-> r.routed, created |-> r.created, activity |-> r.activity,
               streamed |-> TRUE, interrupted |-> r.interrupted, deadline |-> r.deadline,
               drain |-> r.drain]
      BY <1>2, Amending
    <3> HIDE DEF p
    <3>2. p \in SessionRecords
      BY <1>2, <3>1 DEF SessionRecords
    <3> QED
      BY <3>1, <3>2
  <2> HIDE DEF p
  <2>6. Prior(now, s, p, X) /\ Keeps(r, p)
    BY <2>4, <2>5 DEF Almost, Prior, Keeps
  <2>7. Almost(now, s, a, X) /\ Keeps(p, a)
    BY <1>2, <2>6, ArmedInTime
  <2>8. SessionOK(now, s, q, X) /\ Keeps(a, q)
    BY <2>7, SettledInTime
  <2>9. Keeps(r, q)
    BY <2>6, <2>7, <2>8, KeepsOn
  <2> QED
    BY <1>2, <1>3, <2>1, <2>3, <2>8, <2>9, OneSession
<1> QED
  BY <1>5, <1>6

LEMMA EndStep ==
  ASSUME IInv, NEW e \in Exchanges, End(e) PROVE IInv'
<1> DEFINE s == exchanges[e].session
           r == sessions[s]
           X == Response(e, "ended")
           i == [r EXCEPT !.interrupted = now]
           p == IF Interrupted(s, r, X) /\ r.interrupted = Never THEN i ELSE r
           a == Armed(s, p, X)
           q == Settled(s, a, X)
<1>1. exchanges[e] # NoExchange
  BY DEF End, NoExchange
<1>2. /\ s \in Sessions /\ r.state # "none" /\ r \in SessionRecords
      /\ SessionOK(now, s, r, exchanges) /\ ExchangesOK(sessions, exchanges)
      /\ now \in Time /\ asked \in 0 .. MaxAsked /\ closes \in 0 .. MaxCloses
  BY <1>1, UnderWay
<1>3. UNCHANGED <<now, waitVars, asked, closes>> /\ exchanges' = X /\ Becomes(s, q)
  BY DEF End
<1>4. /\ ExchangesOK(sessions, X)
      /\ \A t \in Sessions \ {s} : /\ InFlight(t, X) = InFlight(t, exchanges)
                                   /\ OpenResponses(t, X) = OpenResponses(t, exchanges)
      /\ OpenResponses(s, X) \subseteq OpenResponses(s, exchanges)
      /\ InFlight(s, X) \subseteq InFlight(s, exchanges)
  <2>1. /\ exchanges[e].handler \in {"ready", "running", "waiting", "done"}
        /\ X = Written(e, "ended", exchanges[e].handler)
    BY <1>1, <1>2, HandlerWrites
  <2> HIDE DEF X
  <2> QED
    BY <1>1, <1>2, <2>1, WrittenExchange
<1> HIDE DEF X
<1>5. Prior(now, s, r, X)
  BY <1>2, <1>4, Shrunk
<1>6. /\ i \in SessionRecords
      /\ i = [state |-> r.state, credential |-> r.credential, released |-> r.released,
              routed |-> r.routed, created |-> r.created, activity |-> r.activity,
              streamed |-> r.streamed, interrupted |-> now, deadline |-> r.deadline,
              drain |-> r.drain]
  <2>1. i = [state |-> r.state, credential |-> r.credential, released |-> r.released,
             routed |-> r.routed, created |-> r.created, activity |-> r.activity,
             streamed |-> r.streamed, interrupted |-> now, deadline |-> r.deadline,
             drain |-> r.drain]
    BY <1>2, Amending
  <2> HIDE DEF i
  <2>2. i \in SessionRecords
    BY <1>2, <2>1 DEF SessionRecords
  <2> QED
    BY <2>1, <2>2
<1> HIDE DEF i
<1>7. Prior(now, s, i, X) /\ Keeps(r, i)
  <2>1. i.interrupted <= now
    BY <1>2, <1>6, WaiterConstants
  <2> QED
    BY <1>5, <1>6, <2>1 DEF Prior, Keeps
<1>8. Prior(now, s, p, X) /\ Keeps(r, p)
  BY <1>2, <1>5, <1>7, KeepsSelf
<1> HIDE DEF p
<1>9. Almost(now, s, a, X) /\ Keeps(p, a)
  BY <1>2, <1>8, ArmedInTime
<1>10. SessionOK(now, s, q, X) /\ Keeps(a, q)
  BY <1>9, SettledInTime
<1>11. Keeps(r, q)
  BY <1>8, <1>9, <1>10, KeepsOn
<1> QED
  BY <1>2, <1>3, <1>4, <1>10, <1>11, OneSession

\* A new exchange of a session whose responses it adds to.
LEMMA ExchangeBegins ==
  ASSUME IInv, NEW e \in Exchanges, NEW s \in Sessions, NEW kind \in Kinds, Begins(e, s, kind)
  PROVE  /\ exchanges' \in [Exchanges -> ExchangeRecords]
         /\ exchanges'[e].session = s /\ exchanges'[e].kind = kind
         /\ exchanges'[e].response = "open" /\ exchanges'[e].handler = "ready"
         /\ \A f \in Exchanges \ {e} : exchanges'[f] = exchanges[f]
         /\ \A t \in Sessions \ {s} : /\ InFlight(t, exchanges') = InFlight(t, exchanges)
                                      /\ OpenResponses(t, exchanges') = OpenResponses(t, exchanges)
         /\ InFlight(s, exchanges') = InFlight(s, exchanges)
         /\ asked' \in 0 .. MaxAsked
<1> DEFINE x == [session |-> s, kind |-> kind, response |-> "open", handler |-> "ready"]
<1>1. /\ exchanges \in [Exchanges -> ExchangeRecords] /\ exchanges[e] = NoExchange
      /\ exchanges' = [exchanges EXCEPT ![e] = x]
  BY DEF Begins, IInv, ExchangesOK
<1>2. x \in ExchangeRecords /\ x.session = s /\ x.kind = kind /\ x.response = "open"
      /\ x.handler = "ready"
  BY DEF ExchangeRecords
<1> HIDE DEF x
<1>3. /\ exchanges' \in [Exchanges -> ExchangeRecords] /\ exchanges'[e] = x
      /\ \A f \in Exchanges \ {e} : exchanges'[f] = exchanges[f]
  BY <1>1, <1>2
<1>4. /\ NoOne \notin Sessions /\ exchanges[e].session = NoOne /\ exchanges[e].handler = "none"
      /\ exchanges[e].response = "none"
  BY <1>1, SessionConstants DEF NoOne, Sessions, NoExchange
<1>5. ASSUME NEW t \in Sessions \ {s}
      PROVE  /\ InFlight(t, exchanges') = InFlight(t, exchanges)
             /\ OpenResponses(t, exchanges') = OpenResponses(t, exchanges)
  <2>1. Of(t, exchanges') = Of(t, exchanges) /\ \A f \in Of(t, exchanges) : exchanges'[f] = exchanges[f]
    BY <1>2, <1>3, <1>4 DEF Of
  <2> QED
    BY <2>1 DEF InFlight, OpenResponses
<1>6. InFlight(s, exchanges') = InFlight(s, exchanges)
  BY <1>2, <1>3, <1>4 DEF InFlight, Of
<1>7. asked' \in 0 .. MaxAsked
  BY SessionConstants DEF Begins, IInv
<1> QED
  BY <1>2, <1>3, <1>5, <1>6, <1>7

LEMMA ReceiveStep ==
  ASSUME IInv, NEW e \in Exchanges, NEW s \in Sessions, NEW kind \in Kinds, Receive(e, s, kind)
  PROVE  IInv'
<1> DEFINE r == sessions[s]
           q == Armed(s, r, exchanges')
<1>1. /\ r \in SessionRecords /\ SessionOK(now, s, r, exchanges) /\ now \in Time
      /\ r.routed /\ r # NoSession /\ closes \in 0 .. MaxCloses
  BY DEF IInv, Receive, NoSession, WaitersInv, WaitersTypeOK
<1>2. Prior(now, s, r, exchanges) /\ ~r.released /\ r.state \in {"open", "draining"}
  BY <1>1, SessionFields DEF SessionOK, Almost, Prior
<1>3. r.state = "draining" => r.drain \in now .. now + Drain
  BY <1>1 DEF SessionOK
<1>4. Prior(now, s, r, exchanges')
  BY <1>2, <1>3 DEF Prior
<1>5. Almost(now, s, q, exchanges') /\ Keeps(r, q) /\ q.state = r.state
  BY <1>1, <1>4, ArmedInTime
<1>6. q.state = "draining" => q.drain \in now .. now + Drain
  BY <1>1, <1>3, <1>5 DEF Armed
<1>7. SessionOK(now, s, q, exchanges')
  BY <1>2, <1>5, <1>6 DEF SessionOK
<1>8. /\ Begins(e, s, kind) /\ Becomes(s, q) /\ UNCHANGED <<now, waitVars, closes>>
  BY DEF Receive
<1>9. ExchangesOK(sessions, exchanges')
  <2>1. ExchangesOK(sessions, exchanges) /\ r.state # "none"
    BY <1>2 DEF IInv
  <2> QED
    BY <1>8, <2>1, ExchangeBegins DEF ExchangesOK
<1> QED
  BY <1>1, <1>5, <1>7, <1>8, <1>9, ExchangeBegins, OneSession

LEMMA AdmitStep ==
  ASSUME IInv, NEW e \in Exchanges, NEW s \in Sessions, NEW c \in Credentials, Admit(s, c, e)
  PROVE  IInv'
<1> DEFINE r == [NoSession EXCEPT !.state = "open", !.credential = c, !.released = FALSE, !.created = now]
           q == Armed(s, r, exchanges')
<1>1. /\ Admits(c) /\ now + Lifetime + Drain <= MaxTime /\ Begins(e, s, "initialize")
      /\ Becomes(s, q) /\ UNCHANGED <<now, waitVars, closes>>
  BY DEF Admit
<1>2. /\ now \in 0 .. MaxTime /\ sessions \in [Sessions -> SessionRecords]
      /\ "initialize" \in Kinds /\ closes \in 0 .. MaxCloses
  BY WaiterConstants DEF IInv, WaitersInv, WaitersTypeOK, Kinds
<1>3. sessions[s].state = "none"
  BY DEF Admit, Sessions
<1>4. \A f \in Exchanges : exchanges[f].session # s
  <2>1. NoOne \notin Sessions /\ NoExchange.session = NoOne
    BY SessionConstants DEF NoOne, Sessions, NoExchange
  <2> QED
    BY <1>3, <2>1 DEF IInv, ExchangesOK
<1>5. InFlight(s, exchanges') = {}
  <2>1. InFlight(s, exchanges) = {}
    BY <1>4 DEF InFlight, Of
  <2> QED
    BY <1>1, <1>2, <2>1, ExchangeBegins
<1>6. r = [state |-> "open", credential |-> c, released |-> FALSE, routed |-> FALSE,
           created |-> now, activity |-> Never, streamed |-> FALSE, interrupted |-> Never,
           deadline |-> Off, drain |-> Off]
  BY <1>2, OpenedFields, WaiterConstants
<1>7. [state |-> "open", credential |-> c, released |-> FALSE, routed |-> FALSE,
       created |-> now, activity |-> Never, streamed |-> FALSE, interrupted |-> Never,
       deadline |-> Off, drain |-> Off] \in SessionRecords
  BY <1>2, WaiterConstants DEF SessionRecords
<1> HIDE DEF r
<1>8. Prior(now, s, r, exchanges')
  <2>1. Never <= now /\ now + Lifetime <= MaxTime
    BY <1>1, <1>2, SessionConstants, WaiterConstants
  <2>2. now <= now
    BY <1>2
  <2> QED
    BY <1>6, <1>7, <2>1, <2>2 DEF Prior
<1>9. Almost(now, s, q, exchanges') /\ q.state = "open" /\ Keeps(r, q)
  BY <1>2, <1>6, <1>8, ArmedInTime, WaiterConstants
<1>10. SessionOK(now, s, q, exchanges') /\ q \in SessionRecords /\ q.credential = c
  BY <1>6, <1>9 DEF SessionOK, Keeps
<1>11. /\ sessions' \in [Sessions -> SessionRecords] /\ sessions'[s] = q
       /\ \A t \in Sessions \ {s} : sessions'[t] = sessions[t]
  BY <1>1, <1>2, <1>10 DEF Becomes
<1>12. ASSUME NEW t \in Sessions PROVE SessionOK(now, t, sessions'[t], exchanges')
  <2>1. CASE t = s
    BY <1>10, <1>11, <2>1
  <2>2. CASE t # s
    <3>1. SessionOK(now, t, sessions[t], exchanges)
      BY DEF IInv
    <3>2. /\ InFlight(t, exchanges') = InFlight(t, exchanges)
          /\ OpenResponses(t, exchanges') = OpenResponses(t, exchanges)
      BY <1>1, <1>2, <2>2, ExchangeBegins
    <3>3. SessionOK(now, t, sessions[t], exchanges')
      BY <3>1, <3>2, SameTransfers
    <3> QED
      BY <1>11, <2>2, <3>3
  <2> QED
    BY <2>1, <2>2
<1>13. ExchangesOK(sessions', exchanges')
  <2>1. /\ exchanges' \in [Exchanges -> ExchangeRecords]
        /\ exchanges'[e].session = s /\ exchanges'[e].kind = "initialize"
        /\ exchanges'[e].response = "open" /\ exchanges'[e].handler = "ready"
        /\ \A f \in Exchanges \ {e} : exchanges'[f] = exchanges[f]
    BY <1>1, <1>2, ExchangeBegins
  <2>2. ExchangesOK(sessions, exchanges) /\ sessions'[s].state = "open"
    BY <1>9, <1>11 DEF IInv
  <2> QED
    BY <1>2, <1>4, <1>11, <2>1, <2>2 DEF ExchangesOK
<1>14. LimitsKept'
  BY <1>1, <1>10, <1>11, LimitsAdmit DEF IInv
<1>15. WaitersInv' /\ now' = now /\ asked' \in 0 .. MaxAsked /\ closes' \in 0 .. MaxCloses
  BY <1>1, <1>2, ExchangeBegins DEF IInv, WaitersInv, WaitersTypeOK, WaitersServed, waitVars
<1> QED
  BY <1>11, <1>12, <1>13, <1>14, <1>15 DEF IInv

LEMMA WaitStep ==
  ASSUME IInv, NEW e \in Exchanges, NEW target \in Targets, Wait(e, target) PROVE IInv'
<1> DEFINE s == exchanges[e].session
           r == sessions[s]
           X == Handler(e, "waiting")
<1>1. exchanges[e] # NoExchange /\ exchanges[e].handler = "running"
  BY DEF Wait, NoExchange
<1>2. /\ s \in Sessions /\ r.state # "none" /\ r \in SessionRecords
      /\ SessionOK(now, s, r, exchanges) /\ ExchangesOK(sessions, exchanges)
      /\ now \in Time /\ asked \in 0 .. MaxAsked /\ closes \in 0 .. MaxCloses
  BY <1>1, UnderWay
<1>3. /\ ExchangesOK(sessions, X)
      /\ \A t \in Sessions \ {s} : /\ InFlight(t, X) = InFlight(t, exchanges)
                                   /\ OpenResponses(t, X) = OpenResponses(t, exchanges)
      /\ InFlight(s, X) = InFlight(s, exchanges) /\ OpenResponses(s, X) = OpenResponses(s, exchanges)
  BY <1>1, <1>2, HandlerWrites, WrittenExchange
<1>4. UNCHANGED <<now, sessions, asked, closes>> /\ exchanges' = X
  BY DEF Wait
<1>5. WaitersInv'
  BY <1>2, <1>4, WaiterRegistered DEF IInv, Wait
<1>6. Becomes(s, r)
  BY <1>4 DEF Becomes, IInv
<1>7. SessionOK(now, s, r, X) /\ Keeps(r, r)
  BY <1>2, <1>3, SameTransfers, KeepsSelf
<1> QED
  BY <1>2, <1>3, <1>4, <1>5, <1>6, <1>7, OneSession

\* Timers and closes change sessions and no exchange.
LEMMA TimerStep ==
  ASSUME IInv, NEW s \in Sessions, Check(s) \/ DrainEnds(s) PROVE IInv'
<1> DEFINE r == sessions[s]
<1>1. /\ r \in SessionRecords /\ SessionOK(now, s, r, exchanges) /\ now \in Time
      /\ asked \in 0 .. MaxAsked /\ closes \in 0 .. MaxCloses
      /\ ExchangesOK(sessions, exchanges)
  BY DEF IInv, WaitersInv, WaitersTypeOK
<1>2. UNCHANGED <<now, waitVars, exchanges, asked, closes>>
  BY DEF Check, DrainEnds
<1>3. NoSession.deadline = Off /\ NoSession.drain = Off
  BY DEF NoSession
<1>4. CASE Check(s)
  <2>1. Almost(now, s, r, exchanges) /\ r.state = "open"
    BY <1>1, <1>3, <1>4 DEF Check, Due, SessionOK, Almost, Prior
  <2>2. Prior(now, s, r, exchanges)
    BY <2>1 DEF Almost
  <2>3. CASE Becomes(s, Armed(s, r, exchanges))
    <3>1. /\ Almost(now, s, Armed(s, r, exchanges), exchanges) /\ Keeps(r, Armed(s, r, exchanges))
          /\ Armed(s, r, exchanges).state = "open"
      BY <1>1, <2>1, <2>2, ArmedInTime
    <3>2. SessionOK(now, s, Armed(s, r, exchanges), exchanges)
      BY <3>1 DEF SessionOK
    <3> QED
      BY <1>1, <1>2, <2>3, <3>1, <3>2, OneSession
  <2>4. CASE Becomes(s, BeginClose(s, r, exchanges))
    <3>1. /\ SessionOK(now, s, BeginClose(s, r, exchanges), exchanges)
          /\ Keeps(r, BeginClose(s, r, exchanges))
      BY <1>1, <2>1, CloseBegun
    <3> QED
      BY <1>1, <1>2, <2>4, <3>1, OneSession
  <2> QED
    BY <1>4, <2>3, <2>4 DEF Check
<1>5. CASE DrainEnds(s)
  <2>1. r.state = "draining" /\ ~r.released
    BY <1>1, <1>3, <1>5, SessionFields DEF DrainEnds, Due, SessionOK, Almost, Prior
  <2>2. SessionOK(now, s, Closed(s, r, exchanges), exchanges) /\ Keeps(r, Closed(s, r, exchanges))
    BY <1>1, <2>1, ClosedInOrder
  <2>3. Becomes(s, Closed(s, r, exchanges))
    BY <1>5 DEF DrainEnds
  <2> QED
    BY <1>1, <1>2, <2>2, <2>3, OneSession
<1> QED
  BY <1>4, <1>5

LEMMA CloseAllStep ==
  ASSUME IInv, CloseAll PROVE IInv'
<1>1. /\ sessions \in [Sessions -> SessionRecords] /\ ExchangesOK(sessions, exchanges)
      /\ UNCHANGED <<now, waitVars, exchanges, asked>> /\ closes' \in 0 .. MaxCloses
  BY SessionConstants DEF IInv, CloseAll
<1>2. ASSUME NEW s \in Sessions
      PROVE  SessionOK(now, s, sessions'[s], exchanges) /\ Keeps(sessions[s], sessions'[s])
  <2> DEFINE r == sessions[s]
  <2>1. r \in SessionRecords /\ SessionOK(now, s, r, exchanges)
    BY DEF IInv
  <2>2. CASE r.routed \/ r.state = "draining"
    <3>1. r.state # "none" /\ ~r.released
      BY <2>1, <2>2, SessionFields DEF SessionOK, Almost, Prior, NoSession
    <3>2. sessions'[s] = Closed(s, r, exchanges)
      BY <2>2 DEF CloseAll
    <3> QED
      BY <2>1, <3>1, <3>2, ClosedInOrder
  <2>3. CASE ~(r.routed \/ r.state = "draining")
    <3>1. sessions'[s] = r
      BY <2>3 DEF CloseAll
    <3> QED
      BY <2>1, <3>1, KeepsSelf
  <2> QED
    BY <2>2, <2>3
<1>3. sessions' \in [Sessions -> SessionRecords]
  <2>1. sessions' = [s \in Sessions |-> sessions'[s]]
    BY DEF CloseAll
  <2> QED
    BY <1>2, <2>1 DEF Keeps
<1>4. ExchangesOK(sessions', exchanges)
  BY <1>1, <1>2 DEF ExchangesOK, Keeps
<1>5. LimitsKept'
  BY <1>2, LimitsStay DEF IInv, Keeps
<1>6. WaitersInv' /\ now' = now /\ exchanges' = exchanges /\ asked' \in 0 .. MaxAsked
  BY <1>1 DEF IInv, WaitersInv, WaitersTypeOK, WaitersServed, waitVars
<1> QED
  BY <1>1, <1>2, <1>3, <1>4, <1>5, <1>6 DEF IInv

LEMMA TickStep ==
  ASSUME IInv, Tick PROVE IInv'
<1>1. /\ now \in 0 .. MaxTime /\ now' = now + 1 /\ now' \in 0 .. MaxTime
      /\ UNCHANGED <<waitVars, sessions, exchanges, asked, closes>>
  BY WaiterConstants DEF Tick, IInv, WaitersInv, WaitersTypeOK
<1>2. ASSUME NEW s \in Sessions PROVE SessionOK(now + 1, s, sessions[s], exchanges)
  <2> DEFINE r == sessions[s]
             D == DeadlineOf(s, r, exchanges)
  <2>1. /\ r \in SessionRecords /\ SessionOK(now, s, r, exchanges) /\ D \in Int
        /\ ~Due(r.deadline) /\ ~Due(r.drain)
    BY <1>2, DeadlineFacts DEF IInv, Tick
  <2>2. CASE r = NoSession
    BY <2>2 DEF SessionOK
  <2>3. CASE r # NoSession
    <3>1. Almost(now, s, r, exchanges) /\ Prior(now, s, r, exchanges)
      BY <2>1, <2>3 DEF SessionOK, Almost
    <3>2. ASSUME r.state = "open"
          PROVE  /\ r.created <= now + 1 /\ r.activity <= now + 1 /\ r.interrupted <= now + 1
                 /\ r.deadline \in now + 1 .. Greatest(now + 1, D)
      <4>1. /\ r.created <= now /\ r.activity <= now /\ r.interrupted <= now
            /\ r.deadline \in now .. Greatest(now, D)
        BY <3>1, <3>2 DEF Almost, Prior
      <4>2. r.deadline > now
        <5>1. r.deadline # Off
          BY <1>1, <4>1, WaiterConstants
        <5> QED
          BY <1>1, <2>1, <5>1, SessionFields DEF Due
      <4>3. r.deadline <= D
        BY <1>1, <2>1, <4>1, <4>2 DEF Greatest
      <4>4. r.deadline \in now + 1 .. Greatest(now + 1, D)
        BY <1>1, <2>1, <4>2, <4>3, SessionFields DEF Greatest
      <4> QED
        BY <1>1, <2>1, <4>1, <4>4, SessionFields, SessionConstants
    <3>3. ASSUME r.state = "draining" PROVE r.drain \in now + 1 .. now + 1 + Drain
      <4>1. r.drain \in now .. now + Drain
        BY <2>1, <2>3, <3>3 DEF SessionOK
      <4>2. r.drain > now
        <5>1. r.drain # Off
          BY <1>1, <4>1, WaiterConstants
        <5> QED
          BY <1>1, <2>1, <5>1, SessionFields, SessionConstants DEF Due
      <4> QED
        BY <1>1, <4>1, <4>2, SessionConstants
    <3>4. Prior(now + 1, s, r, exchanges)
      BY <3>1, <3>2, <3>3 DEF Prior
    <3> QED
      BY <2>1, <2>3, <3>2, <3>3, <3>4 DEF SessionOK, Almost
  <2> QED
    BY <2>2, <2>3
<1>3. WaitersInv'
  <2>1. sampler # Off => sampler \in now + 1 .. now + Sampling
    BY <1>1, WaiterConstants DEF Tick, Due, IInv, WaitersInv, WaitersTypeOK, WaitersServed
  <2>2. \A w \in waiters : now + 1 <= w.until
    <3>1. \A w \in waiters : w.until \in 0 .. MaxTime /\ ~Due(w.until)
      BY WaiterConstants DEF Tick, IInv, WaitersInv
    <3> QED
      BY <1>1, <3>1, WaiterConstants DEF Due
  <2>3. sampler # Off => sampler \in now + 1 .. now + 1 + Sampling
    BY <1>1, <2>1, WaiterConstants
  <2> QED
    BY <1>1, <2>2, <2>3, WaiterConstants DEF waitVars, IInv, WaitersInv, WaitersTypeOK, WaitersServed
<1>4. LimitsKept'
  BY <1>1 DEF IInv, LimitsKept, Held, HeldBy
<1>5. ExchangesOK(sessions', exchanges')
  BY <1>1 DEF IInv
<1>6. \A s \in Sessions : SessionOK(now', s, sessions'[s], exchanges')
  BY <1>1, <1>2
<1> QED
  BY <1>1, <1>3, <1>4, <1>5, <1>6 DEF IInv

\* Samples, timeouts, aborts and changes of a status leave the sessions alone.
LEMMA StatusStep ==
  ASSUME IInv,
         \/ Waiters(Sample) \/ Waiters(CloseStatus)
         \/ \E w \in waiters : Waiters(TimedOut(w)) \/ Waiters(Abort(w))
         \/ \E target \in Targets, next \in Statuses \cup {Gone} : Waiters(Change(target, next))
  PROVE  IInv'
<1>1. WaitersInv
  BY DEF IInv
<1>2. WaitersInv'
  <2>1. CASE Waiters(Sample)
    <3>1. Sampled \subseteq waiters
      BY DEF Sampled
    <3>2. statusClosed' \in BOOLEAN /\ (statusClosed' => waiters' = {})
      BY <1>1, <2>1 DEF Waiters, Sample, WaitersInv, WaitersTypeOK, WaitersServed
    <3> QED
      BY <1>1, <2>1, <3>1, <3>2, WaitersFew DEF Waiters, Sample
  <2>2. ASSUME NEW w \in waiters, Waiters(TimedOut(w)) \/ Waiters(Abort(w)) PROVE WaitersInv'
    <3>1. Remove({w}) /\ UNCHANGED <<now, status, statusClosed>>
      BY <2>2 DEF Waiters, TimedOut, Abort
    <3>2. statusClosed' \in BOOLEAN /\ (statusClosed' => waiters' = {})
      BY <1>1, <3>1 DEF Remove, WaitersInv, WaitersTypeOK, WaitersServed
    <3> QED
      BY <1>1, <3>1, <3>2, WaitersFew
  <2>3. CASE Waiters(CloseStatus)
    <3>1. Remove(waiters) /\ UNCHANGED <<now, status>> /\ statusClosed' = TRUE
      BY <2>3 DEF Waiters, CloseStatus
    <3>2. waiters' = {}
      BY <3>1 DEF Remove
    <3> QED
      BY <1>1, <3>1, <3>2, WaitersFew
  <2>4. ASSUME NEW target \in Targets, NEW next \in Statuses \cup {Gone}, Waiters(Change(target, next))
        PROVE  WaitersInv'
    BY <1>1, <2>4 DEF Waiters, Change, WaitersInv, WaitersTypeOK, WaitersServed
  <2> QED
    BY <2>1, <2>2, <2>3, <2>4
<1>3. UNCHANGED <<now, sessions, exchanges, asked, closes>>
  BY DEF Waiters, Sample, TimedOut, Abort, CloseStatus, Change
<1>4. LimitsKept'
  BY <1>3 DEF IInv, LimitsKept, Held, HeldBy
<1> QED
  BY <1>2, <1>3, <1>4 DEF IInv

LEMMA InitInv == Init => SInv
<1> SUFFICES ASSUME Init PROVE SInv
  OBVIOUS
<1>1. WaitersInv
  <2>1. (CHOOSE first \in Statuses : TRUE) \in Statuses
    BY WaitersAssumption
  <2>2. /\ now = 0 /\ waiters = {} /\ sampler = Off /\ statusClosed = FALSE
        /\ status \in [Targets -> Statuses \cup {Gone}]
    BY <2>1 DEF Init, InitWaiters
  <2>3. now \in Time /\ sampler \in {Off} \cup 0 .. MaxTime + Sampling
    BY <2>2, WaiterConstants
  <2>4. WaitersTypeOK
    BY <2>2, <2>3 DEF WaitersTypeOK
  <2>5. WaitersServed
    BY <2>2 DEF WaitersServed
  <2>6. waiters \subseteq [id : Exchanges, session : Sessions, target : Targets, cursor : Statuses,
                           until : Time]
    BY <2>2
  <2> QED
    BY <2>4, <2>5, <2>6 DEF WaitersInv
<1>2. NoSession \in SessionRecords /\ NoSession.released = TRUE
  BY WaiterConstants DEF NoSession, SessionRecords
<1>3. sessions \in [Sessions -> SessionRecords] /\ \A s \in Sessions : sessions[s] = NoSession
  BY <1>2 DEF Init
<1>4. NoExchange \in ExchangeRecords
  BY DEF NoExchange, ExchangeRecords
<1>5. ExchangesOK(sessions, exchanges)
  BY <1>4 DEF Init, ExchangesOK
<1>6. LimitsKept
  <2>1. Held = {} /\ \A c : HeldBy(c) = {}
    BY <1>2, <1>3 DEF Held, HeldBy
  <2> QED
    BY <2>1, FS_EmptySet, SessionConstants DEF LimitsKept
<1>7. \A s \in Sessions : SessionOK(now, s, sessions[s], exchanges)
  BY <1>3 DEF SessionOK
<1>8. asked \in 0 .. MaxAsked /\ closes \in 0 .. MaxCloses
  BY SessionConstants DEF Init
<1>9. FreshInv
  BY DEF Init, FreshInv, Initialising, NoExchange
<1> QED
  BY <1>1, <1>3, <1>5, <1>6, <1>7, <1>8, <1>9 DEF IInv, SInv

LEMMA BooksStep == SInv /\ [Next]_vars => IInv'
<1> SUFFICES ASSUME IInv, FreshInv, [Next]_vars PROVE IInv'
  BY DEF SInv
<1>1. CASE UNCHANGED vars
  <2>1. LimitsKept'
    BY <1>1 DEF vars, IInv, LimitsKept, Held, HeldBy
  <2>2. WaitersInv'
    BY <1>1 DEF vars, waitVars, IInv, WaitersInv, WaitersTypeOK, WaitersServed
  <2> QED
    BY <1>1, <2>1, <2>2 DEF vars, IInv
<1>2. ASSUME NEW e \in Exchanges,
             Initialize(e) \/ Handle(e) \/ Settle(e) \/ Stream(e) \/ Delete(e) \/ End(e)
      PROVE  IInv'
  BY <1>2, InitializeStep, HandleStep, SettleStep, StreamStep, DeleteStep, EndStep
<1>3. ASSUME NEW s \in Sessions, NEW e \in Exchanges, NEW c \in Credentials, Admit(s, c, e)
      PROVE  IInv'
  BY <1>3, AdmitStep
<1>4. ASSUME NEW s \in Sessions, NEW e \in Exchanges, NEW kind \in Kinds, Receive(e, s, kind)
      PROVE  IInv'
  BY <1>4, ReceiveStep
<1> QED
  BY <1>1, <1>2, <1>3, <1>4, WaitStep, TimerStep, CloseAllStep, TickStep, StatusStep
     DEF Next, Process

-----------------------------------------------------------------------------
(* Initialisation                                                            *)

LEMMA FreshKept ==
  ASSUME IInv, FreshInv, NEW f \in Exchanges, exchanges[f] # NoExchange, NEW h, NEW p, NEW q,
         exchanges' = Written(f, p, h), Becomes(exchanges[f].session, q), now' = now,
         h = "ready" /\ exchanges[f].kind = "initialize" =>
           Initialising(f) /\ (Fresh(sessions[exchanges[f].session]) => Fresh(q))
  PROVE  FreshInv'
<1> DEFINE s == exchanges[f].session
<1>1. /\ exchanges \in [Exchanges -> ExchangeRecords] /\ s \in Sessions /\ NoOne \notin Sessions
      /\ sessions' = [sessions EXCEPT ![s] = q] /\ sessions \in [Sessions -> SessionRecords]
  BY SessionConstants DEF IInv, ExchangesOK, Becomes, NoOne, Sessions
<1>2. /\ \A g \in Exchanges \ {f} : exchanges'[g] = exchanges[g]
      /\ \A t \in Sessions \ {s} : sessions'[t] = sessions[t]
      /\ sessions'[s] = q
  BY <1>1 DEF Written
<1>3. \/ exchanges'[f] = NoExchange
      \/ /\ exchanges'[f].session = s /\ exchanges'[f].kind = exchanges[f].kind
         /\ exchanges'[f].handler = h
  BY <1>1 DEF Written
<1>4. ASSUME NEW e \in Exchanges, Initialising(e)', e # f
      PROVE  Fresh(sessions[exchanges[e].session])' /\ Of(exchanges[e].session, exchanges)' = {e}
  <2> DEFINE t == exchanges[e].session
  <2>1. Initialising(e) /\ exchanges'[e] = exchanges[e]
    BY <1>2, <1>4 DEF Initialising
  <2>2. Fresh(sessions[t]) /\ Of(t, exchanges) = {e} /\ t \in Sessions
    <3>1. exchanges[e] # NoExchange
      BY <2>1 DEF Initialising, NoExchange
    <3> QED
      BY <2>1, <3>1 DEF FreshInv, IInv, ExchangesOK
  <2>3. t # s
    BY <1>4, <2>2 DEF Of
  <2>4. Of(t, exchanges') = {e}
    BY <1>1, <1>2, <1>3, <2>2, <2>3 DEF Of, NoExchange
  <2> QED
    BY <1>2, <2>1, <2>2, <2>3, <2>4 DEF Fresh
<1>5. ASSUME Initialising(f)'
      PROVE  Fresh(sessions[exchanges[f].session])' /\ Of(exchanges[f].session, exchanges)' = {f}
  <2>1. h = "ready" /\ exchanges[f].kind = "initialize" /\ exchanges'[f].session = s
    BY <1>3, <1>5 DEF Initialising, NoExchange
  <2>2. Fresh(sessions[s]) /\ Fresh(q) /\ Of(s, exchanges) = {f}
    BY <2>1 DEF FreshInv
  <2>3. Of(s, exchanges') = {f}
    BY <1>2, <2>1, <2>2 DEF Of
  <2> QED
    BY <1>2, <2>1, <2>2, <2>3 DEF Fresh
<1> QED
  BY <1>4, <1>5 DEF FreshInv

\* A fresh session has time left, and arming its timer leaves it fresh.
LEMMA FreshDeadline ==
  ASSUME now \in Time, NEW s, NEW X, NEW r \in SessionRecords, Fresh(r)
  PROVE  /\ DeadlineOf(s, r, X) > now /\ ~Interrupted(s, r, X)
         /\ Fresh(Armed(s, r, X)) /\ Settled(s, Armed(s, r, X), X) = Armed(s, r, X)
<1>1. ~Interrupted(s, r, X)
  BY DEF Fresh, Interrupted
<1>2. DeadlineOf(s, r, X) > now
  BY <1>1, WaiterConstants, SessionConstants DEF Fresh, DeadlineOf, IdleEnd, Least
<1>3. Fresh(Armed(s, r, X)) /\ Armed(s, r, X).state = "open"
  BY Amending DEF Fresh, Armed
<1> HIDE DEF Fresh
<1>4. Settled(s, Armed(s, r, X), X) = Armed(s, r, X)
  BY <1>3 DEF Settled, Released
<1> QED
  BY <1>1, <1>2, <1>3, <1>4

LEMMA FreshExchange ==
  ASSUME IInv, FreshInv, NEW e \in Exchanges,
         Initialize(e) \/ Handle(e) \/ Settle(e) \/ Stream(e) \/ Delete(e) \/ End(e)
  PROVE  FreshInv'
<1> DEFINE s == exchanges[e].session
<1>1. exchanges[e] # NoExchange /\ now' = now
  BY DEF Initialize, Handle, Settle, Stream, Delete, End, NoExchange
<1>2. /\ ExchangesOK(sessions, exchanges) /\ s \in Sessions /\ sessions[s] \in SessionRecords
      /\ now \in Time
  BY <1>1, UnderWay
<1>3. \E q : Becomes(s, q)
  BY DEF Initialize, Handle, Settle, Stream, Delete, End
<1>4. ASSUME NEW h, exchanges' = Handler(e, h), h # "ready" PROVE FreshInv'
  BY <1>1, <1>2, <1>3, <1>4, HandlerWrites, FreshKept
<1>5. CASE Initialize(e) \/ Handle(e) \/ Settle(e) \/ Delete(e)
  <2>1. \E h : exchanges' = Handler(e, h) /\ h # "ready"
    BY <1>5 DEF Initialize, Handle, Settle, Delete
  <2> QED
    BY <1>4, <2>1
<1>6. CASE Stream(e)
  <2> DEFINE streaming == \E f \in Of(s, exchanges) : exchanges[f].response = "stream"
             taken == sessions[s].state = "closed" \/ streaming \/ exchanges[e].response # "open"
  <2>1. exchanges' = [Handler(e, "done") EXCEPT ![e].response = IF taken THEN @ ELSE "stream"]
    BY <1>6 DEF Stream
  <2> taken \in BOOLEAN /\ (taken \/ exchanges[e].response = "open")
    OBVIOUS
  <2> HIDE DEF taken
  <2>2. exchanges' = Handler(e, "done") \/ exchanges' = Written(e, "stream", "done")
    BY <1>1, <2>1, StreamWritten
  <2> QED
    BY <1>1, <1>3, <1>4, <2>2, FreshKept
<1>7. CASE End(e)
  <2>1. exchanges' = Written(e, "ended", exchanges[e].handler)
    BY <1>1, <1>2, <1>7, HandlerWrites DEF End
  <2> DEFINE r == sessions[s]
             q == Settled(s, Armed(s, IF Interrupted(s, r, exchanges') /\ r.interrupted = Never
                                      THEN [r EXCEPT !.interrupted = now] ELSE r, exchanges'), exchanges')
  <2>2. Becomes(s, q)
    BY <1>7 DEF End
  <2>3. Fresh(r) => Fresh(q)
    BY <1>2, FreshDeadline
  <2>4. exchanges[e].handler = "ready" /\ exchanges[e].kind = "initialize" => Initialising(e)
    BY DEF Initialising
  <2> HIDE DEF q
  <2> QED
    BY <1>1, <2>1, <2>2, <2>3, <2>4, FreshKept
<1> QED
  BY <1>5, <1>6, <1>7

LEMMA FreshBegins ==
  ASSUME IInv, FreshInv, NEW s \in Sessions, NEW e \in Exchanges
  PROVE  /\ \A c \in Credentials : Admit(s, c, e) => FreshInv'
         /\ \A kind \in Kinds \ {"initialize"} : Receive(e, s, kind) => FreshInv'
<1>1. /\ sessions \in [Sessions -> SessionRecords] /\ now \in Time
      /\ NoOne \notin Sessions /\ NoExchange.session = NoOne
  BY SessionConstants DEF IInv, WaitersInv, WaitersTypeOK, NoOne, Sessions, NoExchange
\* The session of an exchange that begins is not one that is initialised.
<1>2. ASSUME NEW kind \in Kinds, Begins(e, s, kind), now' = now, NEW q, Becomes(s, q),
             sessions[s].routed \/ sessions[s].state = "none",
             kind = "initialize" => Fresh(q) /\ Of(s, exchanges) = {}
      PROVE  FreshInv'
  <2>1. /\ exchanges'[e].session = s /\ exchanges'[e].kind = kind
        /\ \A f \in Exchanges \ {e} : exchanges'[f] = exchanges[f]
        /\ exchanges[e] = NoExchange
    BY <1>2, ExchangeBegins DEF Begins
  <2>2. sessions'[s] = q /\ \A t \in Sessions \ {s} : sessions'[t] = sessions[t]
    BY <1>1, <1>2 DEF Becomes
  <2>3. ASSUME NEW f \in Exchanges, Initialising(f)', f # e
        PROVE  Fresh(sessions[exchanges[f].session])' /\ Of(exchanges[f].session, exchanges)' = {f}
    <3> DEFINE t == exchanges[f].session
    <3>1. Initialising(f) /\ exchanges'[f] = exchanges[f]
      BY <2>1, <2>3 DEF Initialising
    <3>2. Fresh(sessions[t]) /\ Of(t, exchanges) = {f} /\ t \in Sessions
      <4>1. exchanges[f] # NoExchange
        BY <3>1 DEF Initialising, NoExchange
      <4> QED
        BY <3>1, <4>1 DEF FreshInv, IInv, ExchangesOK
    <3>3. t # s
      BY <1>2, <3>2 DEF Fresh
    <3>4. Of(t, exchanges') = {f}
      BY <1>1, <2>1, <3>2, <3>3 DEF Of
    <3> QED
      BY <1>2, <2>2, <3>1, <3>2, <3>3, <3>4 DEF Fresh
  <2>4. ASSUME Initialising(e)'
        PROVE  Fresh(sessions[exchanges[e].session])' /\ Of(exchanges[e].session, exchanges)' = {e}
    <3>1. kind = "initialize"
      BY <2>1, <2>4 DEF Initialising
    <3>2. Of(s, exchanges') = {e}
      BY <1>2, <2>1, <3>1 DEF Of
    <3> QED
      BY <1>2, <2>1, <2>2, <3>1, <3>2 DEF Fresh
  <2> QED
    BY <2>3, <2>4 DEF FreshInv
<1>3. ASSUME NEW kind \in Kinds \ {"initialize"}, Receive(e, s, kind) PROVE FreshInv'
  BY <1>2, <1>3 DEF Receive
<1>4. ASSUME NEW c \in Credentials, Admit(s, c, e) PROVE FreshInv'
  <2> DEFINE r == [NoSession EXCEPT !.state = "open", !.credential = c, !.released = FALSE, !.created = now]
             q == Armed(s, r, exchanges')
  <2>1. sessions[s].state = "none"
    BY <1>4 DEF Admit, Sessions
  <2>2. Of(s, exchanges) = {}
    BY <1>1, <2>1 DEF IInv, ExchangesOK, Of
  <2>3. r \in SessionRecords /\ Fresh(r)
    <3>1. now \in 0 .. MaxTime /\ r = [state |-> "open", credential |-> c, released |-> FALSE,
           routed |-> FALSE, created |-> now, activity |-> Never, streamed |-> FALSE,
           interrupted |-> Never, deadline |-> Off, drain |-> Off]
      BY <1>1, OpenedFields, WaiterConstants
    <3> HIDE DEF r
    <3> QED
      BY <3>1, WaiterConstants DEF SessionRecords, Fresh
  <2> HIDE DEF r
  <2>4. Fresh(q)
    BY <1>1, <2>3, FreshDeadline
  <2>5. Begins(e, s, "initialize") /\ Becomes(s, q) /\ now' = now /\ "initialize" \in Kinds
    BY <1>4 DEF Admit, r, Kinds
  <2> HIDE DEF q
  <2> QED
    BY <1>2, <2>1, <2>2, <2>4, <2>5
<1> QED
  BY <1>3, <1>4

\* Timers and closes leave a session that is initialised alone.
LEMMA FreshAlone ==
  ASSUME IInv, FreshInv, exchanges' = exchanges, now' = now,
         \A e \in Exchanges : Initialising(e) => Fresh(sessions'[exchanges[e].session])
  PROVE  FreshInv'
BY DEF FreshInv, Initialising, Fresh, Of

LEMMA FreshTimers ==
  ASSUME IInv, FreshInv, CloseAll \/ \E s \in Sessions : Check(s) \/ DrainEnds(s)
  PROVE  FreshInv'
<1>1. sessions \in [Sessions -> SessionRecords] /\ now \in Time
  BY DEF IInv, WaitersInv, WaitersTypeOK
<1> SUFFICES ASSUME NEW e \in Exchanges, Initialising(e)
             PROVE  Fresh(sessions'[exchanges[e].session])
  BY FreshAlone DEF CloseAll, Check, DrainEnds
<1> DEFINE t == exchanges[e].session
           r == sessions[t]
<1>2. exchanges[e] # NoExchange
  BY DEF Initialising, NoExchange
<1>3. Fresh(r) /\ t \in Sessions /\ r \in SessionRecords /\ SessionOK(now, t, r, exchanges)
  BY <1>2, UnderWay DEF FreshInv
<1>4. CASE CloseAll
  BY <1>3, <1>4 DEF CloseAll, Fresh
<1>5. ASSUME NEW s \in Sessions, Check(s) PROVE Fresh(sessions'[t])
  <2>1. CASE s # t
    BY <1>1, <1>3, <1>5, <2>1 DEF Check, Becomes
  <2>2. CASE s = t
    <3>1. now < DeadlineOf(t, r, exchanges) /\ Fresh(Armed(t, r, exchanges))
      BY <1>1, <1>3, FreshDeadline, DeadlineFacts, WaiterConstants
    <3>2. sessions' = [sessions EXCEPT ![t] = Armed(t, r, exchanges)]
      BY <1>5, <2>2, <3>1 DEF Check, Becomes
    <3> QED
      BY <1>1, <1>3, <3>1, <3>2
  <2> QED
    BY <2>1, <2>2
<1>6. ASSUME NEW s \in Sessions, DrainEnds(s) PROVE Fresh(sessions'[t])
  <2>1. r.drain = Off
    BY <1>3 DEF Fresh, SessionOK, Almost, Prior, NoSession
  <2>2. s # t
    BY <1>6, <2>1 DEF DrainEnds, Due
  <2> QED
    BY <1>1, <1>3, <1>6, <2>2 DEF DrainEnds, Becomes
<1> QED
  BY <1>4, <1>5, <1>6

LEMMA FreshStep == SInv /\ [Next]_vars => FreshInv'
<1> SUFFICES ASSUME IInv, FreshInv, [Next]_vars PROVE FreshInv'
  BY DEF SInv
<1>1. CASE UNCHANGED <<now, sessions, exchanges>>
  BY <1>1 DEF FreshInv, Initialising, Fresh, Of
<1>2. ASSUME NEW e \in Exchanges, NEW target \in Targets, Wait(e, target) PROVE FreshInv'
  <2>1. exchanges[e] # NoExchange /\ now' = now /\ exchanges' = Handler(e, "waiting") /\ sessions' = sessions
    BY <1>2 DEF Wait, NoExchange
  <2>2. ExchangesOK(sessions, exchanges) /\ Becomes(exchanges[e].session, sessions[exchanges[e].session])
    BY <2>1 DEF IInv, Becomes
  <2> QED
    BY <2>1, <2>2, HandlerWrites, FreshKept
<1>3. CASE Tick
  BY <1>3 DEF Tick, FreshInv, Initialising
<1>4. ASSUME NEW e \in Exchanges,
             Initialize(e) \/ Handle(e) \/ Settle(e) \/ Stream(e) \/ Delete(e) \/ End(e)
      PROVE  FreshInv'
  BY <1>4, FreshExchange
<1>5. ASSUME NEW s \in Sessions, NEW e \in Exchanges,
             \/ \E c \in Credentials : Admit(s, c, e)
             \/ \E kind \in Kinds \ {"initialize"} : Receive(e, s, kind)
      PROVE  FreshInv'
  BY <1>5, FreshBegins
<1>6. CASE \/ Waiters(Sample) \/ \E w \in waiters : Waiters(TimedOut(w)) \/ Waiters(Abort(w))
           \/ Waiters(CloseStatus)
           \/ \E target \in Targets, next \in Statuses \cup {Gone} : Waiters(Change(target, next))
  BY <1>1, <1>6 DEF Waiters, Sample, TimedOut, Abort, CloseStatus, Change
<1>7. CASE UNCHANGED vars
  BY <1>1, <1>7 DEF vars
<1> QED
  BY <1>2, <1>3, <1>4, <1>5, <1>6, <1>7, FreshTimers DEF Next, Process

LEMMA StepInv == SInv /\ [Next]_vars => SInv'
BY BooksStep, FreshStep DEF SInv

\* Every record, timer and count of a session keeps its type.
THEOREM SessionTypes == Spec => []TypeOK
<1>1. SInv => TypeOK
  BY DEF SInv, IInv, WaitersInv, ExchangesOK, SessionRecords, ExchangeRecords, TypeOK
<1> QED
  BY <1>1, InitInv, StepInv, PTL DEF Spec

\* The limits on sessions hold, and a slot is given back exactly when a closed
\* session's accepted work has settled.
THEOREM SlotsAreHeld == Spec => []SlotsHeld
<1>1. SInv => SlotsHeld
  <2> SUFFICES ASSUME IInv, NEW s \in Sessions, sessions[s].state # "none"
               PROVE  sessions[s].released <=>
                        /\ sessions[s].state = "closed"
                        /\ InFlight(s, exchanges) = {} /\ OpenResponses(s, exchanges) = {}
    BY DEF SlotsHeld, SInv, IInv, LimitsKept
  <2>1. sessions[s] # NoSession /\ SessionOK(now, s, sessions[s], exchanges)
    BY DEF IInv, NoSession
  <2> QED
    BY <2>1 DEF SessionOK, Almost, Prior, Spent
<1> QED
  BY <1>1, InitInv, StepInv, PTL DEF Spec

\* No open session outlives its deadline and no draining one its bound.
THEOREM SessionsCloseInTime == Spec => []ClosedInTime
<1>1. SInv => ClosedInTime
  <2> SUFFICES ASSUME IInv, NEW s \in Sessions
               PROVE  LET r == sessions[s] IN
                      /\ r.state = "open" => r.deadline \in now .. Greatest(now, DeadlineOf(s, r, exchanges))
                      /\ r.state = "draining" => r.drain \in now .. now + Drain
                      /\ r.state = "closed" => r.deadline = Off /\ r.drain = Off
    BY DEF ClosedInTime, SInv
  <2>1. SessionOK(now, s, sessions[s], exchanges)
    BY DEF IInv
  <2> QED
    BY <2>1 DEF SessionOK, Almost, Prior, NoSession
<1> QED
  BY <1>1, InitInv, StepInv, PTL DEF Spec

\* Whoever waits for a status is sampled and answered in time.
THEOREM WaitersAreServed == Spec => []WaitersServed
<1>1. SInv => WaitersServed
  BY DEF SInv, IInv, WaitersInv
<1> QED
  BY <1>1, InitInv, StepInv, PTL DEF Spec

-----------------------------------------------------------------------------
(* What ends a drain                                                         *)

LEMMA UndrainedStays ==
  ASSUME NEW s, NEW r, NEW X, r.state = "draining", ~Drained(s, X)
  PROVE  Settled(s, r, X) = r /\ Armed(s, r, X) = r /\ \A e : Counts(s, e, r, X) = r
BY DEF Settled, Released, Armed, Counts, Active

LEMMA DrainEnded ==
  ASSUME IInv, FreshInv, Next, NEW s \in Sessions,
         sessions[s].state = "draining", sessions'[s].state = "closed", ~Drained(s, exchanges')
  PROVE  \/ now >= sessions[s].drain
         \/ closes' > closes
         \/ \E e \in Of(s, exchanges) : /\ exchanges[e].kind = "delete"
                                        /\ exchanges[e].handler = "ready"
                                        /\ exchanges'[e].handler # "ready"
<1> DEFINE r == sessions[s]
           Deleted == \E e \in Of(s, exchanges) : /\ exchanges[e].kind = "delete"
                                                  /\ exchanges[e].handler = "ready"
                                                  /\ exchanges'[e].handler # "ready"
<1>1. /\ sessions \in [Sessions -> SessionRecords] /\ r \in SessionRecords
      /\ ExchangesOK(sessions, exchanges)
  BY DEF IInv
<1>2. ASSUME NEW t \in Sessions, NEW q, Becomes(t, q)
      PROVE  s = t /\ sessions'[s] = q /\ q # r
  <2>1. sessions' = [sessions EXCEPT ![t] = q]
    BY <1>2 DEF Becomes
  <2> QED
    BY <1>1, <2>1
<1>3. ASSUME NEW e \in Exchanges, exchanges[e].handler = "ready", exchanges[e].session = s,
             exchanges' = Handler(e, "done"), exchanges[e].kind = "delete"
      PROVE  Deleted
  <2>1. exchanges[e] # NoExchange
    BY <1>3 DEF NoExchange
  <2>2. exchanges' = Written(e, exchanges[e].response, "done")
    BY <1>1, <1>3, <2>1, HandlerWrites
  <2>3. exchanges'[e].handler \in {"done", "none"}
    BY <1>1, <2>2 DEF Written, ExchangesOK, NoExchange
  <2> QED
    BY <1>3, <2>3 DEF Of
<1>4. ASSUME NEW e \in Exchanges, exchanges[e] # NoExchange PROVE exchanges[e].session \in Sessions
  BY <1>1, <1>4 DEF ExchangesOK
<1>5. ASSUME NEW e \in Exchanges, Initialize(e) PROVE FALSE
  <2> DEFINE t == exchanges[e].session
  <2>1. t \in Sessions /\ sessions[t].state = "open"
    BY <1>4, <1>5 DEF Initialize, NoExchange, Initialising, FreshInv, Fresh
  <2>2. PICK q : Becomes(t, q)
    BY <1>5 DEF Initialize
  <2> QED
    BY <1>2, <2>1, <2>2
<1>6. ASSUME NEW e \in Exchanges, Delete(e) PROVE Deleted
  <2>1. exchanges[e].session \in Sessions
    BY <1>4, <1>6 DEF Delete, NoExchange
  <2> QED
    BY <1>2, <1>3, <1>6, <2>1 DEF Delete
<1>7. ASSUME NEW e \in Exchanges, Handle(e) \/ Settle(e) \/ Stream(e) \/ End(e) PROVE FALSE
  <2> DEFINE t == exchanges[e].session
  <2>1. t \in Sessions
    BY <1>4, <1>7 DEF Handle, Settle, Stream, End, NoExchange
  <2>2. CASE Handle(e)
    BY <1>2, <2>1, <2>2 DEF Handle
  <2>3. CASE Settle(e)
    <3>1. Becomes(t, Settled(t, Counts(t, e, sessions[t], exchanges'), exchanges'))
      BY <2>3 DEF Settle
    <3>2. s = t /\ Settled(s, Counts(s, e, r, exchanges'), exchanges') # r
      BY <1>2, <2>1, <3>1
    <3> QED
      BY <3>2, UndrainedStays
  <2>4. CASE Stream(e)
    <3> DEFINE p == [sessions[t] EXCEPT !.streamed = TRUE]
    <3>1. \/ Becomes(t, sessions[t])
          \/ Becomes(t, Settled(t, Armed(t, p, exchanges'), exchanges'))
      BY <2>4 DEF Stream
    <3>2. s = t /\ sessions'[s] = Settled(s, Armed(s, p, exchanges'), exchanges')
      BY <1>2, <2>1, <3>1
    <3>3. p.state = "draining"
      <4>1. [r EXCEPT !.streamed = TRUE].state = r.state
        BY <1>1, Amending
      <4> QED
        BY <3>2, <4>1
    <3> HIDE DEF p
    <3> QED
      BY <3>2, <3>3, UndrainedStays
  <2>5. CASE End(e)
    <3> DEFINE p == IF Interrupted(t, sessions[t], exchanges') /\ sessions[t].interrupted = Never
                    THEN [sessions[t] EXCEPT !.interrupted = now] ELSE sessions[t]
    <3>1. Becomes(t, Settled(t, Armed(t, p, exchanges'), exchanges'))
      BY <2>5 DEF End
    <3>2. s = t /\ sessions'[s] = Settled(s, Armed(s, p, exchanges'), exchanges')
      BY <1>2, <2>1, <3>1
    <3>3. p.state = "draining"
      <4>1. [r EXCEPT !.interrupted = now].state = r.state
        BY <1>1, Amending
      <4> QED
        BY <3>2, <4>1
    <3> HIDE DEF p
    <3> QED
      BY <3>2, <3>3, UndrainedStays
  <2> QED
    BY <1>7, <2>2, <2>3, <2>4, <2>5
<1>8. ASSUME NEW t \in Sessions, NEW e \in Exchanges, NEW c \in Credentials, Admit(t, c, e)
      PROVE  FALSE
  <2>1. sessions[t].state = "none"
    BY <1>8 DEF Admit, Sessions
  <2> QED
    BY <1>2, <1>8, <2>1 DEF Admit
<1>9. ASSUME NEW t \in Sessions, NEW e \in Exchanges, NEW kind \in Kinds, Receive(e, t, kind)
      PROVE  FALSE
  <2>1. Becomes(t, Armed(t, sessions[t], exchanges'))
    BY <1>9 DEF Receive
  <2>2. s = t /\ Armed(s, r, exchanges') # r
    BY <1>2, <2>1
  <2> QED
    BY <2>2, UndrainedStays
<1>10. ASSUME NEW t \in Sessions, Check(t) PROVE FALSE
  <2>1. s = t
    BY <1>2, <1>10 DEF Check
  <2>2. Due(r.deadline)
    BY <1>10, <2>1 DEF Check
  <2> QED
    BY <2>2 DEF Due, IInv, SessionOK, Almost, Prior, NoSession
<1>11. ASSUME NEW t \in Sessions, DrainEnds(t) PROVE now >= r.drain
  <2>1. s = t
    BY <1>2, <1>11 DEF DrainEnds
  <2>2. Due(r.drain) /\ now \in 0 .. MaxTime
    BY <1>11, <2>1, WaiterConstants DEF DrainEnds, IInv, WaitersInv, WaitersTypeOK
  <2> QED
    BY <1>1, <2>2, SessionFields, WaiterConstants, SessionConstants DEF Due
<1>12. ASSUME CloseAll PROVE closes' > closes
  BY <1>12, SessionConstants DEF CloseAll, IInv
<1>13. ASSUME UNCHANGED sessions PROVE FALSE
  BY <1>13
<1> QED
  BY <1>5, <1>6, <1>7, <1>8, <1>9, <1>10, <1>11, <1>12, <1>13
     DEF Next, Process, Wait, Waiters, Tick

\* A policy close lets what was accepted finish.
THEOREM DrainsAreHonoured == Spec => DrainHonoured
<1> DEFINE A == \A s \in Sessions :
             sessions[s].state = "draining" /\ sessions'[s].state = "closed" =>
               \/ Drained(s, exchanges')
               \/ now >= sessions[s].drain
               \/ closes' > closes
               \/ \E e \in Of(s, exchanges) : /\ exchanges[e].kind = "delete"
                                             /\ exchanges[e].handler = "ready"
                                             /\ exchanges'[e].handler # "ready"
<1>1. SInv /\ [Next]_vars => [A]_vars
  BY DrainEnded DEF SInv
<1>2. (Spec => [][A]_vars) => (Spec => DrainHonoured)
  BY DEF DrainHonoured
<1> HIDE DEF A
<1> QED
  BY <1>1, <1>2, InitInv, StepInv, PTL DEF Spec
=============================================================================
