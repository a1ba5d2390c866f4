---------------------------- MODULE StatusWaiters ----------------------------
(***************************************************************************)
(* Status waits: a client that knows a status waits until it changes.  One *)
(* sampler serves every waiter; it runs only while somebody waits.  The    *)
(* timers here run before the time moves on.                               *)
(***************************************************************************)
EXTENDS Integers, FiniteSets

CONSTANTS
  Targets,            \* projects and runs that a client may watch
  Statuses,           \* what a status can show; its cursor is its content
  MaxTime,            \* bound: the last instant
  Sampling,           \* time between two samples
  WaitLimit,          \* time after which a wait is answered all the same
  MaxWaiters,         \* waiters, together
  MaxSessionWaiters,  \* waiters of one session
  MaxTargets          \* targets that are watched at a time

ASSUME WaitersAssumption ==
  /\ {MaxTime, Sampling, WaitLimit} \subseteq Nat \ {0}
  /\ {MaxWaiters, MaxSessionWaiters, MaxTargets} \subseteq Nat \ {0}
  /\ Statuses # {}

Gone == "gone"      \* the project or the run is no longer there
Off == -1           \* a timer that is not armed
Time == 0 .. MaxTime

VARIABLES
  now,          \* the time
  status,       \* what each target shows
  waiters,      \* the registered waiters
  sampler,      \* when the sampler runs next
  statusClosed  \* the service is closed

waitVars == <<status, waiters, sampler, statusClosed>>

Watched(W) == {w.target : w \in W}
Due(timer) == timer # Off /\ timer <= now
\* Fault: the sampler stops with any waiter.
RemoveStops(W) == waiters' = waiters \ W /\ sampler' = Off

(* remove(): with the last waiter the sampler stops. *)
Remove(W) ==
  /\ waiters' = waiters \ W
  /\ sampler' = IF waiters \ W = {} THEN Off ELSE sampler

(* wait(): what is registered, and when it is answered at once instead. *)
Busy(session, target) ==
  \/ Cardinality(waiters) >= MaxWaiters
  \/ Cardinality({w \in waiters : w.session = session}) >= MaxSessionWaiters
  \/ target \notin Watched(waiters) /\ Cardinality(Watched(waiters)) >= MaxTargets

Register(id, session, target) ==
  /\ ~statusClosed /\ status[target] # Gone /\ ~Busy(session, target)
  /\ waiters' = waiters \cup {[id |-> id, session |-> session, target |-> target,
                               cursor |-> status[target], until |-> now + WaitLimit]}
  /\ sampler' = IF sampler = Off THEN now + Sampling ELSE sampler
  /\ UNCHANGED <<status, statusClosed>>

(* sample(): every waiter whose status changed, or is gone, is answered. *)
Sampled == {w \in waiters : status[w.target] # w.cursor}

Sample ==
  /\ Due(sampler)
  /\ waiters' = waiters \ Sampled
  /\ sampler' = IF waiters \ Sampled = {} THEN Off ELSE now + Sampling
  /\ UNCHANGED <<now, status, statusClosed>>

(* The timer of a waiter, or its client, ends the wait. *)
TimedOut(w) == Due(w.until) /\ Remove({w}) /\ UNCHANGED <<now, status, statusClosed>>
Abort(w) == Remove({w}) /\ UNCHANGED <<now, status, statusClosed>>

CloseStatus ==
  /\ ~statusClosed /\ statusClosed' = TRUE
  /\ Remove(waiters)
  /\ UNCHANGED <<now, status>>

(* The projects and the runs go on.  A cursor is compared with the status   *)
(* when its wait begins: a change that nobody waits for makes no difference.*)
Change(target, next) ==
  /\ target \in Watched(waiters) /\ status[target] \notin {next, Gone}
  /\ status' = [status EXCEPT ![target] = next]
  /\ UNCHANGED <<now, waiters, sampler, statusClosed>>

WaitersTypeOK ==
  /\ now \in Time /\ statusClosed \in BOOLEAN
  /\ status \in [Targets -> Statuses \cup {Gone}]
  /\ sampler \in {Off} \cup 0 .. MaxTime + Sampling

InitWaiters ==
  /\ now = 0 /\ status = [target \in Targets |-> CHOOSE first \in Statuses : TRUE]
  /\ waiters = {} /\ sampler = Off /\ statusClosed = FALSE

(* No change is missed and nothing is left running: whoever waits is        *)
(* sampled within one interval and answered in time, and no sampler         *)
(* outlives its waiters, whoever ended them and in which order              *)
(* (status-service.ts: sample and remove).                                  *)
WaitersServed ==
  /\ waiters = {} <=> sampler = Off
  /\ sampler # Off => sampler \in now .. now + Sampling
  /\ \A w \in waiters : now <= w.until
  /\ statusClosed => waiters = {}
===============================================================================
