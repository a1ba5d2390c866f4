------------------------------ MODULE TestQueue ------------------------------
(***************************************************************************)
(* The verification queue: class TestJobManager, the test-run table it     *)
(* persists to, and the child process groups it owns.                      *)
(*                                                                         *)
(* One Node.js event loop runs everything, so each action is the code      *)
(* between two awaits.  What interleaves is the code after an await: the   *)
(* pump microtask, a preparation waiting for Git, a completion waiting for *)
(* its process group, a finalization waiting for the log writer, and the   *)
(* calls of users.                                                         *)
(*                                                                         *)
(* A run exists twice: the persisted row (store) and the in-memory object  *)
(* (run) that prepare, start and complete share.  cancel() of a queued run *)
(* works on a third, private copy of the row.                              *)
(***************************************************************************)
EXTENDS Naturals, FiniteSets

CONSTANTS
  NRuns,            \* runs ever enqueued; ids are in enqueue (queuedAt) order
  Worktrees,        \* worktrees that runs name
  Limits,           \* values setLimit may take, the code's 1..16
  MaxQueued,        \* MAX_QUEUED_RUNS
  MaxCrashes,       \* bound: controller crashes in a behaviour
  MayShutDown,      \* whether the behaviour includes a shutdown
  CancelsPreflight  \* whether users cancel a run during its source preflight

ASSUME QueueAssumption ==
  /\ NRuns \in Nat /\ MaxQueued \in Nat /\ MaxCrashes \in Nat
  /\ Worktrees # {}
  /\ Limits # {} /\ Limits \subseteq Nat \ {0}
  /\ MayShutDown \in BOOLEAN /\ CancelsPreflight \in BOOLEAN

VARIABLES
  store,        \* the persisted image of each run
  run,          \* the in-memory object of each run
  wt,           \* the worktree of each run
  preparing,    \* the set of the same name
  observing,    \* runs whose prepare() awaits the preflight observation
  active,       \* keys of the map of the same name
  comp,         \* where complete() of the run's ActiveRun is
  fin,          \* what a pending finish() persists: the run, or cancel's copy
  proc,         \* the owned process group
  outcome,      \* what the child reported: exit code 0, other exit, or error
  cancelReq,    \* ActiveRun.cancellationRequested
  timedOut,     \* ActiveRun.timedOut
  pumping,      \* a pump microtask is scheduled
  shut,         \* progress of shutdown(); `closed` is shut # "open"
  awaited,      \* runs whose completion shutdown() awaits
  limit,        \* the persisted queue setting
  crashes

child == <<proc, outcome, cancelReq, timedOut>>
down  == <<shut, awaited>>
slots == <<preparing, observing, active>>
setup == <<limit, crashes>>
vars == <<store, run, wt, slots, comp, fin, child, pumping, down, setup>>

Runs     == 1..NRuns
Pending  == {"queued", "running"}
Terminal == {"passed", "failed", "cancelled", "timed_out", "interrupted"}

\* A run as saved: its phase, and whether its attribution is observed_match.
Image   == [phase : {"absent"} \cup Pending \cup Terminal, certified : BOOLEAN]
As(ph)  == [phase |-> ph, certified |-> FALSE]

Closed    == shut # "open"
Live(r)   == proc[r] \in {"alive", "lingering"}
Exited(r) == outcome[r] \in {"zero", "nonzero"}
IsQueued(r) == store[r].phase = "queued"

-----------------------------------------------------------------------------
(* Helpers shared by the handlers. *)

\* pump(): schedule the microtask unless it is scheduled or the queue closed.
SchedulePump == pumping' = (pumping \/ ~Closed)

\* finish(): one finalization per run, later calls join it.
Finalizing(r, what) ==
  [fin EXCEPT ![r] = IF @ = "none" THEN what ELSE @]

\* complete(): one completion per ActiveRun, later calls join it.
Completing(r) == [comp EXCEPT ![r] = IF @ = "idle" THEN "stopping" ELSE @]

\* Candidates of the pump: a run being prepared is still queued and listed.
Eligible == {r \in Runs : IsQueued(r) /\ fin[r] = "none"}
\* Fault: the active runs do not occupy their worktrees.
OccupiedByPreparing == {wt[r] : r \in preparing}
Occupied == {wt[r] : r \in active \cup preparing}
\* Fault: sorted the other way, the newest run of a worktree heads it.
NewestHeads == {r \in Eligible : /\ wt[r] \notin Occupied
                                 /\ \A q \in Eligible : wt[q] = wt[r] => r >= q}
Heads    == {r \in Eligible : /\ wt[r] \notin Occupied
                              /\ \A q \in Eligible : wt[q] = wt[r] => r <= q}
FreeSlots == LET used == Cardinality(active) + Cardinality(preparing)
             IN  IF used < limit THEN limit - used ELSE 0

-----------------------------------------------------------------------------
Init ==
  /\ store = [r \in Runs |-> As("absent")]
  /\ run   = [r \in Runs |-> As("absent")]
  /\ wt    = [r \in Runs |-> "none"]
  /\ preparing = {} /\ observing = {} /\ active = {}
  /\ comp = [r \in Runs |-> "idle"]
  /\ fin  = [r \in Runs |-> "none"]
  /\ proc = [r \in Runs |-> "none"]
  /\ outcome = [r \in Runs |-> "none"]
  /\ cancelReq = {} /\ timedOut = {}
  /\ pumping = FALSE /\ shut = "open" /\ awaited = {} /\ limit \in Limits /\ crashes = 0

\* enqueue(): the next run is saved as queued and the pump scheduled.
Enqueue(r, w) ==
  /\ ~Closed
  /\ store[r].phase = "absent"
  /\ \A q \in Runs : q < r => store[q].phase # "absent"
  /\ Cardinality({q \in Runs : IsQueued(q)}) < MaxQueued
  /\ store' = [store EXCEPT ![r] = As("queued")]
  /\ wt' = [wt EXCEPT ![r] = w]
  /\ SchedulePump
  /\ UNCHANGED <<run, slots, comp, fin, child, down, setup>>

\* The pump microtask: oldest first, at most one run of a worktree, while a
\* slot is free.  Every run picked starts its preparation.
Pump ==
  /\ pumping /\ pumping' = FALSE
  /\ \E next \in SUBSET Heads :
       /\ IF Closed THEN next = {}
          ELSE /\ Cardinality(next) <= FreeSlots
               /\ next # Heads => Cardinality(next) = FreeSlots
               /\ \A r \in next, q \in Heads \ next : r < q
       /\ preparing' = preparing \cup next
       /\ observing' = observing \cup next
       /\ run' = [r \in Runs |-> IF r \in next THEN store[r] ELSE run[r]]
  /\ UNCHANGED <<store, wt, active, comp, fin, child, down, setup>>

\* Fault: a new limit does not schedule the pump.
SetLimitQuietly(n) ==
  /\ limit' = n
  /\ UNCHANGED <<store, run, wt, slots, comp, fin, child, pumping, down, crashes>>
\* setLimit(): running jobs are left alone.
SetLimit(n) ==
  /\ limit' = n
  /\ SchedulePump
  /\ UNCHANGED <<store, run, wt, slots, comp, fin, child, down, crashes>>

-----------------------------------------------------------------------------
(* prepare() after the preflight observation, with start() where it follows. *)

Abandoned(r) == Closed \/ ~IsQueued(r)

\* The queue closed or the run left "queued" while Git was asked: drop it.
PreflightAbandoned(r) ==
  /\ r \in observing /\ Abandoned(r)
  /\ observing' = observing \ {r}
  /\ preparing' = preparing \ {r}
  /\ SchedulePump
  /\ UNCHANGED <<store, run, wt, active, comp, fin, child, down, setup>>

\* The source changed or is unknown: fail the run without spawning.
PreflightRejected(r) ==
  /\ r \in observing /\ ~Abandoned(r)
  /\ observing' = observing \ {r}
  /\ preparing' = preparing \ {r}
  /\ run' = [run EXCEPT ![r] = As("failed")]
  /\ fin' = Finalizing(r, "run")
  /\ UNCHANGED <<store, wt, active, comp, child, pumping, down, setup>>

\* Fault: the catch block does not look at the row.
PreflightThrewUnchecked(r) ==
  /\ r \in observing
  /\ observing' = observing \ {r}
  /\ run' = [run EXCEPT ![r] = As("failed")]
  /\ fin' = Finalizing(r, "run")
  /\ UNCHANGED <<store, wt, preparing, active, comp, child, pumping, down, setup>>
\* The observer threw: the catch block checks the row only, not `closed`, and
\* keeps the slot until finish() is done.
PreflightThrew(r) ==
  /\ r \in observing /\ IsQueued(r)
  /\ observing' = observing \ {r}
  /\ run' = [run EXCEPT ![r] = As("failed")]
  /\ fin' = Finalizing(r, "run")
  /\ UNCHANGED <<store, wt, preparing, active, comp, child, pumping, down, setup>>

\* The source matches: start() saves "running" and spawns.  The child runs, or
\* spawn reports an error later ("gone" with no outcome yet).
Start(r) ==
  /\ r \in observing /\ ~Abandoned(r)
  /\ observing' = observing \ {r}
  /\ preparing' = preparing \ {r}
  /\ active' = active \cup {r}
  /\ run' = [run EXCEPT ![r] = As("running")]
  /\ store' = [store EXCEPT ![r] = As("running")]
  /\ \E p \in {"alive", "gone"} : proc' = [proc EXCEPT ![r] = p]
  /\ SchedulePump
  /\ UNCHANGED <<wt, comp, fin, outcome, cancelReq, timedOut,
                 down, setup>>

\* spawn threw: "running" is already saved, the run fails without a slot.
StartThrew(r) ==
  /\ r \in observing /\ ~Abandoned(r)
  /\ observing' = observing \ {r}
  /\ preparing' = preparing \ {r}
  /\ run' = [run EXCEPT ![r] = As("failed")]
  /\ store' = [store EXCEPT ![r] = As("running")]
  /\ fin' = Finalizing(r, "run")
  /\ SchedulePump
  /\ UNCHANGED <<wt, active, comp, child, down, setup>>

-----------------------------------------------------------------------------
(* Events of the child and of the timers, complete() and finish(). *)

\* "exit": members of the group may outlive the leader.
LeaderExit(r) ==
  /\ proc[r] = "alive"
  /\ \E p \in {"lingering", "gone"} : proc' = [proc EXCEPT ![r] = p]
  /\ \E c \in {"zero", "nonzero"} : outcome' = [outcome EXCEPT ![r] = c]
  /\ comp' = Completing(r)
  /\ UNCHANGED <<store, run, wt, slots, fin, cancelReq, timedOut,
                 pumping, down, setup>>

GroupGone(r) ==
  /\ proc[r] = "lingering"
  /\ proc' = [proc EXCEPT ![r] = "gone"]
  /\ UNCHANGED <<store, run, wt, slots, comp, fin, outcome, cancelReq, timedOut,
                 pumping, down, setup>>

\* "error": the child was never spawned and no exit follows.
SpawnError(r) ==
  /\ run[r].phase = "running" /\ proc[r] = "gone" /\ outcome[r] = "none"
  /\ outcome' = [outcome EXCEPT ![r] = "error"]
  /\ comp' = Completing(r)
  /\ UNCHANGED <<store, run, wt, slots, fin, proc, cancelReq, timedOut,
                 pumping, down, setup>>

\* Fault: the test of `exited` is inverted.
TimeoutOfExited(r) ==
  /\ r \in active \ timedOut
  /\ proc[r] = "lingering"
  /\ timedOut' = timedOut \cup {r}
  /\ comp' = Completing(r)
  /\ UNCHANGED <<store, run, wt, slots, fin, proc, outcome, cancelReq,
                 pumping, down, setup>>
\* The one-shot timer of start(); exit and finish() clear it.
Timeout(r) ==
  /\ r \in active \ timedOut
  /\ proc[r] = "alive"
  /\ timedOut' = timedOut \cup {r}
  /\ comp' = Completing(r)
  /\ UNCHANGED <<store, run, wt, slots, fin, proc, outcome, cancelReq,
                 pumping, down, setup>>

\* What the process came to; a cancellation outranks a timeout.
Verdict(r) == IF r \in cancelReq THEN "cancelled"
              ELSE IF r \in timedOut THEN "timed_out"
              ELSE IF outcome[r] = "zero" THEN "passed" ELSE "failed"

\* Fault: the exit of the leader counts as the end of its group.
StopConfirmedByLeader(r) ==
  /\ comp[r] = "stopping" /\ proc[r] \in {"lingering", "gone"}
  /\ outcome[r] # "none"
  /\ comp' = [comp EXCEPT ![r] = "observing"]
  /\ run' = [run EXCEPT ![r] = As(Verdict(r))]
  /\ UNCHANGED <<store, wt, slots, fin, child, pumping, down, setup>>
\* stopWithRetries() and waitForOutputClose() are done: decide the phase.
StopConfirmed(r) ==
  /\ comp[r] = "stopping" /\ proc[r] = "gone" /\ outcome[r] # "none"
  /\ comp' = [comp EXCEPT ![r] = "observing"]
  /\ run' = [run EXCEPT ![r] = As(Verdict(r))]
  /\ UNCHANGED <<store, wt, slots, fin, proc, outcome, cancelReq, timedOut,
                 pumping, down, setup>>

\* All attempts failed: the error is saved, slot and worktree stay held.
StopFailed(r) ==
  /\ comp[r] = "stopping"
  /\ comp' = [comp EXCEPT ![r] = "idle"]
  /\ store' = [store EXCEPT ![r] = run[r]]
  /\ awaited' = awaited \ {r}
  /\ UNCHANGED <<run, wt, slots, fin, proc, outcome, cancelReq, timedOut,
                 pumping, shut, setup>>

\* Fault: the exit code alone decides what is reported.
SourceIgnored(r, match) ==
  /\ comp[r] = "observing"
  /\ comp' = [comp EXCEPT ![r] = "finishing"]
  /\ run' = [run EXCEPT ![r].certified = match]
  /\ fin' = Finalizing(r, "run")
  /\ UNCHANGED <<store, wt, slots, child, pumping, down, setup>>
\* The finish observation: `match` when all three observations are complete,
\* clean and equal.  A thrown observation is an incomplete one.
SourceObserved(r, match) ==
  /\ comp[r] = "observing"
  /\ comp' = [comp EXCEPT ![r] = "finishing"]
  /\ run' = [run EXCEPT ![r] =
       [phase |-> IF @.phase = "passed" /\ ~match THEN "failed" ELSE @.phase,
        certified |-> match]]
  /\ fin' = Finalizing(r, "run")
  /\ UNCHANGED <<store, wt, slots, child, pumping, down, setup>>

\* The debounced save of the log tail writes the whole in-memory object.
LogFlush(r) ==
  /\ Live(r) \/ comp[r] \in {"stopping", "observing"}
  /\ fin[r] # "run"
  /\ store' = [store EXCEPT ![r] = run[r]]
  /\ UNCHANGED <<run, wt, slots, comp, fin, child, pumping, down, setup>>

\* finish() after logs.finishTest(): save, release slot and worktree, pump.
FinishLog(r, written) ==
  /\ fin[r] # "none"
  /\ LET final == IF fin[r] = "copy" THEN As("cancelled") ELSE run[r]
         image == IF final.phase = "passed" /\ ~written
                  THEN [final EXCEPT !.phase = "failed"] ELSE final
     IN /\ store' = [store EXCEPT ![r] = image]
        /\ run' = [run EXCEPT ![r] = IF fin[r] = "copy" THEN @ ELSE image]
  /\ fin' = [fin EXCEPT ![r] = "none"]
  /\ active' = active \ {r}
  /\ preparing' = preparing \ {r}
  /\ comp' = [comp EXCEPT ![r] = IF @ = "finishing" THEN "idle" ELSE @]
  /\ awaited' = awaited \ {r}
  \* The end of complete() drops the ActiveRun with what it recorded.
  /\ LET dropped == IF comp[r] = "finishing" THEN {r} ELSE {}
     IN /\ cancelReq' = cancelReq \ dropped
        /\ timedOut' = timedOut \ dropped
        /\ outcome' = [outcome EXCEPT ![r] = IF r \in dropped THEN "none" ELSE @]
  /\ SchedulePump
  /\ UNCHANGED <<wt, observing, proc, shut, setup>>

-----------------------------------------------------------------------------
(* cancel(), shutdown(), crash and recovery. *)

CancelQueued(r) ==
  /\ IsQueued(r)
  /\ CancelsPreflight \/ r \notin preparing
  /\ preparing' = preparing \ {r}
  /\ fin' = Finalizing(r, "copy")
  /\ UNCHANGED <<store, run, wt, observing, active, comp, child, pumping, down,
                 setup>>

CancelRunning(r) ==
  /\ r \in active /\ run[r].phase = "running"
  /\ cancelReq' = IF Exited(r) THEN cancelReq ELSE cancelReq \cup {r}
  /\ comp' = Completing(r)
  /\ UNCHANGED <<store, run, wt, slots, fin, proc, outcome, timedOut,
                 pumping, down, setup>>

\* shutdown() closes the queue and cancels every pending run in one step.
ShutdownBegin ==
  /\ MayShutDown
  /\ shut = "open" /\ shut' = "closing"
  /\ LET queued  == {r \in Runs : IsQueued(r)}
         running == {r \in active : run[r].phase = "running"}
     IN /\ preparing' = preparing \ queued
        /\ fin' = [r \in Runs |-> IF r \in queued THEN Finalizing(r, "copy")[r]
                                                  ELSE fin[r]]
        /\ cancelReq' = cancelReq \cup {r \in running : ~Exited(r)}
        /\ comp' = [r \in Runs |-> IF r \in running THEN Completing(r)[r]
                                                    ELSE comp[r]]
  /\ UNCHANGED <<store, run, wt, observing, active, proc, outcome, timedOut,
                 pumping, awaited, setup>>

\* Cancellations and preparations have settled: complete what is still active.
ShutdownRetry ==
  /\ shut = "closing" /\ shut' = "draining"
  /\ observing = {}
  /\ \A r \in Runs : fin[r] # "none" => ~IsQueued(r)
  /\ awaited' = active
  /\ comp' = [r \in Runs |-> IF r \in active THEN Completing(r)[r] ELSE comp[r]]
  /\ UNCHANGED <<store, run, wt, slots, fin, child, pumping, setup>>

\* Fault: shutdown() does not look at what is still active.
ShutdownEndBlind ==
  /\ shut = "draining" /\ shut' = "done"
  /\ awaited = {}
  /\ \A r \in Runs : fin[r] = "none"
  /\ UNCHANGED <<store, run, wt, slots, comp, fin, child, pumping, awaited, setup>>
\* Fault: shutdown() waits until nothing is active.
ShutdownEndPatient ==
  /\ shut = "draining" /\ shut' = "done"
  /\ active = {}
  /\ \A r \in Runs : fin[r] = "none"
  /\ UNCHANGED <<store, run, wt, slots, comp, fin, child, pumping, awaited, setup>>
\* Completions and finalizations have settled: succeed only with no active run.
ShutdownEnd ==
  /\ shut = "draining"
  /\ awaited = {}
  /\ \A r \in Runs : fin[r] = "none"
  /\ shut' = IF active = {} THEN "done" ELSE "failed"
  /\ UNCHANGED <<store, run, wt, slots, comp, fin, child, pumping, awaited, setup>>

\* The controller dies and its process groups with it (the service unit's
\* KillMode=control-group); the next one marks what was pending interrupted.
Crash ==
  /\ crashes < MaxCrashes /\ crashes' = crashes + 1
  /\ store' = [r \in Runs |-> IF store[r].phase \in Pending
                              THEN [store[r] EXCEPT !.phase = "interrupted"]
                              ELSE store[r]]
  /\ run' = store'
  /\ preparing' = {} /\ observing' = {} /\ active' = {}
  /\ comp' = [r \in Runs |-> "idle"]
  /\ fin'  = [r \in Runs |-> "none"]
  /\ proc' = [r \in Runs |-> IF Live(r) THEN "gone" ELSE proc[r]]
  /\ outcome' = [r \in Runs |-> "none"]
  /\ cancelReq' = {} /\ timedOut' = {}
  /\ pumping' = FALSE /\ shut' = "open" /\ awaited' = {}
  /\ UNCHANGED <<wt, limit>>

Next ==
  \/ \E r \in Runs, w \in Worktrees : Enqueue(r, w)
  \/ Pump
  \/ \E n \in Limits : SetLimit(n)
  \/ \E r \in Runs :
       \/ PreflightAbandoned(r)
       \/ PreflightRejected(r)
       \/ PreflightThrew(r)
       \/ Start(r)
       \/ StartThrew(r)
       \/ LeaderExit(r)
       \/ GroupGone(r)
       \/ SpawnError(r)
       \/ Timeout(r)
       \/ StopConfirmed(r)
       \/ StopFailed(r)
       \/ \E match \in BOOLEAN : SourceObserved(r, match)
       \/ LogFlush(r)
       \/ \E written \in BOOLEAN : FinishLog(r, written)
       \/ CancelQueued(r)
       \/ CancelRunning(r)
  \/ ShutdownBegin
  \/ ShutdownRetry
  \/ ShutdownEnd
  \/ Crash

\* Every await of the code ends: Git commands and the log writer are bounded,
\* a stop makes three bounded attempts, timers fire, microtasks run.
Preflight(r) == \/ PreflightAbandoned(r) \/ PreflightRejected(r)
                \/ PreflightThrew(r) \/ Start(r) \/ StartThrew(r)
StopEnds(r)  == StopConfirmed(r) \/ StopFailed(r)
Fairness ==
  /\ WF_vars(Pump) /\ WF_vars(ShutdownRetry) /\ WF_vars(ShutdownEnd)
  /\ \A r \in Runs :
       /\ WF_vars(Preflight(r))
       /\ WF_vars(SpawnError(r))
       /\ WF_vars(Timeout(r))
       /\ WF_vars(StopEnds(r))
       /\ WF_vars(\E match \in BOOLEAN : SourceObserved(r, match))
       /\ WF_vars(\E written \in BOOLEAN : FinishLog(r, written))

Spec     == Init /\ [][Next]_vars
FairSpec == Spec /\ Fairness

-----------------------------------------------------------------------------
(* Properties. *)

Holds(r) == r \in preparing \/ Live(r)
IsTerminal(r) == store[r].phase \in Terminal
\* Its end is persisted and its slot given back.
Settled(r) == IsTerminal(r) /\ r \notin active

\* Every variable holds a value of its type.
TypeOK ==
  /\ store \in [Runs -> Image] /\ run \in [Runs -> Image]
  /\ wt \in [Runs -> Worktrees \cup {"none"}]
  /\ preparing \subseteq Runs /\ observing \subseteq Runs /\ active \subseteq Runs
  /\ comp \in [Runs -> {"idle", "stopping", "observing", "finishing"}]
  /\ fin \in [Runs -> {"none", "run", "copy"}]
  /\ proc \in [Runs -> {"none", "alive", "lingering", "gone"}]
  /\ outcome \in [Runs -> {"none", "zero", "nonzero", "error"}]
  /\ cancelReq \subseteq Runs /\ timedOut \subseteq Runs
  /\ pumping \in BOOLEAN
  /\ shut \in {"open", "closing", "draining", "done", "failed"}
  /\ awaited \subseteq Runs
  /\ limit \in Limits /\ crashes \in Nat

\* "runs at most one job in a given worktree" (docs/architecture.md:91), where a
\* preparation and every member of a live process group count (:101).
WorktreeExclusion ==
  \A r, q \in Runs : r # q /\ Holds(r) /\ Holds(q) => wt[r] # wt[q]

\* "the persisted run becomes terminal only after process exit is confirmed"
\* (docs/architecture.md:92), group members included.
TerminalAfterExit == \A r \in Runs : IsTerminal(r) => ~Live(r)

\* First in, first out: a run takes a slot before an older waiting one only when
\* the older one's worktree was held, or goes to a run at least as old.
OldestFirst ==
  [][\A r \in preparing' \ preparing, q \in Eligible :
       q < r => \E p \in active' \cup preparing' :
                  wt[p] = wt[q] /\ (p \in active \cup preparing \/ p <= q)]_vars

\* What was reported as the end of a run is never revised.
SettledIsFinal == [][\A r \in Runs : Settled(r) => store'[r] = store[r]]_vars

\* A run reported as passed, once its completion is over, has the evidence of
\* three complete, clean, equal observations (docs/architecture.md:103).
PassedIsCertified ==
  \A r \in Runs : Settled(r) /\ store[r].phase = "passed" => store[r].certified

\* The same of every moment a reader can see the row.
PassedIsCertifiedWhenRead ==
  \A r \in Runs : store[r].phase = "passed" => store[r].certified

\* No lost wake-up: a run that could start now has a pump coming, at once or
\* when a finalization that is under way ends.
NoMissedWakeup ==
  ~Closed /\ Heads # {} /\ FreeSlots > 0
    => pumping \/ \E r \in Runs : fin[r] # "none"

\* shutdown() that succeeds leaves no process and no pending row behind.
ShutdownLeavesNothing ==
  shut = "done" => \A r \in Runs : ~Live(r) /\ store[r].phase \notin Pending

\* complete() was called for the run and gave up on its process group.
Unconfirmed(r) ==
  /\ r \in active /\ comp[r] = "idle"
  /\ outcome[r] # "none" \/ r \in cancelReq \cup timedOut

\* A queued run ends, unless some process group could not be confirmed gone: the
\* slot of such a run stays held and nothing but a user's cancel or a shutdown
\* retries its cleanup.
EveryRunEnds ==
  \A r \in Runs : IsQueued(r) ~> (IsTerminal(r) \/ \E q \in Runs : Unconfirmed(q))

\* A shutdown comes to an end, with success or with an error.
ShutdownEnds == (shut = "closing") ~> (shut \notin {"closing", "draining"})
=============================================================================
