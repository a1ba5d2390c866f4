---------------------------- MODULE ProjectControl ----------------------------
(***************************************************************************)
(* The development servers: operations of ControlService and RuntimeService *)
(* on the chains of ProjectLifecycle, the runtimes and process groups of    *)
(* ProcessManager, and the shutdown of the controller.                      *)
(*                                                                          *)
(* The calls of one project run one after the other; each gives up control  *)
(* while it awaits Git, a stop, a port or readiness.  Around them servers   *)
(* exit, claims expire, the capacity limit changes, measurements of disk    *)
(* use and test runs come and go, and the controller closes.                *)
(***************************************************************************)
EXTENDS Naturals, FiniteSets

CONSTANTS
  Projects, Worktrees, Agents,
  Human,       \* the owner "local-user"
  Kinds,       \* the operations that are requested
  Limits,      \* values of the server capacity
  Free,        \* no reservation
  NCalls       \* bound: calls ever made

\* Operations of the person only, and those of an agent under its claim; a claim is
\* an agent's, and tests are anybody's.
HumanKinds   == {"start", "restart", "switch", "stop", "profile", "reserve",
                 "release", "clean", "remove"}
ClaimedKinds == {"claimed_start", "claimed_restart", "claimed_stop", "claimed_release"}

NoEntry == "none"     \* worktree of a project that has no runtime entry

ASSUME ControlAssumption ==
  /\ Human \notin Agents /\ NoEntry \notin Worktrees
  /\ Free \notin [id : 1..NCalls, owner : Agents \cup {Human}, worktree : Worktrees]
  /\ Kinds \subseteq HumanKinds \cup ClaimedKinds \cup {"claim", "measure", "test"}
  /\ Limits \subseteq Nat \ {0} /\ Limits # {}
  /\ NCalls \in Nat

VARIABLES
  call,         \* the calls, in the order they came
  pending,      \* pendingStarts: projects whose operation holds a slot
  resv,         \* the reservation of each project
  selected,     \* selectedWorktreePath of each project
  reg,          \* registered projects
  rt,           \* the runtime entry of each project
  proc,         \* the process group each call spawned
  maintenance,  \* worktrees under maintenance
  scans,        \* worktrees whose measurement is queued or runs
  tests,        \* worktrees with a queued or running test
  limit,        \* the server capacity
  closing,      \* admission is closed
  shut          \* progress of shutdown()

locks   == <<resv, selected, reg>>
servers == <<rt, proc>>
work    == <<maintenance, scans, tests>>
control == <<limit, closing, shut>>
vars == <<call, pending, locks, servers, work, control>>

Calls  == 1..NCalls
Owners == Agents \cup {Human}
Places == Projects \X Worktrees

Stages   == {"queued", "git", "stop", "stopped", "port", "health", "abort", "late",
             "timed_out", "observe", "cleaning"}
Requests == [kind : Kinds, stage : Stages, project : Projects, worktree : Worktrees,
             owner : Owners, claim : 0..NCalls, had : BOOLEAN]
Unused == [stage |-> "unused"]
Done   == [stage |-> "done"]

Reservations == [id : Calls, owner : Owners, worktree : Worktrees]

Runtimes == [phase : {"stopped", "starting", "running", "stopping", "failed"},
             worktree : Worktrees \cup {NoEntry}, group : 0..NCalls, child : BOOLEAN,
             cleanup : {"no", "stop", "exit"}]
Groups   == [state : {"unborn", "leader", "lingering", "gone"},
             project : Projects, worktree : Worktrees]
NoGroup  == [state |-> "none"]
Progress == [phase : {"no", "stopping", "done"}, waits : SUBSET Projects,
             failures : SUBSET Projects]

Alive(g) == proc[g].state \in {"leader", "lingering"}

-----------------------------------------------------------------------------
(* Calls and chains. *)

Pending(c) == call[c].stage \in Stages
Of(c)      == call[c].project
On(d, p)   == Pending(d) /\ call[d].project = p

\* Fault: the calls of a project run side by side.
TurnAnytime(c) == call[c].stage = "queued"
\* serialized(): the call is at the head of its project's chain.
Turn(c) == /\ call[c].stage = "queued"
           /\ \A d \in Calls : d < c => ~On(d, Of(c))

\* The worktree of the call; a profile change restarts the selected one.
Target(c) == IF call[c].kind = "profile" THEN selected[Of(c)] ELSE call[c].worktree

At(c, s) == [call EXCEPT ![c].stage = s]
\* The operation ends, well or not, and gives back the slot it held.
Finish(c) == /\ call' = [call EXCEPT ![c] = Done]
             /\ pending' = pending \ {Of(c)}

\* A request is admitted.  An operation under a claim names the reservation.
Arrives(c, k, p, w, a) ==
  /\ ~closing /\ k # "measure"
  /\ call[c] = Unused /\ \A d \in Calls : call[d] = Unused => c <= d
  /\ k \in HumanKinds => a = Human
  /\ k \in ClaimedKinds \cup {"claim"} => a \in Agents
  /\ k \in ClaimedKinds => resv[p] # Free /\ resv[p].owner = a /\ resv[p].worktree = w
  /\ call' = [call EXCEPT ![c] =
       [kind |-> k, stage |-> "queued", project |-> p, worktree |-> w, owner |-> a,
        claim |-> IF k \in ClaimedKinds THEN resv[p].id ELSE 0, had |-> FALSE]]
  /\ UNCHANGED <<pending, locks, servers, work, control>>

-----------------------------------------------------------------------------
(* Reservations and capacity. *)

\* assertReservationAllows().
Allows(p, w, owner) ==
  resv[p] # Free => resv[p].owner = owner /\ resv[p].worktree = w
\* requireAgentClaim(): the very claim of the call is in force.
InForce(c) == resv[Of(c)] # Free /\ resv[Of(c)].id = call[c].claim
\* The worktree a stop or a removal is judged by.
Current(p) == IF rt[p].worktree = NoEntry THEN selected[p] ELSE rt[p].worktree

ActivePhases == {"starting", "running", "stopping"}
\* capacityStatus().
Holders == {p \in reg : \/ p \in pending \/ rt[p].group # 0
                        \/ rt[p].phase \in ActivePhases}
\* Fault: a slot is free once its server failed, whatever became of its processes.
HoldersByPhase(p) ==
  LET used == {q \in reg : q \in pending \/ rt[q].phase \in ActivePhases} IN
  p \in used \/ Cardinality(used) < limit
\* acquireCapacity() succeeds.
HasCapacity(p) == p \in Holders \/ Cardinality(Holders) < limit

-----------------------------------------------------------------------------
(* Runtime entries. *)

\* A new entry, with the group g if one was spawned.
Entry(phase, w, g) == [phase |-> phase, worktree |-> w, group |-> g, child |-> g # 0,
                       cleanup |-> "no"]
\* cleanupRuntime(): joins a cleanup under way.
Cleaned(p, cause) ==
  IF rt[p].cleanup # "no" THEN rt[p]
  ELSE [rt[p] EXCEPT !.phase = "stopping", !.cleanup = cause]
\* stop(): of a project without an entry it does nothing.
Stopping(p) == IF rt[p].worktree = NoEntry THEN rt[p] ELSE Cleaned(p, "stop")
Stopped(p)  == IF rt[p].worktree = NoEntry THEN "stopped" ELSE "stop"

\* The call stops the server before it goes on; held says with a slot.
Stops(c, held) ==
  /\ call' = At(c, Stopped(Of(c)))
  /\ rt' = [rt EXCEPT ![Of(c)] = Stopping(Of(c))]
  /\ pending' = IF held THEN pending \cup {Of(c)} ELSE pending
  /\ UNCHANGED proc

\* start() up to its port check.
Launches(c) ==
  /\ IF closing \/ rt[Of(c)].group # 0 \/ rt[Of(c)].cleanup # "no"
     THEN Finish(c)
     ELSE call' = At(c, "port") /\ pending' = pending \cup {Of(c)}
  /\ UNCHANGED servers

-----------------------------------------------------------------------------
(* An operation takes its turn. *)

\* requireProject() throws.
TurnUnknown(c) ==
  /\ Turn(c) /\ Of(c) \notin reg
  /\ Finish(c)
  /\ UNCHANGED <<locks, servers, work, control>>

\* Operations that ask Git for the worktrees first.
TurnAsksGit(c) ==
  /\ Turn(c) /\ Of(c) \in reg
  /\ call[c].kind \in {"start", "restart", "switch", "claim", "reserve", "test", "clean"}
  /\ call' = At(c, "git")
  /\ UNCHANGED <<pending, locks, servers, work, control>>

\* operateLocked("stop").
TurnStop(c) ==
  /\ Turn(c) /\ Of(c) \in reg /\ call[c].kind = "stop"
  /\ IF Allows(Of(c), Current(Of(c)), Human)
     THEN Stops(c, FALSE)
     ELSE Finish(c) /\ UNCHANGED servers
  /\ UNCHANGED <<locks, work, control>>

\* A change of the selected environment profile: stop, then start.
TurnProfile(c) ==
  /\ Turn(c) /\ Of(c) \in reg /\ call[c].kind = "profile"
  /\ LET p == Of(c) IN
     IF /\ Allows(p, selected[p], Human) /\ Allows(p, Current(p), Human)
        /\ rt[p].phase \in ActivePhases
        /\ HasCapacity(p)
     THEN Stops(c, TRUE)
     ELSE Finish(c) /\ UNCHANGED servers
  /\ UNCHANGED <<locks, work, control>>

\* Fault: the project is removed while its server stops.
RemovesAtOnce(c) ==
  /\ Turn(c) /\ Of(c) \in reg /\ call[c].kind = "remove"
  /\ IF /\ \A w \in Worktrees : <<Of(c), w>> \notin tests
        /\ Allows(Of(c), Current(Of(c)), Human)
     THEN /\ Finish(c) /\ reg' = reg \ {Of(c)} /\ UNCHANGED proc
          /\ resv' = [resv EXCEPT ![Of(c)] = Free]
          /\ rt' = [rt EXCEPT ![Of(c)] = Stopping(Of(c))]
     ELSE Finish(c) /\ UNCHANGED <<reg, resv, servers>>
  /\ UNCHANGED <<selected, work, control>>
\* removeProject(): stops the server first.
TurnRemove(c) ==
  /\ Turn(c) /\ Of(c) \in reg /\ call[c].kind = "remove"
  /\ IF /\ \A w \in Worktrees : <<Of(c), w>> \notin tests
        /\ Allows(Of(c), Current(Of(c)), Human)
     THEN Stops(c, FALSE)
     ELSE Finish(c) /\ UNCHANGED servers
  /\ UNCHANGED <<locks, work, control>>

\* release(), forced or not, and releaseAgentClaim().
TurnRelease(c) ==
  LET p == Of(c) IN
  /\ Turn(c) /\ p \in reg /\ call[c].kind \in {"release", "claimed_release"}
  /\ Finish(c)
  /\ IF call[c].kind = "release" \/ InForce(c)
     THEN \/ resv' = [resv EXCEPT ![p] = Free]
          \/ call[c].kind = "release" /\ resv[p] # Free /\ resv[p].owner # Human
             /\ UNCHANGED resv
     ELSE UNCHANGED resv
  /\ UNCHANGED <<selected, reg, servers, work, control>>

\* operateClaimed() up to its first await; the request may have been aborted.
TurnClaimed(c) ==
  LET p == Of(c)
      k == call[c].kind
      idle == rt[p].group = 0 /\ rt[p].phase \notin {"starting", "stopping"} IN
  /\ Turn(c) /\ p \in reg /\ k \in ClaimedKinds \ {"claimed_release"}
  /\ \/ Finish(c) /\ UNCHANGED servers
     \/ /\ InForce(c)
        /\ rt[p].group # 0 => rt[p].worktree = call[c].worktree
        /\ IF k = "claimed_stop"
           THEN ~idle /\ Stops(c, FALSE)
           ELSE /\ ~(/\ k = "claimed_start" /\ rt[p].phase = "running"
                     /\ rt[p].worktree = call[c].worktree)
                /\ call' = [call EXCEPT ![c].stage = "git",
                     ![c].had = IF k = "claimed_start" THEN ~idle ELSE rt[p].group # 0]
                /\ UNCHANGED <<pending, servers>>
  /\ UNCHANGED <<locks, work, control>>

-----------------------------------------------------------------------------
(* Git has answered. *)

\* Git failed, the worktree is gone, or the token of an agent's test is not the lease's.
GitFails(c) ==
  /\ call[c].stage = "git"
  /\ Finish(c)
  /\ UNCHANGED <<locks, servers, work, control>>

\* operateLocked(): start, restart and switch; a profile change goes on here.
GitOperate(c) ==
  LET p == Of(c)
      k == call[c].kind IN
  /\ call[c].stage = "git" /\ k \in {"start", "restart", "switch", "profile"}
  /\ IF Allows(p, Target(c), Human) /\ HasCapacity(p)
     THEN IF k \in {"restart", "switch"} THEN Stops(c, TRUE) ELSE Launches(c)
     ELSE Finish(c) /\ UNCHANGED servers
  /\ UNCHANGED <<locks, work, control>>

GitClaimed(c) ==
  /\ call[c].stage = "git" /\ call[c].kind \in {"claimed_start", "claimed_restart"}
  /\ IF ~InForce(c) \/ ~HasCapacity(Of(c))
        \/ (call[c].kind = "claimed_start" /\ call[c].had)
     THEN Finish(c) /\ UNCHANGED servers
     ELSE IF call[c].had THEN Stops(c, TRUE) ELSE Launches(c)
  /\ UNCHANGED <<locks, work, control>>

\* claimProject(): the reservation is taken and kept, whatever becomes of the server.
\* Another's is a conflict, as is one's own under another key; a claim that is
\* repeated gets the lease it has and operates the server like the first.
GitClaim(c) ==
  LET p == Of(c)
      a == call[c].owner
      w == call[c].worktree IN
  /\ call[c].stage = "git" /\ call[c].kind = "claim"
  /\ \/ /\ resv[p] # Free
        /\ Finish(c) /\ UNCHANGED <<resv, selected, servers>>
     \/ /\ resv[p] # Free => resv[p].owner = a /\ resv[p].worktree = w
        /\ resv' = IF resv[p] # Free THEN resv
                   ELSE [resv EXCEPT ![p] = [id |-> c, owner |-> a, worktree |-> w]]
        /\ IF (rt[p].phase = "running" /\ rt[p].worktree = w) \/ ~HasCapacity(p)
           THEN Finish(c) /\ UNCHANGED <<selected, servers>>
           ELSE IF rt[p].phase = "stopped"
           THEN Launches(c) /\ selected' = [selected EXCEPT ![p] = w]
           ELSE Stops(c, TRUE) /\ UNCHANGED selected
  /\ UNCHANGED <<reg, work, control>>

GitReserve(c) ==
  LET p == Of(c) IN
  /\ call[c].stage = "git" /\ call[c].kind = "reserve"
  /\ Finish(c)
  /\ resv' = IF resv[p] # Free THEN resv ELSE
       [resv EXCEPT ![p] = [id |-> c, owner |-> Human, worktree |-> call[c].worktree]]
  /\ UNCHANGED <<selected, reg, servers, work, control>>

\* enqueueTest(): the reservation is checked, then the source is observed.
GitTest(c) ==
  /\ call[c].stage = "git" /\ call[c].kind = "test"
  /\ IF Allows(Of(c), call[c].worktree, call[c].owner)
     THEN call' = At(c, "observe") /\ UNCHANGED pending
     ELSE Finish(c)
  /\ UNCHANGED <<locks, servers, work, control>>

SourceObserved(c) ==
  /\ call[c].stage = "observe"
  /\ Finish(c)
  /\ tests' \in {tests, tests \cup {<<Of(c), call[c].worktree>>}}
  /\ UNCHANGED <<locks, servers, maintenance, scans, control>>

\* Fault: the end of a measurement is not awaited.
DeletableWhileMeasured(p, w) ==
  /\ ~(rt[p].worktree = w /\ rt[p].phase \in ActivePhases)
  /\ ~(resv[p] # Free /\ resv[p].worktree = w)
  /\ <<p, w>> \notin tests \cup maintenance
  /\ ~closing
\* deleteWorktreeCache() finds the worktree unused.
Deletable(p, w) ==
  /\ ~(rt[p].worktree = w /\ rt[p].phase \in ActivePhases)
  /\ ~(resv[p] # Free /\ resv[p].worktree = w)
  /\ <<p, w>> \notin tests \cup scans \cup maintenance
  /\ ~closing

GitClean(c) ==
  LET place == <<Of(c), call[c].worktree>> IN
  /\ call[c].stage = "git" /\ call[c].kind = "clean"
  /\ IF Deletable(Of(c), call[c].worktree)
     THEN /\ call' = At(c, "cleaning") /\ maintenance' = maintenance \cup {place}
          /\ UNCHANGED pending
     ELSE Finish(c) /\ UNCHANGED maintenance
  /\ UNCHANGED <<locks, servers, scans, tests, control>>

\* The cleaner has ended; when it succeeded a measurement is queued.
CacheRemoved(c) ==
  LET place == <<Of(c), call[c].worktree>> IN
  /\ call[c].stage = "cleaning"
  /\ Finish(c)
  /\ maintenance' = maintenance \ {place}
  /\ scans' \in {scans, IF closing THEN scans ELSE scans \cup {place}}
  /\ UNCHANGED <<locks, servers, tests, control>>

-----------------------------------------------------------------------------
(* The server is stopped, then perhaps started. *)

\* The call continues after its stop; the launch command may not resolve.
AfterStop(c) ==
  LET p == Of(c)
      k == call[c].kind
      w == call[c].worktree IN
  /\ call[c].stage = "stopped"
  /\ \/ /\ k \in {"stop", "claimed_stop"}
        /\ Finish(c) /\ UNCHANGED <<locks, servers>>
     \/ /\ k = "remove"
        /\ Finish(c) /\ reg' = reg \ {p} /\ resv' = [resv EXCEPT ![p] = Free]
        /\ UNCHANGED <<selected, servers>>
     \/ /\ k = "profile"
        /\ call' = At(c, "git") /\ UNCHANGED <<pending, locks, servers>>
     \/ /\ k \in {"restart", "switch", "claim"}
        /\ Launches(c)
        /\ selected' = IF k = "restart" THEN selected ELSE [selected EXCEPT ![p] = w]
        /\ UNCHANGED <<resv, reg>>
     \/ /\ k = "claimed_restart"
        /\ IF InForce(c) THEN Launches(c) ELSE Finish(c) /\ UNCHANGED servers
        /\ UNCHANGED locks
     \/ /\ k \in {"restart", "switch", "claimed_restart"}
        /\ Finish(c) /\ UNCHANGED <<resv, reg, servers>>
        /\ selected' = IF k = "switch" THEN [selected EXCEPT ![p] = w] ELSE selected
  /\ UNCHANGED <<work, control>>

\* Fault: the claim is not looked at again before the spawn.
MaySpawnAnyway(c) == ~closing
\* The checks between the port check and the spawn.
MaySpawn(c) == ~closing /\ (call[c].kind \in ClaimedKinds => InForce(c))

\* The port is taken: a failed entry.  No cleanup is under way: one without a
\* group ends before any socket answers.
PortTaken(c) ==
  /\ call[c].stage = "port" /\ rt[Of(c)].cleanup = "no"
  /\ Finish(c)
  /\ rt' = [rt EXCEPT ![Of(c)] = Entry("failed", Target(c), 0)]
  /\ UNCHANGED <<locks, proc, work, control>>

\* The port is free: the server is spawned, or fails to.
PortFree(c) ==
  LET p == Of(c)
      w == Target(c) IN
  /\ call[c].stage = "port" /\ rt[p].cleanup = "no"
  /\ IF MaySpawn(c)
     THEN /\ call' = At(c, "health") /\ UNCHANGED pending
          /\ rt' = [rt EXCEPT ![p] = Entry("starting", w, c)]
          /\ \E s \in {"unborn", "leader"} :
               proc' = [proc EXCEPT ![c] = [state |-> s, project |-> p, worktree |-> w]]
     ELSE Finish(c) /\ UNCHANGED servers
  /\ UNCHANGED <<locks, work, control>>

\* The readiness loop sees the server answer.
Healthy(c) ==
  LET p == Of(c) IN
  /\ call[c].stage = "health" /\ ~closing
  /\ rt[p].child /\ rt[p].phase = "starting" /\ proc[c].state # "unborn"
  /\ rt' = [rt EXCEPT ![p].phase = "running"]
  /\ Finish(c)
  /\ UNCHANGED <<locks, proc, work, control>>

\* The readiness loop sees the start overtaken by an exit, a stop or the close.
Aborted(c) ==
  LET p == Of(c) IN
  /\ call[c].stage = "health"
  /\ closing \/ ~rt[p].child \/ rt[p].phase # "starting"
  /\ IF closing \/ rt[p].cleanup # "no"
     THEN /\ call' = At(c, "abort") /\ UNCHANGED <<pending, proc>>
          /\ rt' = [rt EXCEPT ![p] = Stopping(p)]
     ELSE Finish(c) /\ UNCHANGED servers
  /\ UNCHANGED <<locks, work, control>>

\* The startup deadline passes: the server is stopped and marked failed.
Deadline(c) ==
  /\ call[c].stage = "health"
  /\ call' = At(c, "late")
  /\ rt' = [rt EXCEPT ![Of(c)] = Stopping(Of(c))]
  /\ UNCHANGED <<pending, locks, proc, work, control>>

TimedOut(c) ==
  /\ call[c].stage = "timed_out"
  /\ rt' = [rt EXCEPT ![Of(c)].phase = "failed"]
  /\ Finish(c)
  /\ UNCHANGED <<locks, proc, work, control>>

-----------------------------------------------------------------------------
(* Cleanups and the events of processes. *)

Waiting(c, p) == On(c, p) /\ call[c].stage \in {"stop", "abort", "late"}
\* Fault: only the operation that began a stop learns of its end.
SettledStops(p, ok) == [c \in Calls |->
  IF Waiting(c, p) /\ call[c].stage = "stop" THEN IF ok THEN At(c, "stopped")[c] ELSE Done
  ELSE call[c]]
\* Whoever awaited the cleanup of p goes on, or ends with its error.
Settled(p, ok) == [c \in Calls |->
  IF ~Waiting(c, p) THEN call[c]
  ELSE IF ok /\ call[c].stage = "stop" THEN At(c, "stopped")[c]
  ELSE IF ok /\ call[c].stage = "late" THEN At(c, "timed_out")[c]
  ELSE Done]
CleanupSettles(p, ok) ==
  /\ call' = Settled(p, ok)
  /\ pending' = IF \E c \in Calls : Waiting(c, p) /\ Settled(p, ok)[c] = Done
                THEN pending \ {p} ELSE pending
  /\ shut' = [phase |-> shut.phase, waits |-> shut.waits \ {p},
              failures |-> IF ok THEN shut.failures
                           ELSE shut.failures \cup ({p} \cap shut.waits)]

\* The entry once its group is gone; an exit is recorded as a failure.
Confirmed(p) ==
  [phase |-> IF rt[p].cleanup = "exit" THEN "failed" ELSE "stopped",
   worktree |-> rt[p].worktree, group |-> 0, child |-> FALSE, cleanup |-> "no"]
\* The group is confirmed gone.
CleanupEnds(p) ==
  /\ rt[p].cleanup # "no"
  /\ rt' = [rt EXCEPT ![p] = Confirmed(p)]
  /\ proc' = IF rt[p].group = 0 THEN proc ELSE [proc EXCEPT ![rt[p].group].state = "gone"]
  /\ CleanupSettles(p, TRUE)
  /\ UNCHANGED <<locks, work, limit, closing>>

\* Fault: an entry whose stop failed is given up.
GivenUp(p) ==
  /\ rt[p].cleanup # "no" /\ rt[p].group # 0
  /\ rt' = [rt EXCEPT ![p].phase = "failed", ![p].cleanup = "no", ![p].group = 0]
  /\ CleanupSettles(p, FALSE)
  /\ UNCHANGED <<proc, locks, work, limit, closing>>
\* The end of the group could not be confirmed: the entry keeps it.
CleanupUnconfirmed(p) ==
  /\ rt[p].cleanup # "no" /\ rt[p].group # 0
  /\ rt' = [rt EXCEPT ![p].phase = "failed", ![p].cleanup = "no"]
  /\ CleanupSettles(p, FALSE)
  /\ UNCHANGED <<proc, locks, work, limit, closing>>

\* The launched process exits; others of its group may live on.
LeaderExit(g) ==
  LET p == proc[g].project IN
  /\ proc[g].state = "leader"
  /\ \E s \in {"lingering", "gone"} : proc' = [proc EXCEPT ![g].state = s]
  /\ rt' = IF rt[p].group = g
           THEN [rt EXCEPT ![p] = [Cleaned(p, "exit") EXCEPT !.child = FALSE]] ELSE rt
  /\ UNCHANGED <<call, pending, locks, work, control>>

\* The rest of the group ends; nobody is told.
MembersExit(g) ==
  /\ proc[g].state = "lingering"
  /\ proc' = [proc EXCEPT ![g].state = "gone"]
  /\ UNCHANGED <<call, pending, locks, rt, work, control>>

\* Fault: a failed spawn is left to the readiness deadline.
SpawnErrorUnseen(g) ==
  LET p == proc[g].project IN
  /\ proc[g].state = "unborn"
  /\ proc' = [proc EXCEPT ![g].state = "gone"]
  /\ rt' = IF rt[p].group = g THEN [rt EXCEPT ![p].group = 0, ![p].child = FALSE] ELSE rt
  /\ UNCHANGED <<call, pending, locks, work, control>>
\* "error" of a child that never ran.
SpawnError(g) ==
  LET p == proc[g].project IN
  /\ proc[g].state = "unborn"
  /\ proc' = [proc EXCEPT ![g].state = "gone"]
  /\ rt' = IF rt[p].group = g
           THEN [rt EXCEPT ![p].phase = "failed", ![p].group = 0, ![p].child = FALSE]
           ELSE rt
  /\ UNCHANGED <<call, pending, locks, work, control>>

-----------------------------------------------------------------------------
(* Beside the chains. *)

\* An agent's claim expires.
ClaimLapses(p) ==
  /\ resv[p] # Free /\ resv[p].owner \in Agents
  /\ resv' = [resv EXCEPT ![p] = Free]
  /\ UNCHANGED <<call, pending, selected, reg, servers, work, control>>

SetCapacity(n) ==
  /\ limit # n /\ limit' = n
  /\ UNCHANGED <<call, pending, locks, servers, work, closing, shut>>

\* acquireScan() of a measurement: nothing else uses the worktree's files.
ScanStarts(place) ==
  /\ "measure" \in Kinds /\ ~closing /\ place \notin maintenance \cup scans
  /\ scans' = scans \cup {place}
  /\ UNCHANGED <<call, pending, locks, servers, maintenance, tests, control>>

ScanEnds(place) ==
  /\ place \in scans /\ scans' = scans \ {place}
  /\ UNCHANGED <<call, pending, locks, servers, maintenance, tests, control>>

TestsEnd(place) ==
  /\ place \in tests /\ tests' = tests \ {place}
  /\ UNCHANGED <<call, pending, locks, servers, maintenance, scans, control>>

CloseAdmission ==
  /\ ~closing /\ closing' = TRUE
  /\ UNCHANGED <<call, pending, locks, servers, work, limit, shut>>

\* Fault: shutdown() closes the queue of operations only.
ShutdownWithoutStop ==
  /\ shut.phase = "no" /\ closing' = TRUE
  /\ shut' = [phase |-> "stopping", waits |-> {}, failures |-> {}]
  /\ UNCHANGED <<call, pending, locks, servers, work, limit>>
\* Fault: also waits for projects that never had a server.
ShutdownWaitsForAll ==
  /\ shut.phase = "no" /\ closing' = TRUE
  /\ shut' = [phase |-> "stopping", failures |-> {}, waits |-> Projects]
  /\ rt' = [p \in Projects |-> Stopping(p)]
  /\ UNCHANGED <<call, pending, locks, proc, work, limit>>
\* shutdown(): admission closes, stopAll() stops every runtime while the chains drain.
Shutdown ==
  /\ shut.phase = "no" /\ closing' = TRUE
  /\ shut' = [phase |-> "stopping", failures |-> {},
              waits |-> {p \in Projects : rt[p].worktree # NoEntry}]
  /\ rt' = [p \in Projects |-> Stopping(p)]
  /\ UNCHANGED <<call, pending, locks, proc, work, limit>>

ShutdownEnds ==
  /\ shut.phase = "stopping" /\ shut.waits = {}
  /\ \A c \in Calls : ~Pending(c)
  /\ shut' = [shut EXCEPT !.phase = "done"]
  /\ UNCHANGED <<call, pending, locks, servers, work, limit, closing>>

-----------------------------------------------------------------------------
Init ==
  /\ call = [c \in Calls |-> Unused]
  /\ pending = {} /\ reg = Projects
  /\ resv = [p \in Projects |-> Free]
  /\ selected \in [Projects -> Worktrees]
  /\ rt = [p \in Projects |-> Entry("stopped", NoEntry, 0)]
  /\ proc = [g \in Calls |-> NoGroup]
  /\ maintenance = {} /\ scans = {} /\ tests = {}
  /\ limit \in Limits
  /\ closing = FALSE
  /\ shut = [phase |-> "no", waits |-> {}, failures |-> {}]

Turns(c) ==
  \/ TurnUnknown(c) \/ TurnAsksGit(c) \/ TurnStop(c) \/ TurnProfile(c)
  \/ TurnRemove(c) \/ TurnRelease(c) \/ TurnClaimed(c)
Answers(c) ==
  \/ GitFails(c) \/ GitOperate(c) \/ GitClaimed(c) \/ GitClaim(c) \/ GitReserve(c)
  \/ GitTest(c) \/ SourceObserved(c) \/ GitClean(c) \/ CacheRemoved(c)
Servers(c) ==
  \/ AfterStop(c) \/ PortTaken(c) \/ PortFree(c) \/ Healthy(c) \/ Aborted(c)
  \/ Deadline(c) \/ TimedOut(c)
Continues(c) == Turns(c) \/ Answers(c) \/ Servers(c)
CleanupSettled(p) == CleanupEnds(p) \/ CleanupUnconfirmed(p)

Next ==
  \/ \E c \in Calls, k \in Kinds, p \in Projects, w \in Worktrees, a \in Owners :
       Arrives(c, k, p, w, a)
  \/ \E c \in Calls : Continues(c)
  \/ \E p \in Projects : CleanupSettled(p) \/ ClaimLapses(p)
  \/ \E g \in Calls : LeaderExit(g) \/ MembersExit(g) \/ SpawnError(g)
  \/ \E n \in Limits : SetCapacity(n)
  \/ \E place \in Places : ScanStarts(place) \/ ScanEnds(place) \/ TestsEnd(place)
  \/ CloseAdmission \/ Shutdown \/ ShutdownEnds

Spec == Init /\ [][Next]_vars

\* Git commands time out, group stops and readiness have deadlines, promises settle.
FairSpec ==
  /\ Spec
  /\ \A c \in Calls : WF_vars(Continues(c)) /\ WF_vars(SpawnError(c))
  /\ \A p \in Projects : WF_vars(CleanupSettled(p))
  /\ WF_vars(ShutdownEnds)

-----------------------------------------------------------------------------
(* Properties. *)

\* Every variable holds a value of its type.
TypeOK ==
  /\ call \in [Calls -> Requests \cup {Unused, Done}]
  /\ pending \subseteq Projects /\ reg \subseteq Projects
  /\ resv \in [Projects -> Reservations \cup {Free}]
  /\ selected \in [Projects -> Worktrees]
  /\ rt \in [Projects -> Runtimes]
  /\ proc \in [Calls -> Groups \cup {NoGroup}]
  /\ maintenance \subseteq Places /\ scans \subseteq Places /\ tests \subseteq Places
  /\ limit \in Limits /\ closing \in BOOLEAN /\ shut \in Progress

\* "Each project has one managed server slot" (docs/reservations-and-mcp.md:14):
\* every live process belongs to the runtime entry of its project, in the worktree
\* the entry names, so a project has one server at most, whatever exits, failed
\* stops, restarts and shutdown came between.
OneServer ==
  \A g \in Calls : Alive(g) =>
    /\ rt[proc[g].project].group = g
    /\ rt[proc[g].project].worktree = proc[g].worktree

\* "limits concurrently starting or running managed servers"
\* (docs/project-brief.md:135): a project comes to use a slot, for an operation
\* or for processes that may live, only within the limit of that moment; once
\* admission is closed nothing is spawned at all.
Using == pending \cup {p \in Projects : rt[p].group # 0}
WithinCapacity ==
  [][\/ Using' \subseteq Using \/ Cardinality(Using') <= limit
     \/ closing /\ \A p \in Projects : rt'[p].group \in {0, rt[p].group}]_vars

\* "failed starts release it" (docs/project-brief.md:138): a slot is held only for
\* an operation in progress, a cleanup under way or processes that may live.
NoLeakedSlot ==
  \A p \in Holders :
    \/ rt[p].group # 0 \/ rt[p].cleanup # "no"
    \/ \E c \in Calls : On(c, p) /\ call[c].stage # "queued"

\* Nobody's server is spawned or stopped against a reservation: when an operation
\* does either, the project's reservation, if one is in force then, is its
\* requester's: "binary exclusive reservation" (docs/reservations-and-mcp.md:15).
OperatedByOwner ==
  [][\A p \in Projects :
       /\ ~closing' /\ resv[p] # Free
       /\ \/ rt'[p].group \notin {0, rt[p].group}
          \/ rt[p].cleanup = "no" /\ rt'[p].cleanup = "stop"
       => \E c \in Calls :
            On(c, p) /\ call'[c] # call[c] /\ call[c].owner = resv[p].owner]_vars

\* "start_project, restart_project, and stop_project require the exact active
\* agent reservation" (docs/reservations-and-mcp.md:173): a server spawned under a
\* claim starts while that very claim is in force, in its worktree, however long
\* Git, the stop and the port check took.
SpawnedUnderClaim ==
  [][\A c \in Calls :
       /\ Pending(c) /\ call[c].kind \in ClaimedKinds /\ rt'[Of(c)].group = c
       /\ rt[Of(c)].group # c
       => /\ resv[Of(c)] # Free /\ resv[Of(c)].id = call[c].claim
          /\ resv[Of(c)].worktree = rt'[Of(c)].worktree]_vars

\* "refuses deletion while that worktree is running, reserved, or being scanned"
\* (docs/architecture.md:164), until the deletion has ended; a test neither.
\* "Running" by the recorded phase.
DeletedUndisturbed ==
  \A p \in Projects, w \in Worktrees : <<p, w>> \in maintenance =>
    /\ <<p, w>> \notin scans \cup tests
    /\ resv[p] # Free => resv[p].worktree # w
    /\ rt[p].worktree = w => rt[p].phase \notin {"starting", "running"}

\* The same for processes instead of the recorded phase: "remove a stopped,
\* unlocked Next.js worktree's exact .next cache" (README.md:27).
DeletedWhenStopped ==
  \A g \in Calls : Alive(g) => <<proc[g].project, proc[g].worktree>> \notin maintenance

\* A project leaves the registry without processes, tests or an owned group.
RemovedIsIdle ==
  \A p \in Projects \ reg :
    /\ rt[p].group = 0
    /\ \A g \in Calls : Alive(g) => proc[g].project # p
    /\ \A w \in Worktrees : <<p, w>> \notin tests

\* A shutdown that reports no failure leaves no process of a server.
ShutdownLeavesNothing ==
  shut.phase = "done" /\ shut.failures = {} => \A g \in Calls : ~Alive(g)

\* Calls of a project run in the order they came, one at a time.
InOrder ==
  \A c, d \in Calls : c < d =>
    /\ call[c] = Unused => call[d] = Unused
    /\ Pending(c) /\ Pending(d) /\ Of(c) = Of(d) => call[d].stage = "queued"

\* A call that checks the port found no group, and nobody else spawns one.
PortIsFree == \A c \in Calls : call[c].stage = "port" => rt[Of(c)].group = 0

\* The group of an entry is one that was spawned.
GroupKnown ==
  \A p \in Projects : rt[p].group # 0 => proc[rt[p].group].state # "none"

\* What stopAll() set out to stop covers every group, until one is unconfirmed.
ShutdownCovers ==
  /\ \A p \in Projects : rt[p].group # 0 => rt[p].worktree # NoEntry
  /\ shut.phase # "no" => closing
  /\ shut.phase = "done" => shut.waits = {}
  /\ shut.phase # "no" /\ shut.failures = {} =>
       \A p \in Projects : rt[p].group # 0 => p \in shut.waits

\* The inductive invariant: why a new server never meets an old one, and why a
\* shutdown without failures leaves none.
IInv == TypeOK /\ GroupKnown /\ InOrder /\ PortIsFree /\ OneServer /\ ShutdownCovers

\* The call that makes a reservation of its number has made it.
Made(d) ==
  /\ call[d] # Unused
  /\ Pending(d) /\ call[d].kind \in {"claim", "reserve"} => call[d].stage \notin {"queued", "git"}

\* The claim a call names was made; while it is in force it is its owner's.
ClaimsMatch ==
  /\ \A p \in Projects : resv[p] # Free => Made(resv[p].id)
  /\ \A c \in Calls : Pending(c) /\ call[c].kind \in ClaimedKinds =>
       /\ call[c].claim \in Calls /\ Made(call[c].claim)
       /\ InForce(c) => /\ resv[Of(c)].worktree = call[c].worktree
                        /\ resv[Of(c)].owner = call[c].owner

\* Stages after an operation was judged by the reservation.
Operating == {"stop", "stopped", "port", "health", "abort", "late", "timed_out"}
\* A project that is being operated is its operator's, or nobody's any more.
OperatorsMatch ==
  \A c \in Calls : Pending(c) =>
    /\ call[c].kind \in HumanKinds => call[c].owner = Human
    /\ call[c].stage \in Operating /\ resv[Of(c)] # Free
         => resv[Of(c)].owner = call[c].owner

\* Why an operation that was allowed stays allowed across its awaits.
OwnerInv == ClaimsMatch /\ OperatorsMatch

\* Every admitted operation ends, so no chain is blocked for ever.
EveryCallEnds == \A c \in Calls : Pending(c) ~> ~Pending(c)

\* shutdown() returns, in whatever state it finds operations and servers.
ShutdownReturns == shut.phase = "stopping" ~> shut.phase = "done"
=============================================================================
