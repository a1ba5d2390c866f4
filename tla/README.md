# Verification of worktree-control in TLA+

One Node.js process, the *controller*, serves a dashboard over HTTP, an MCP
server for coding agents and a CLI. It runs one development server per
registered project, in one of the project's Git worktrees, a queue of test runs,
leases that keep users and agents out of each other's way, a knowledge store,
and backups, over one SQLite database. All source paths below are relative to
`src/src/server/` unless they say otherwise; docs are in `src/docs/`.

The event loop gives the atomicity used in every module: **an action is the code
between two awaits**. SQLite calls (better-sqlite3) are synchronous, so a
transaction is part of the action that makes it. What interleaves is whatever
code runs after an `await`: a continuation, a timer, a child's event, a request.

## 1. Inventory

| component | state | operations | interacts with |
|---|---|---|---|
| Test queue (`test-job-manager.ts`, `infrastructure/sqlite/test-run-queries.ts`, `modules/verification/`) | rows of runs; `active`, `preparing`, `finalizations`; pump flag; closed | enqueue, setLimit, cancel, shutdown, pump; prepare, start, complete, finish; recovery | process groups, Git observations, log writer |
| Owned process group (`owned-process-group.ts`) | `retired`, `stopping` | alive, stop | the operating system; queue, process manager |
| Source attribution (`test-source-attribution.ts`) | none: evidence in the run | compareSource, qualifySource | queue, status views |
| Project lifecycle (`modules/lifecycle/`) | per-project operation chain, capacity in use, maintenance, scans, admission | serialized, acquireCapacity, acquireMaintenance, acquireScan, closeAndDrain | all services that touch a project |
| Process manager (`process-manager.ts`) | runtime record per project, log buffers | start, stop, stopAll, markFailed, readiness | process groups, store |
| Runtime service (`modules/runtime/`) | none of its own | operate, operateClaimed, setProjectTls | lifecycle, reservations, process manager |
| Control service (`control-service.ts`) | registry | addProject, removeProject, claims, cache deletion, shutdown | everything |
| Reservations (`infrastructure/sqlite/sqlite-state-store.ts`) | reservation rows | acquire, authorize, renew, release, expire | runtime, control, MCP |
| MCP sessions (`modules/mcp-sessions/`, `transports/mcp/`) | session table, liveness, calls and responses in flight, retry ledger | admit, activity, responses, drain, close | reservations (renewal), status waits |
| Remote verification (`modules/remote-verification/`, `infrastructure/sqlite/remote-verification-queries.ts`) | requests, attempts, revisions | submit, assign, report, cancel, recover | remote workers |
| Restore recovery (`infrastructure/sqlite/restore-recovery.ts`, `restore-requests.ts`, `modules/backups/restore-operations.ts`) | the files in use, put away and staged; journal; request, handoff record | admit, launch, drain, execute, recover, fence; offline restore | the shutdown, the next start, backups |
| Backups (`modules/backups/`) | ledgers of operations and of remote receipts, copies | create, execute, retain, transfer, retry, close, recover | restore requests, remote repository, verifier |
| Git admission (`git-worktrees.ts`) | active count, waiting list, closed | run, close | every Git command |
| Worktree storage (`worktree-storage.ts`) | cached sizes, queue, current scan | refresh, ensureFresh, close | lifecycle (scans), cache deletion |
| Status waiters (`modules/status/`) | waiter set, last sample, timer | wait, sample, close | every MCP long poll |
| Knowledge (`modules/knowledge/`) | records with revisions | create, update, supersede, archive | attachments, identity |
| Identity, authentication, environments, dashboard, transports, logs, migrations | rows and files | requests | |

Which behaviours are hard, and what makes each component correct:

- **Test queue.** A run exists as a row, as an object shared by `prepare`,
  `start` and `complete`, and as a private copy in `cancel`; timeouts, exits,
  errors, cancels and shutdown all complete it. Correct when worktrees are
  exclusive, the limit and the order hold, a terminal row means the processes
  are gone, `passed` means certified, no wake-up is lost, and everything ends.
- **Process manager, runtime, lifecycle.** An operation awaits Git, readiness
  and group stops while another one is queued behind it, its claim can lapse
  and shutdown can close admission. Correct when one server at a time runs for a
  project, capacity is never exceeded or leaked, a lapsed claim does not act,
  and shutdown leaves no process.
- **Reservations.** Expiry is evaluated lazily and renewals are not serialized
  with claims. Correct when one owner at a time holds a project, an expired
  lease is never revived, and a retried claim is answered with the same lease.
- **MCP sessions.** Deadline timers race with calls and response streams; a drain
  waits for both. Correct when a slot is held exactly as long as accepted work
  lasts, no deadline is missed, a drain cuts nothing short and every slot returns.
- **Status waiters.** One sampler, many waiters with their own timers and clients.
  Correct when nobody waits unsampled and no sampler outlives its waiters.
- **Restore recovery.** Renames and marker files with a crash or a power failure
  between any two. Correct when after recovery the installation is the old or the
  new one, whole; nothing in use is lost; restored credentials are fenced before
  service; and the outcome that is reported is the one that happened.
- **Backups.** Retention awaits a verification while restores are admitted; uploads
  outlive the controller; ledgers fail to be written. Correct when a copy that is
  needed is kept, a confirmed transfer is in the repository, an attempt is charged
  once, and everything ends.
- **Git admission, worktree storage.** Bounded pools with coalescing and close.
  Correct when the bound holds and close leaves nobody waiting.

## 2. Plan

In order of importance; each entry names the abstract specification and the
theorems worth having.

1. `TestQueue` with `VerificationSlots` (abstract) — *done*, section 3.
2. `ProjectClaims`: clock, lazy expiry, renewals, retried claims; theorems: one
   owner, no revival, no displacement — *done*, section 4.
3. `ProjectControl`: lifecycle, runtime service and process manager with claims,
   capacity and shutdown; theorems: one server per project, operations by the
   owner only, capacity, slots, deletions, removals — *done*, section 5.
4. `RestoreRecovery`, `RestoreHandoff` with `InstalledGeneration` (abstract):
   renames under crashes and power failures, the handoff around them; theorems:
   every invariant of the run, the refinement, recovery never refuses — *done*,
   section 6.
5. `BackupExecutor`: backups, transfers, retention, recovery; theorems: needed
   copies stay, confirmations are true, budgets hold — *done*, section 7.
6. `StatusWaiters`, composed into `McpSessions`; theorems: slots, deadlines,
   waiters, drains — *done*, section 8.
7. Theorems about the ends of runs, shutdown, order and wake-ups of the queue —
   *done*, section 3. A theorem that an active client keeps its lease — *done*,
   section 4.

Every run asks several questions of one instance, so that each component is
checked on the largest state space that one exploration can cover. The type
invariants are not among the runs' properties: theorems prove them (`TypeCorrect`,
`ClaimTypes`, `TypesHold`, `RestoreTypes`, `BackupTypes`, `SessionTypes`).

## 3. The verification queue

| module | content |
|---|---|
| `TestQueue` | the manager, the table and the process groups; properties |
| `VerificationSlots` | abstract specification: runs wait, hold a slot and a worktree, are over |
| `TestQueueSlots` | refinement mapping, inductive invariant |
| `MCTestQueue` | symmetry for TLC |
| `TestQueueProofs` | theorems |

**State.** `store` is the persisted row (phase, and whether its attribution is
`observed_match`), `run` the in-memory object, `preparing` and `active` the
collections of the same names, `observing` the preparations that await Git,
`comp` the position of `complete()`, `fin` the pending finalization and whether
it saves the shared object or the copy that `cancel()` took, `proc` the process
group (alive, lingering without its leader, gone), `outcome` what the child
reported, `pumping` the scheduled microtask, `shut` and `awaited` the progress of
`shutdown()`.

**Actions.** `Enqueue`, `SetLimit`, `CancelQueued`, `CancelRunning` are the
calls; `Pump` the microtask; `Preflight*`, `Start`, `StartThrew` the code of
`prepare()` after the Git observation (with `start()` where it follows
immediately); `LeaderExit`, `GroupGone`, `SpawnError`, `Timeout` the events;
`StopConfirmed`, `StopFailed`, `SourceObserved` the continuations of
`complete()`; `FinishLog` the end of `finish()`; `LogFlush` the debounced save;
`Shutdown*` the three segments of `shutdown()`; `Crash` the death of the
controller and the recovery in the next constructor. A crash kills the process
groups too: the service unit has `KillMode=control-group`
(docs/architecture.md:397).

**Runs.**

| run | question | bounds |
|---|---|---|
| `scheduling` | are slots given oldest first, without a lost wake-up, and is a passed run certified | 3 runs, 2 worktrees, limit 1 or 2 and changing |
| `recovery` | do exclusion, exit-before-terminal, finality and the refinement survive a shutdown and a crash at any point; does every run end and every shutdown return | 2 runs, 2 worktrees, limit 2, 1 crash |
| `cancel_preflight` | finding 1 (violation) | 2 runs |
| `early_pass` | finding 2 (violation) | 1 run |

Three runs over two worktrees are the least in which a younger run may overtake
an older one of a busy worktree and be itself overtaken; limit 1 and 2 give a
full and a partly free pool, and lowering the limit under running jobs. The
crash and shutdown interact with one run and its neighbour, so two runs suffice
there: in one worktree they wait for each other, in two they run together.
Two runs cannot overdraw a limit of 2, so TLC checks the other
clauses of `ImplementsSlots` (one run per worktree, what a crash frees) and the
theorem `QueueImplementsSlots` the bound on the slots.
`MaxQueued` is the 100 of the code, made reachable. Deadlock is not
checked: with a bounded number of runs the queue comes to rest.

**Fairness.** Weak fairness of the continuations of each run and of the pump:
Git commands have a timeout, a stop makes three bounded attempts, the log writer
answers, timers fire, microtasks run. Nothing is assumed of users, of the child
(its timeout ends it) or of the log timer. `EveryRunEnds` excepts a process
group whose end could not be confirmed: its slot stays held by design
(docs/architecture.md:92-95) and only a cancel or shutdown retries.

**Proofs** (`TestQueueProofs`, all constants). `TypeCorrect` by induction.
`ExclusiveWorktrees` and `TerminalRunsHaveExited` from the inductive invariant
`IInv`: neither property is inductive, because whether a process can be alive
depends on where `complete()` and `finish()` of its run are; `RunInv` says for
each run which combinations of row, object, slot, process and pending await
occur, `SlotInv` that slot holders are in different worktrees.
`QueueImplementsSlots` maps every action to `Submit`, `Grant`, `Drop`, `SetLimit`
or a stutter of `VerificationSlots`; the counting facts use the library's
cardinality theorems. These three assume `~CancelsPreflight`, the
case finding 1 excludes.

What a run's end and the queue's end rest on is `EndInv`, kept beside `IInv`: a
queued run of a closed queue has its finalization pending, because closing and
cancelling happen in one task; a pending finalization of a run that holds no slot
means that its row is not yet terminal; the object a completion saves as passed
is certified, because `complete()` writes the phase after the last observation;
after a successful shutdown nothing is active or being finalized. From it follow
`NothingIsLeft`, `EndsAreFinal` and `PassedRunsAreCertified`, under the same
assumption. The last also assumes `MaxCrashes = 0`: a crash between the debounced
save of a passed run and its finish observation leaves the row passed and
uncertified, which is finding 2 made permanent. `NoWakeupIsLost` needs that
whatever frees a slot or a worktree schedules the pump in the same step or is a
finalization that does; TLC finds no missed wakeup with such cancellations
either, so its `~CancelsPreflight` is the proof's need and perhaps not the code's.
Elsewhere the assumption is not only the proof's need: with `CancelsPreflight = TRUE`
TLC violates `WorktreeExclusion`, `ShutdownLeavesNothing`, `PassedIsCertified` and
`SettledIsFinal`, all as consequences of finding 1. `OldestIsServed` needs no assumption: `HeadExists` finds,
for every waiting run whose worktree is free, the oldest of that worktree (the
smallest of a nonempty set of numbers, by the library's theorem on the ordering
of the naturals), which is the one the pump takes. Only liveness (`EveryRunEnds`,
`ShutdownEnds`) is model-checked alone.

**Findings.** (1) Cancelling a run during its preflight: `cancel()` finalizes a
copy and gives the slot back, but the row is queued until the log writer
answers; the preparation can start the process in between, and the run is then
persisted as cancelled while its process lives and occupies nothing. (2) The
debounced log save can persist `passed` before the finish observation.
`PassedIsCertified` shows that the end of the completion repairs this unless the
controller dies in between.

**Not modelled.** The path without a source observer (production Git always has
one), idempotent replay of an enqueue (synchronous, changes nothing), retention
of 50 terminal rows (fewer runs than that), failing SQLite writes, the actor
check of `cancel`, output text, queue positions. Observations are reduced to
match or no match; ties of `queuedAt` within a millisecond are not modelled.

## 4. Reservations and claims

| module | content |
|---|---|
| `ProjectClaims` | reservation rows, the calls that take, renew and release them, what an MCP session keeps of its claims; properties |
| `MCProjectClaims` | symmetry for TLC |
| `ProjectClaimsProofs` | theorems |

**State.** `res` holds the rows of `project_reservations` (owner, key, token for
the hash, creation, expiry, maximum), `call` the calls of `claim_project` and
`release_project_claim` on their project's chain, `tokens` the session's
`idempotencyTokens`, `handle` its `claims` entry with the renewal timer, `last`
and `stopped` the fields of `ManagedSession` with which `renewalAllowed()` works,
`closing` the sessions that began to close, `now` the clock.

**Actions.** A claim *arrives* (the token is chosen), has its *turn* on the chain
(`ClaimAcquires`, `ClaimRepeats`, `ClaimRefused` are the three outcomes of
`acquireReservation()`) and *returns* after the server was operated; releases
arrive and run likewise. `RenewalTimer` and `RenewCall` run beside the chain.
`HumanReserves`, `HumanReleases`, `Reader`, `SessionCloses`, `Restart` and
`Tick` complete the picture. Rows expire lazily: `Expire(p)` is what
`expireReservations()` does for the one project it is called for, so a row can be
past its expiry and unreleased, which `Effective` distinguishes from `Held`.

**Runs.**

| run | question | bounds |
|---|---|---|
| `claims_leases` | can a claim, a late renewal or lazy expiry displace or revive a reservation; how long does a lease outlive its owner, whose session may close, and does activity keep it | 2 sessions and a person, 1 project, 2 rows, 2 calls, TTLs 3 and 4, lifetime 7, idle limit 2, 5 moments |
| `claims_repeat` | finding 3 (violation) | 1 session, 2 calls |

The unit of time is a third of the least TTL, so a renewal falls due within the
lease. The lifetime exceeds idle limit plus TTL, so the idle bound is what ends a
silent lease, and a renewal from moment 4 on reaches the lifetime. Two rows and
two calls are the least in which a second owner meets an expired, unmarked row of
the first, and in which a repeat meets the call it repeats. Reservations of
different projects meet only where a key is repeated, which refuses the claim
and changes nothing.

**Proofs** (`ProjectClaimsProofs`, all constants). The inductive invariant is
`TypeOK`, `OneReservation`, `LapsesAfterSilence` with `Owned` (a claim or release
in progress, and a session's entry, name a row of that session and project:
without it a late answer could arm a timer for somebody else's row) and
`LastPast` (activity is never in the future: without it the idle test says
nothing). `Exclusive`, `LeasesLapse`, `NoRevival` and `NoDisplacement` follow.

`ActiveClientsKeepLeases` proves `KeptWhileActive` from `Renewing`, an invariant of
every claims entry: a timer armed at a call is due within its delay of the call; a
timer armed by a renewal has a lease that ends at least TTL minus delay after it
is due, or with the lifetime; a timer that stopped for idleness has a lease that
outlasts the last call by a TTL, because it was due more than a delay after that
call. `EntryStep` classifies what a step does to an entry and its row (nothing, a
call of its session, a timer armed at a call, a timer that stops, a timer that
renews). The theorem assumes that the idle limit is longer than every delay: the
code's delay is at most 10 minutes (mcp-runtime.ts:856) and the limit 15 minutes by
default (session-limits.ts:29). `--mcp-claim-renewal-idle-minutes` accepts limits
from one minute (cli/mcp-session-options.ts:5); with one of 10 minutes or less a
timer can find a client idle that called after it was armed, and the 30 minutes of
docs/reservations-and-mcp.md:327 are not guaranteed. The type, exclusion, lapse and
revival theorems do not need the assumption. Every property of the run `leases` is
proved.

**Finding** (3). The token of a retried claim is looked up when the retry arrives,
but stored only when the first call returned: a retry in flight is refused.

**Not modelled.** Failing SQLite writes, audit rows, new sessions after a restart
(they own nothing), times below a second, the policy reasons of a refusal.

## 5. Project control

| module | content |
|---|---|
| `ProjectControl` | operations on the projects' chains, runtime entries, process groups, capacity, maintenance, shutdown; properties and the inductive invariant |
| `MCProjectControl` | symmetry for TLC |
| `ProjectControlProofs` | theorems about servers and shutdown |
| `ProjectControlOwnerProofs` | theorems about reservations and claims, slots, deletions and removals |

**State.** `call` holds every operation in the order it came: its stage is where
it awaits (`queued` on the chain, `git`, `stop`, `port`, `health`, ...). `rt` is
`ProcessManager.runtimes` (`cleanup` tells who began the pending cleanup: a stop,
or an exit, after which the entry is marked failed), `proc` the process group of
each spawn (`unborn`: the spawn will report an error; `leader`; `lingering`: the
launcher has exited and others of the group live; `gone`). `pending` is
`pendingStarts`, `resv` the reservation in force, `selected` the project's
worktree, `maintenance` and `scans` the permits of `ProjectLifecycle`, `tests`
the worktrees with a queued or running test, `shut` what `shutdown()` waits for
and which stops it saw fail. Leases are taken from section 4: here a reservation
is in force or not and an agent's may lapse at any moment (`ClaimLapses`).

**Actions.** `Arrives` is the entry into `serialized()`; `Turn...` what an
operation does from the head of its chain to its first await; `Git...` what
follows the Git answer; `AfterStop`, `PortTaken`, `PortFree`, `Healthy`,
`Aborted`, `Deadline`, `TimedOut` the rest of `restart`, `switch`, `start()`. A
cleanup that ends (`CleanupEnds`, `CleanupUnconfirmed`) settles everyone who
awaits it in the same step: joined stops, an aborted or late start, the shutdown.
`LeaderExit`, `MembersExit`, `SpawnError` are the events of processes.
In `GitClaim` a claim that is repeated gets the lease it has and operates the
server like the first one; its own lease under another key is a conflict like
another's. `run_test` is open to agents, with or without a claim (`GitTest`). Each
wait for Git ends in an error too (`GitFails`), and so does the command that is
resolved between the stop and the start (`AfterStop`).
`PortTaken` and `PortFree` require that no cleanup is pending: an entry without a
group is cleaned up within microtasks, before a socket can answer.

**Runs.**

| run | question | bounds |
|---|---|---|
| `control_work` | is there one server at most, does anybody operate against another's reservation or under a claim that lapsed, are deletions, measurements, tests and removals kept apart from servers, is a slot returned, is no server left after a shutdown | 1 project, 2 worktrees, 2 agents and a person, limit 1, 13 kinds of operation, 3 calls |
| `control_liveness` | is capacity respected; does every operation end and shutdown return | 2 projects, limit 1 or 2 and changing, 5 kinds of operation, 2 calls |
| `control_deleted` | finding 4 (violation) | 2 calls |

`control_work` leaves out a person's `start` (a `claimed_start` without a claim, and the
first half of `profile`), `stop` and `restart`, which is a `switch` that leaves the selection
as it is: the actions are the same, and the theorems below cover every kind. `start` and `stop`
are in `control_liveness`. Chains of different projects share only capacity and the shutdown, so two
projects are needed for these and one suffices elsewhere. Three calls on a chain
give an operation, one that waits behind it and one that comes after; with them
one agent's claim can lapse, another's be taken and a stale operation of the
first have its turn.
Deadlock is not checked: with a bounded number of calls the controller comes to
rest.

`WithinCapacity` excepts the time after admission closed: `stopAll()` marks even
an entry without a group as stopping for some microtasks, which counts as a slot
and lets an operation in progress past the capacity check; nothing is spawned
then. A limit lowered below the current use stops nobody, so the property speaks
about the moment a project comes to use a slot.

**Fairness.** Weak fairness of the continuations of each call and of cleanups:
Git commands have a timeout, a stop makes bounded attempts and then reports that
it is unconfirmed, readiness has a deadline, promises settle. Nothing is assumed
of users, agents, or servers (a server may live for ever).

**Proofs** (`ProjectControlProofs`, all constants). `OneServer` is not inductive:
a spawn overwrites the entry, so it must be known that the entry had no group
then, which was checked before an await. `IInv` adds `InOrder` (the calls of a
project leave the chain one at a time, in order), `PortIsFree` (while a call
checks the port its project has no group), `GroupKnown` (an entry's group was
spawned) and `ShutdownCovers` (what `stopAll()` waits for covers every group
until a stop fails). The proof first classifies steps: `Quiet` ones, in which
nothing gains a group, keep the invariant by one lemma, and only the spawn, the
end of a cleanup, an arrival and the shutdown are argued on their own. Theorems:
`TypesHold`, `Invariance`, `OneServerEach`, `ShutdownIsClean`.

`ProjectControlOwnerProofs` proves `OperatedByOwner` and `SpawnedUnderClaim`,
which speak of steps, from `IInv` and `OwnerInv`. An operation is judged by the
reservation once and acts several awaits later. `OwnerInv` says why that is
right: reservations are taken only by calls on the project's own chain, where
`InOrder` leaves no room for a second call that operates, so between judgement
and action a reservation can only lapse (`OperatorsMatch`); and a claim's number
is never used again, so a claim that is in force at the spawn is the one the
call named (`ClaimsMatch`). `Booking` classifies the steps that keep it.

The same module proves what slots, deletions and removals rest on. None of the
four properties is inductive: a slot, a maintenance permit and a phase are set and
cleared in different steps, by an operation, a cleanup or an exit. `WorkInv` ties
them together. `CallInv` lists what an operation found before an await that still
holds after it (its project is registered; a removal has no test beside it; who
went on from a stop found no group; who restarts holds the slot already).
`EntryInv` and `StopAwaited` say what a phase means: a server that starts or runs
has a group, an exit that is cleaned up too, and a stop that is under way is
awaited by an operation until admission closes. `SlotUsed` and `Undisturbed` name
the operation that holds a slot or a maintenance permit, `Emptied` what a removed
project has lost. The proof turns on `OneOperates` (by `InOrder`, the call that
moves is the only operation of its project), so the step of a call concerns its own
project alone (`StepKeeps`) and needs a few facts of the new entry and call
(`MoveKeeps`); exits, lapses, measurements and the shutdown make entries only
`Weaker` (`EventKeeps`); the end of a cleanup is argued by itself. `SlotsAreHeld`,
`DeletionsUndisturbed` and `RemovedProjectsIdle` follow. `CapacityIsKept` needs the
step as well: a slot is taken by an operation that passed `acquireCapacity()` in
that very step, or that had it already (`SlotsTaken`), and who passed without being
counted finds fewer holders than the limit (`OneMore`); "as if counted" could only
come from an entry that is stopping without a group, which `StopAwaited` excludes
before admission closes. Its one hypothesis is that the set of projects is finite.
`LiveServersBounded` turns this property of steps into one of states that no run
asks for: with finitely many projects and limits up to `n`, no more than `n` servers
live at any time, shutdown included (`Bounded` counts slots until admission closes
and owned groups always; by `OneServer` live servers map one to one to owned groups).
TLC had checked `WorkInv` on the instance of `control_work` and with two projects.
Of this component's properties only liveness is model-checked alone.

**Finding** (4). A stop that could not be confirmed leaves a failed entry that
owns living processes. Cache deletion looks at the recorded phase only, and
removes the build directory under the living server.

**Not modelled.** TLS settings, `addProject`, logs and resource samples, calls of
the source observer on the chain (they change nothing here), environment profiles
beyond stop-then-start, a crash of the controller (the service unit kills the
process groups; nothing of this state is persisted but reservations, section 4).

## 6. Restores

| module | content |
|---|---|
| `RestoreRecovery` | the plan of renames with its journal, on a disk whose writes are visible before they are durable |
| `RestoreHandoff` | requests, the handoff record, admission, launch, drain, execution, start, fence, offline restore; properties |
| `InstalledGeneration` | abstract specification: one installation, opened, written, closed, replaced as a whole and once per operation |
| `RestoreRecoveryProofs` | lemmas about the plan, its journal and its files |
| `RestoreHandoffProofs` | lemmas about requests, handoff and fence; theorems |
| `MCRestoreHandoff` | the module TLC runs |

**State.** `file` says what each place (in use, put away, staged) holds,
`journal` is the record in `.restore/`, `archived` the finished operations whose
directory was put aside; `stable` holds the three as a power failure would leave
them. `pc` is where the one process is that owns the installation. `requests` are
the request records by key, `handoff` the one handoff record, `fence` how far the
credentials of a generation are fenced, `issued` the operation identifiers drawn;
`task`, `target`, `admit`, `busy`, `closing` live in the process only.

**Actions.** A turn of the plan is `Intend`, `SyncIntent`, `Move`, `SyncMove`,
`Complete`, `SyncComplete`; `CheckJournal` is the check of the whole plan before it
is resumed, `Validate` and `SyncVerified` its end, `Archive` to `SyncPublish` the
staging of a new operation. `Admit*`, `Launch`, `Drain`, `Drained`, `Failing` are
the segments of `admit()` and `launch()` in the running controller, `Signal` and
`SignalExit` a shutdown that comes from outside, `Start`, `Boot`, `Execute`, `Open`,
`Fence`, `Acknowledge` the next start. `Crash` ends the process at any step and
keeps either what was visible (the process died) or only what was durable (the
power failed); a database that was open may leave its WAL and SHM files. `Refuse`
is an execution that throws before it changes a file: the authority of the handoff
was withdrawn, the copy changed or cannot be read, or there is no room to stage it.
The process ends, the handoff stays `executing`, the next start tries again.

**Run** `restore`: two operations, under two keys or the offline command's, two
crashes or refusals, installations with none, some or all of the other five files present. Two
operations are the least in which a newer one archives the marker of an older one
that is asked for again; two crashes meet a recovery that is itself interrupted.
The invariants say that no file in use is lost (`PreviousKept`), an installation is
never opened half done (`WholeGeneration`), nothing is served before the restored
credentials are revoked (`FencedBeforeService`) and the reported outcome is true
(`TruthfulOutcome`). `OutcomeReached` is liveness under weak fairness of the
process, once crashes and refusals cease: a handoff whose every execution is refused
(the copy is damaged for good, the policy no longer lists "restore") stays
`executing`, and the controller does not start, until the operator repairs the cause;
the code means it so ("`executing` stays replayable", `restore-operations.ts:145`).
`ReplacesAtomically` is the refinement of `InstalledGeneration`, whose mapping reads
the *durable* journal: until the marker is durable the installation is still the
previous one. Deadlock is checked: a recovery that refuses to go on (`stopped`) would
be one.

**Proofs** (`RestoreRecoveryProofs`, `RestoreHandoffProofs`; any number of
operations, keys and crashes). No property of the run is inductive: each must hold
again after a crash that keeps only what was durable, so the invariant speaks of
two disks. `DiskInv` holds of the visible one and of the durable one alike: the
files are the `Layout` of the first n renames of the journal's plan, for an n that
the journal allows (`Made`: its completed steps, or one more when the step is
intended). `PairInv` says how far the durable disk may lag behind the visible one,
and `PcInv` what each program counter knows, above all that a rename is never
visible before its intent is durable. `HandoffInv` ties the records to that disk:
identifiers are issued once (`IssuedInv`), a request or handoff that claims an
outcome agrees with `archived` and the journal (`RequestInv`, `HandoffDisks`),
what a running controller holds in memory is what its disk says (`TaskInv`), and the
fence lags only while its record is excused (`FenceInv`). `RestoreInvariance` proves
`IInv`; `NothingOverwritten`, `OpensWhole`, `FenceFirst` and `OutcomesAreTrue` follow
for the four invariants, `RestoreTypes` for the types. `ReplacesWholeAndOnce` proves
the refinement: the one `Replace` is a verified marker becoming durable (`SyncVerified`,
or a crash that keeps what was visible), opening, closing and writing map to themselves,
every other step of the plan stutters. `Resumes` proves that `stopped` is unreachable: `CheckJournal` accepts whatever
an interrupted recovery left behind. `OutcomeReached` is model-checked only.

**Observed.** When a signal arrives between the admission and the launch,
`shutdown(true)` returns at once (`src/src/cli/index.ts:392`), and `execute()` runs
while SQLite is still open: it is refused the owner lock, the process exits with
status 1 before its first shutdown has finished, and the restore takes place at the
next start. The comment at `restore-operations.ts:141` says that the drain comes
first. `Drain` models this branch; all properties hold in spite of it.

**Not modelled.** Previews, start options and the authentication policy beyond one
step that saves it, contents of attachments, ages, foreign changes of the files
(recovery stops then). Record writes are atomic and durable. An offline restore
keeps credentials on purpose (`src/README.md`, `src/docs/package-trial.md:148`), so
`FencedBeforeService` excepts it.

## 7. Backups

| module | content |
|---|---|
| `BackupExecutor` | the executor, both ledgers, copies, transfers, retention, restore requests; properties |
| `BackupExecutorProofs` | the inductive invariant and five theorems |
| `MCBackupExecutor` | the module TLC runs |

**State.** `ops` and `receipts` are the ledgers in memory, `saved` as the disk holds
them, `copy` the directory of each copy (`torn`: half removed), `requests` the
copies that a restore request names, `snapshots` what the repository has, `orphans`
uploads whose controller died. `active` is what the executor does, `scan` the rest of
a retention, `queued` the transfer that waits for it, `checking` the copy that a
restore admission verifies. `turn` names code that runs to completion: while it is
not `free` only that code, or a crash, takes a step, which makes a crash between two
durable writes of one handler possible and nothing else. `uploads` is history.

**Actions.** `Create`, `Pump`, `Begin`, `Publish`/`CopyFails`, `Record` are a backup;
`ReconcileOne` and `Reconciled` write its receipt; `Retain`, `Checked`, `Remove` are
retention with its await and the two moments of `rmSync`, which may also fail before it
begins, midway, or when the directory is synced: then retention ends and the controller
goes on, perhaps beside a torn copy; `BeginTransfer`,
`VerifyTransfer`, `Inventory`, `Uploaded`, `TransferStops`, `RemoteTick`, `Retry` the
transfers; `AdmitRestore` and `Admitted` what a restore's admission does to copies (a
request under another key verifies a copy again that is requested already);
`Close`, `Exit`, `Crash`, `Boot` the life of the controller. Every write of a ledger
may fail, and its file may be visible all the same.

**Run** `backups`: two backups, scheduled or by hand, with or without a remote
transport at each start, one attempt, two passes, and any two events among crash,
signal, failed write, requested restore and retry. Two copies are the least in which
retention removes one; two events let a restore be asked for, or a crash recovered
from, in the middle of it. One attempt makes the inquiry pass, which may only find
out what became of an earlier upload, reachable. `KeptWhileNeeded` is the protection
that `src/README.md:689` promises; `ConfirmedIsStored` and `BudgetKept` relate the
receipts to the repository and to the uploads ever started. `EveryBackupEnds` and
`EveryTransferSettles` assume weak fairness of what goes on without anyone asking
(copies, uploads and verifications have time limits, timers fire, the controller is
started again) and except ledgers that cannot be written and a start without remote
transport. That a transfer settles rests on admissions being bounded: `pump()` prefers
backups (`backup-operations.ts`), so a steady stream of them would starve a waiting
transfer, which two backups cannot show. Deadlock is not checked: after the last backup the executor rests.

**Proofs.** `BackupExecutorProofs` proves the three safety properties of the run for
any number of backups, all limits and any number of crashes, failed writes, retries
and restores, from `BackupAssumption` alone. None is inductive: what protects a copy is
read from memory, but a crash replaces the memory by the disk, where a failed write may
or may not have arrived. `IInv` therefore says how far the two may be apart:

- `LedgerInv`: the ledger on the disk is behind the one in memory, never ahead of it
  in what retention decides by (`Tracks`), and only copies that are absent are pruned;
- `KeptInv`: `KeptWhileNeeded` of either ledger of operations with either ledger of
  receipts. It survives a crash because it already held of what the disk has, and a
  recovery because a copy that becomes needed is whole and one that stops being the
  newest is absent (`MovedKept`, which rests on `NewestStaysWhole`);
- `ReceiptsInv`: every receipt, saved or not, has a snapshot if it is confirmed and has
  paid for the uploads of its copy (`Budget`: the attempt is charged before the upload,
  so a crash can only lose a charge that bought nothing). A confirmation that is not
  saved stops the executor (`broken.ops`) before retention can act on it;
- `ActiveInv`, `WorkInv`, `TransferInv`: what the code that runs to completion knows
  at each of its stages, as that `Remove` has tested the protection in the same turn,
  and that a transfer which may still upload has one attempt in hand;
- `LifeInv`: while the controller is down its memory is the disk's.

There is one lemma per action, and every step that writes a ledger goes through
`LedgerStep` or `ReceiptStep`. The invariant was model-checked on the run's instance
before it was proved. `EveryBackupEnds` and `EveryTransferSettles` are liveness and
stay with TLC.

**Observed.** A copy that a crash or a failed removal leaves torn in `rmSync` cannot be
verified, so every later retention ends at it. An upload that outlives its controller can complete beside
a second one; the receipt then reports the change of the inventory and does not
confirm.

**Not modelled.** User exports and their calendar (they share executor and capacity
with backups), destinations named on the command line, the verifier's use by
previews, rebinding, archives and repeated uploads by hand, the limits of the history
(1024 records), the clock: whether a schedule or retry is due and whether a copy is
too old is any choice.

`Boot` recovers and reconciles the receipts in one step. In the code the
reconciliation runs in `backups.start()` (`cli/index.ts:388`,
`backup-operations.ts:182-185`), after the first listener accepts requests, so a backup,
a retry or a restore may be admitted, and begin, while the last listeners open. The
reconciliation is synchronous and looks only at operations that have succeeded, and a
copy that completes in the window reconciles them itself; what the model leaves out is
the reconciliation beside a running copy or transfer. One corner is left out with it:
an admission in that window which prunes history in memory, whose ledger write then
fails, a compaction of the receipts by that memory (`remote-backups.ts:169-173`) and a
crash would bring a pruned operation back without its receipt; it would be listed as a
transfer that can never be verified.

## 8. Sessions and status waits

| module | content |
|---|---|
| `StatusWaiters` | the waiters of the status service, its one sampler, timeouts, close |
| `McpSessions` | sessions, HTTP exchanges, deadlines, policy drain, slots; extends `StatusWaiters`; properties |
| `McpSessionsProofs` | theorems about sessions and status waits |
| `MCMcpSessions` | the module TLC runs |

**State.** `sessions` holds per session its state, credential, whether its slot is
released and requests are routed to it, the moments of creation, last activity and
first interruption, and its two timers; `exchanges` the HTTP exchanges with the two
things that end apart: the response (which a client may abandon) and the protocol
handler (which goes on). `waiters` and `sampler` are those of `StatusService`.

**Actions.** Every handler of the code runs to completion, so an action is one
handler with all it sets off: a call that settles may end a drain, which closes the
session, which gives its slot back (`Settled`, `Closed`, `Released`). Initialisation
awaits nothing but code of the same process, no I/O and no timer, so time does not pass
while a session initialises (`Initialising`, `Tick`). `Admit` and
`Initialize`, `Receive`, `Handle`, `Wait`, `Settle`, `Stream`, `Delete`, `End` follow an
exchange; `Check` and `DrainEnds` are the timers; `CloseAll` is the immediate close;
`Sample`, `TimedOut`, `Abort`, `Change`, `CloseStatus` the status service. A timer
that is due fires before time moves on.

**Run** `sessions_drain`: two sessions of one credential that contend for one slot, two
exchanges open at a time and four in all, two statuses, five instants. With one slot
the second session is admitted only when the first one's was returned; two exchanges
are a call and a stream, or a call and a wait, of one session. Idle limits 1 and 2,
grace, drain and sampling 1 and lifetime 2 make each deadline of `sessionDeadline()`
decide in some state, and the instants admit sessions at the first two of them: a
second session follows a first one that idleness, or an early close, has ended. With
one credential the limit per credential and the one for all coincide; the theorem
`SlotsAreHeld` covers their difference. A session is admitted only while the bound leaves it time to
close, and likewise a wait to be answered. `SlotsHeld` relates slots to handlers and
responses (docs/reservations-and-mcp.md:312-316), `ClosedInTime` timers to deadlines
that moved, `WaitersServed` waiters to the sampler, `DrainHonoured` says what may cut a
drain short, and `EverySlotReturns` is liveness under weak fairness of handlers,
answers, timers and time; of clients nothing is assumed. Deadlock is not checked: at
the last instant everything rests.

**Observed.** `close()` of all sessions does not reach a session that is still
initialising; it is routed afterwards and its slot comes back by its deadline.

**Not modelled.** The retry ledger, diagnostics, renewal (section 4), the deadline
reasons. The limits on waiters are in `Busy` but not reached at these bounds; a
change of a status nobody watches is not distinguished.

**Proofs** (`McpSessionsProofs`; all limits, timers and numbers of clients). The
invariant is one formula about one session and the exchanges, `SessionOK`, so a
handler is proved for the session it touches and the others keep it as far as
their exchanges are the same (`Keeps`). Since a handler calls others before it
returns, there are two weaker forms for the places in between: `Prior` holds
before the timer is armed, `Almost` before the slot is looked at, and `Settled`,
`Closed` and `Released` lead back to `SessionOK`. `Drained` matters there: a drain
that has ended must not leave a timer behind. `LimitsKept` is a fact about cardinalities
that only `Admit` can disturb, because nobody's slot is taken back and given out again
otherwise. Beside `IInv` stands `FreshInv` (together `SInv`): a session that is being
initialised is open, was admitted at this instant and has no other exchange, which is
why its response is never the one that ends a drain. Theorems: `SessionTypes`, `SlotsAreHeld`, `SessionsCloseInTime`,
`WaitersAreServed` and, for steps, `DrainsAreHonoured`. `EverySlotReturns` is model-checked
only.

## 9. Not modelled at all

- **Remote verification**: no code outside tests constructs its services; each call
  is one synchronous transaction over a table of allowed transitions.
- **Git admission**: one synchronous pool. The other modules take a Git answer as a
  step that comes or fails at any time, whatever it waited for.
- **Worktree storage**: one chain of measurements whose results are displayed only;
  its permit, by which it keeps out of deletions, is in `ProjectControl`.
- **User exports and schedules**: see section 7.
- **Knowledge, identity, authentication**: each request is one synchronous transaction
  with an expected revision or a credential check; no step awaits.
- **Source attribution** beyond one bit, environments and launch commands, the
  dashboard's queries, transports, the command line beyond shutdown and restore, the
  service installer, migrations, translations and the user interface: parsing, text,
  presentation or a linear list of statements. They are most of the program's lines,
  which is why the modules cover a small share of them: what is modelled is the part
  in which the order of events matters.

`PROJECT.json` gives the reason per component, and lists with a note the hazards
that no property covers.
