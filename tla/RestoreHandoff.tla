--------------------------- MODULE RestoreHandoff ---------------------------
(***************************************************************************)
(* A restore ordered through the running controller.  It is admitted under *)
(* a key (a request record and the handoff record are written), launched   *)
(* once the answer has left, and executed after the controller has drained *)
(* and closed its database; the controller then starts again in the same   *)
(* process, invalidates every credential the backup brought back, and only *)
(* then serves.  Whatever dies on the way is taken up by the next start.   *)
(* An offline command may restore too while no controller runs.            *)
(***************************************************************************)
EXTENDS RestoreRecovery, Sequences

CONSTANTS
  Keys,          \* an actor and its idempotency key, with the backup they name
  OfflineKeys,   \* those of the offline command
  NoKey,         \* no key
  LeftBehind,    \* the sets of other files in use that may exist at first
  MaxCrashes     \* bound: crashes, power failures and refused executions in a behaviour

ASSUME HandoffAssumption ==
  /\ OfflineKeys \subseteq Keys /\ NoKey \notin Keys
  /\ LeftBehind \subseteq SUBSET (Targets \ {Database})
  /\ MaxCrashes \in Nat

VARIABLES
  requests,   \* per key, the durable request: its state and its operation
  handoff,    \* the one durable handoff record
  fence,      \* per generation of the database, how far its credentials are fenced
  issued,     \* the keys operation identifiers were drawn for, in order
  task,       \* what the process does with the installation it owns
  target,     \* the key whose request it executes
  admit,      \* the admission in progress: its stage and its key
  busy,       \* whether a restore was admitted by this controller
  closing,    \* "no", or what began the shutdown: a "signal" or the "handoff"
  crashes

volatile == <<task, target, admit, busy, closing>>
records == <<requests, handoff, fence, issued>>
vars == <<recoveryVars, records, volatile, crashes>>

Finished == {"failed", "interrupted"}
Pending == {"requested", "maintenance", "executing"}
NoRequest == [state |-> "none", op |-> 0]
Idle == [stage |-> "idle", key |-> NoKey]

HandoffPcs == {"off", "boot", "finish", "fence", "revoke", "acknowledge", "serving",
               "draining", "launched", "failing"}

(* The database is open: SQLite may write to it. *)
OpenPcs == {"fence", "revoke", "acknowledge", "serving", "draining", "launched"}
DatabaseOpen == pc \in OpenPcs

Installed == file[At("active", Database)].gen

TypeOK ==
  /\ DiskType(Disk) /\ DiskType(stable)
  /\ pc \in RecoveryPcs \cup HandoffPcs
  /\ requests \in [Keys -> [state : {"none", "requested", "verified"} \cup Finished, op : 0 .. NOps]]
  /\ handoff \in [state : {"none", "verified"} \cup Pending \cup Finished,
                  key : Keys \cup {NoKey}, op : 0 .. NOps]
  /\ fence \in [Gens -> {"snapshot", "policy", "revoked"}]
  /\ issued \in Seq(Keys) /\ Len(issued) <= NOps
  /\ task \in {"open", "execute", "handoff", "offline"}
  /\ target \in Keys \cup {NoKey}
  /\ admit \in [stage : {"idle", "prepare", "verify", "publish", "accept"}, key : Keys \cup {NoKey}]
  /\ busy \in BOOLEAN
  /\ closing \in {"no", "signal", "handoff"}
  /\ crashes \in 0 .. MaxCrashes

Init ==
  \E left \in LeftBehind :
    /\ file = [p \in Places |->
                 IF p.dir = "active" /\ p.target \in left \cup {Database} THEN Copy(0) ELSE Absent]
    /\ journal = NoJournal
    /\ archived = {}
    /\ stable = Disk
    /\ pc = "off"
    /\ requests = [k \in Keys |-> NoRequest]
    /\ handoff = [state |-> "none", key |-> NoKey, op |-> 0]
    /\ fence = [g \in Gens |-> IF g = 0 THEN "revoked" ELSE "snapshot"]
    /\ issued = <<>>
    /\ task = "open" /\ target = NoKey /\ admit = Idle
    /\ busy = FALSE /\ closing = "no"
    /\ crashes = 0

(* A process ends: nothing volatile survives it. *)
Ends ==
  /\ pc' = "off"
  /\ task' = "open" /\ target' = NoKey /\ admit' = Idle
  /\ busy' = FALSE /\ closing' = "no"

(* The terminal outcome of a handoff is recorded on the request it was for, *)
(* unless a newer operation already answers that key.                       *)
Finish(state) ==
  LET r == requests[handoff.key]
  IN  requests' = IF r.op # handoff.op \/ r.state \in {"verified", state} THEN requests
                  ELSE [requests EXCEPT ![handoff.key] = [state |-> state, op |-> handoff.op]]

(* The durable request of a key: a finished one is asked for anew under an  *)
(* operation of its own, a missing one is written.                          *)
Request(k) ==
  IF requests[k].state \in Finished \cup {"none"}
  THEN /\ issued' = Append(issued, k)
       /\ requests' = [requests EXCEPT ![k] = [state |-> "requested", op |-> Len(issued) + 1]]
  ELSE UNCHANGED <<requests, issued>>

-----------------------------------------------------------------------------
(* Admission in the running controller *)

(* admit: a repeat of the handoff in progress only reads its status.  The   *)
(* outcome of an earlier handoff is written before its record is replaced.  *)
AdmitBegin(k) ==
  /\ pc = "serving" /\ closing = "no" /\ ~busy /\ admit.stage = "idle"
  /\ k \notin OfflineKeys /\ Len(issued) < NOps
  /\ handoff.key = k => handoff.state \in Finished
  /\ IF handoff.state \in Finished THEN Finish(handoff.state) ELSE UNCHANGED requests
  /\ admit' = [stage |-> "prepare", key |-> k]
  /\ UNCHANGED <<recoveryVars, handoff, fence, issued, task, target, busy, closing, crashes>>

(* prepareRequest: a request that exists needs no verification, the copy of *)
(* a new one is looked up first.                                            *)
AdmitPrepare ==
  /\ pc = "serving" /\ admit.stage = "prepare"
  /\ IF requests[admit.key].state = "none"
     THEN admit' \in {Idle, [admit EXCEPT !.stage = "verify"]} /\ UNCHANGED <<requests, issued>>
     ELSE admit' = [admit EXCEPT !.stage = "accept"] /\ Request(admit.key)
  /\ UNCHANGED <<recoveryVars, handoff, fence, task, target, busy, closing, crashes>>

(* The copy is verified while the controller goes on; it may be refused. *)
AdmitVerify ==
  /\ pc = "serving" /\ admit.stage = "verify"
  /\ admit' \in {Idle, [admit EXCEPT !.stage = "publish"]}
  /\ UNCHANGED <<recoveryVars, records, task, target, busy, closing, crashes>>

(* Authority, admission and the copy are asked again after the wait. *)
AdmitPublish ==
  /\ pc = "serving" /\ admit.stage = "publish"
  /\ \/ closing = "no" /\ Request(admit.key) /\ admit' = [admit EXCEPT !.stage = "accept"]
     \/ admit' = Idle /\ UNCHANGED <<requests, issued>>
  /\ UNCHANGED <<recoveryVars, handoff, fence, task, target, busy, closing, crashes>>

AdmitAccept ==
  /\ pc = "serving" /\ admit.stage = "accept"
  /\ IF closing = "no" /\ requests[admit.key].state # "verified"
     THEN /\ handoff' = [state |-> "requested", key |-> admit.key, op |-> requests[admit.key].op]
          /\ busy' = TRUE
     ELSE UNCHANGED <<handoff, busy>>
  /\ admit' = Idle
  /\ UNCHANGED <<recoveryVars, requests, fence, issued, task, target, closing, crashes>>

-----------------------------------------------------------------------------
(* Launch, drain and execution *)

(* launch: authority is asked once more and the authentication policy saved *)
(* in the record, or the handoff fails.                                     *)
Launch ==
  /\ pc = "serving" /\ busy /\ handoff.state = "requested"
  /\ \/ handoff' = [handoff EXCEPT !.state = "maintenance"] /\ pc' = "launched"
     \/ handoff' = [handoff EXCEPT !.state = "failed"] /\ pc' = "failing"
  /\ UNCHANGED <<diskVars, requests, fence, issued, volatile, crashes>>

(* restart: the shutdown of a handoff drains everything; when a signal has  *)
(* already begun one, it returns at once and the execution starts while the *)
(* database is open, is refused its lock, and the process ends.             *)
Drain ==
  /\ pc = "launched"
  /\ IF closing = "no"
     THEN closing' = "handoff" /\ pc' = "draining"
          /\ UNCHANGED <<handoff, task, target, admit, busy>>
     ELSE Ends /\ handoff' = [handoff EXCEPT !.state = "executing"]
  /\ UNCHANGED <<diskVars, requests, fence, issued, crashes>>

Drained ==
  /\ pc = "draining"
  /\ \/ /\ handoff' = [handoff EXCEPT !.state = "executing"]
        /\ task' = "handoff" /\ target' = handoff.key /\ pc' = "recover"
     \/ /\ handoff' = [handoff EXCEPT !.state = "failed"]
        /\ pc' = "failing" /\ UNCHANGED <<task, target>>
  /\ UNCHANGED <<diskVars, requests, fence, issued, admit, busy, closing, crashes>>

(* A failed handoff is recorded on its request and the process exits. *)
Failing ==
  /\ pc = "failing"
  /\ Finish("failed")
  /\ Ends
  /\ UNCHANGED <<diskVars, handoff, fence, issued, crashes>>

(* A signal stops the controller; it exits when all is drained. *)
Signal ==
  /\ pc = "serving" /\ closing = "no" /\ admit.stage # "prepare"
  /\ closing' = "signal"
  /\ UNCHANGED <<recoveryVars, records, task, target, admit, busy, crashes>>

SignalExit ==
  /\ pc = "serving" /\ closing = "signal" /\ admit.stage = "idle"
  /\ Ends
  /\ UNCHANGED <<diskVars, records, crashes>>
\* Fault: an operation that ended before a crash is executed again.
ExecuteAgain ==
  /\ pc = "owned" /\ task # "open"
  /\ IF requests[target].state = "verified"
     THEN /\ pc' = "boot" /\ task' = "open" /\ target' = NoKey /\ busy' = FALSE /\ closing' = "no"
          /\ UNCHANGED <<requests, admit>>
     ELSE /\ pc' = IF requests[target].op \in archived \cup {journal.op} THEN "stopped" ELSE "prepare"
          /\ UNCHANGED <<requests, volatile>>
  /\ UNCHANGED <<diskVars, handoff, fence, issued, crashes>>

(* executeControllerRestoreRequest, once the installation is owned: an      *)
(* operation that ended is acknowledged, one that never began is prepared.  *)
Execute ==
  LET r == requests[target]
      ended == r.state = "verified" \/ Reached(r.op)
      returns == IF task = "offline" THEN Ends
                 ELSE /\ pc' = IF task = "handoff" THEN "boot" ELSE "recover"
                      /\ task' = "open" /\ target' = NoKey
                      /\ busy' = FALSE /\ closing' = "no" /\ UNCHANGED admit
  IN  /\ pc = "owned" /\ task # "open"
      /\ IF ended
         THEN returns /\ requests' = [requests EXCEPT ![target].state = "verified"]
         ELSE /\ pc' = IF r.op \in archived \cup {journal.op} THEN "stopped" ELSE "prepare"
              /\ UNCHANGED <<requests, volatile>>
      /\ UNCHANGED <<diskVars, handoff, fence, issued, crashes>>

-----------------------------------------------------------------------------
(* The start of a controller, and the offline command *)

(* recoverBackupHandoff, under the controller's lock *)
Start ==
  /\ pc = "off"
  /\ pc' = "boot"
  /\ UNCHANGED <<diskVars, records, volatile, crashes>>
(* Faults: a start takes the marker of an executing handoff for its end,   *)
(* or every unfinished handoff for an interrupted one.                      *)
BootAcknowledges ==
  /\ pc = "boot"
  /\ IF handoff.state = "executing" /\ ~Reached(handoff.op)
     THEN task' = "execute" /\ target' = handoff.key ELSE UNCHANGED <<task, target>>
  /\ handoff' = IF handoff.state = "executing" /\ Reached(handoff.op)
                THEN [handoff EXCEPT !.state = "verified"] ELSE handoff
  /\ pc' = "recover"
  /\ UNCHANGED <<diskVars, requests, fence, issued, admit, busy, closing, crashes>>

BootInterrupts ==
  /\ pc = "boot"
  /\ handoff' = IF handoff.state \in Pending THEN [handoff EXCEPT !.state = "interrupted"] ELSE handoff
  /\ pc' = "recover"
  /\ UNCHANGED <<diskVars, requests, fence, issued, task, target, admit, busy, closing, crashes>>

Boot ==
  /\ pc = "boot"
  /\ \/ /\ handoff.state = "executing"
        /\ task' = "execute" /\ target' = handoff.key /\ pc' = "recover"
        /\ UNCHANGED <<requests, handoff>>
     \/ /\ handoff.state \in {"requested", "maintenance"}
        /\ handoff' = [handoff EXCEPT !.state = "interrupted"]
        /\ UNCHANGED <<requests, task, target, pc>>
     \/ /\ handoff.state \in Finished
        /\ Finish(handoff.state)
        /\ pc' = "recover" /\ UNCHANGED <<handoff, task, target>>
     \/ /\ handoff.state \in {"none", "verified"}
        /\ pc' = "recover" /\ UNCHANGED <<requests, handoff, task, target>>
  /\ UNCHANGED <<diskVars, fence, issued, admit, busy, closing, crashes>>

(* openControllerStore: SQLite takes up the files beside the database.  The *)
(* fence comes first when this start executed a handoff.                    *)
Open ==
  /\ pc = "owned" /\ task = "open"
  /\ file' = [p \in Places |-> IF p.dir = "active" /\ p.target \in Sidecars THEN Absent ELSE file[p]]
  /\ stable' = [stable EXCEPT !.file = file']
  /\ pc' = IF handoff.state = "executing" THEN "fence" ELSE "serving"
  /\ UNCHANGED <<journal, archived, records, volatile, crashes>>

(* SQLite makes its own writes durable, whatever is not yet synchronised. *)
DatabaseWritten(f) == [f EXCEPT ![At("active", Database)] = [gen |-> Installed, written |-> TRUE]]

WriteDatabase ==
  /\ file' = DatabaseWritten(file)
  /\ stable' = [stable EXCEPT !.file = DatabaseWritten(stable.file)]
  /\ UNCHANGED <<journal, archived>>

(* finishBackupHandoff: the saved policy, every credential, and only then   *)
(* the acknowledgement.                                                     *)
Fence ==
  /\ pc \in {"fence", "revoke"}
  /\ WriteDatabase
  /\ fence' = [fence EXCEPT ![Installed] = IF pc = "fence" THEN "policy" ELSE "revoked"]
  /\ pc' = IF pc = "fence" THEN "revoke" ELSE "acknowledge"
  /\ UNCHANGED <<requests, handoff, issued, volatile, crashes>>

Acknowledge ==
  /\ pc = "acknowledge"
  /\ handoff' = [handoff EXCEPT !.state = "verified"]
  /\ pc' = "serving"
  /\ UNCHANGED <<diskVars, requests, fence, issued, volatile, crashes>>

Write ==
  /\ pc = "serving" /\ ~file[At("active", Database)].written
  /\ WriteDatabase
  /\ UNCHANGED <<pc, records, volatile, crashes>>

(* backup restore: refused while a handoff is executing. *)
OfflineRestore(k) ==
  /\ pc = "off" /\ k \in OfflineKeys /\ Len(issued) < NOps
  /\ handoff.state # "executing"
  /\ Request(k)
  /\ task' = "offline" /\ target' = k /\ pc' = "recover"
  /\ UNCHANGED <<diskVars, handoff, fence, admit, busy, closing, crashes>>

-----------------------------------------------------------------------------
(* A process that dies leaves the files of an open database behind. *)
Dropped(f, left) ==
  [p \in Places |-> IF p.dir = "active" /\ p.target \in left THEN f[At("active", Database)] ELSE f[p]]

Crash ==
  /\ pc # "off" /\ crashes < MaxCrashes
  /\ crashes' = crashes + 1
  /\ Ends
  /\ \E left \in IF DatabaseOpen THEN {{}, {1, 2}} ELSE {{}}, d \in {Disk, stable} :
       /\ file' = Dropped(d.file, left)
       /\ journal' = d.journal
       /\ archived' = d.archived
       /\ stable' = [stable EXCEPT !.file = Dropped(stable.file, left)]
  /\ UNCHANGED records

(* The execution is refused: its authority was withdrawn, the copy changed  *)
(* or cannot be read, or there is no room to stage it.  The process ends,   *)
(* the records stay as they are, and the next start tries again.            *)
Refuse ==
  /\ task # "open" /\ crashes < MaxCrashes
  /\ pc = "recover" \/ (pc = "owned" /\ ~Reached(requests[target].op))
  /\ crashes' = crashes + 1
  /\ Ends
  /\ UNCHANGED <<diskVars, records>>

Recovering == Recover /\ UNCHANGED <<records, volatile, crashes>>
Preparing == Prepare(requests[target].op) /\ UNCHANGED <<records, volatile, crashes>>

(* What the processes of the system do without anyone asking. *)
Process ==
  \/ Recovering \/ Preparing
  \/ AdmitPrepare \/ AdmitVerify \/ AdmitPublish \/ AdmitAccept
  \/ Launch \/ Drain \/ Drained \/ Failing \/ SignalExit \/ Execute
  \/ Start \/ Boot \/ Open \/ Fence \/ Acknowledge

Next ==
  \/ Process
  \/ \E k \in Keys : AdmitBegin(k) \/ OfflineRestore(k)
  \/ Signal \/ Write \/ Crash \/ Refuse

Spec == Init /\ [][Next]_vars

(* A controller that is started again, and whose timers and renames run.    *)
FairSpec == Spec /\ WF_vars(Process)

-----------------------------------------------------------------------------
(* Properties                                                              *)

(* An open database, its attachments and the files beside it are all of one *)
(* generation: no interrupted replacement is ever opened half done.         *)
WholeGeneration ==
  DatabaseOpen \/ (pc = "owned" /\ task = "open") =>
    /\ \A t \in Targets : LET c == file[At("active", t)] IN c # Absent => c.gen = Installed
    /\ Installed # 0 => file[At("active", Attachments)] # Absent

(* While the controller serves a database that a handoff restored, every    *)
(* credential the backup brought back is revoked ("Security fence must      *)
(* finish before any listener is constructed", restore-operations.ts).      *)
FencedBeforeService ==
  pc \in {"serving", "launched", "draining"} /\ Installed # 0 =>
    issued[Installed] \in OfflineKeys \/ fence[Installed] = "revoked"

(* The outcome that is reported is the one that happened: a verified        *)
(* request's operation ended, a failed or interrupted one never began to    *)
(* replace anything; the same of the handoff, whose fence is then complete. *)
TruthfulOutcome ==
  /\ \A k \in Keys :
       /\ requests[k].state = "verified" => Reached(requests[k].op)
       /\ requests[k].state \in Finished => requests[k].op \notin archived \cup {journal.op}
  /\ handoff.state = "verified" => Reached(handoff.op) /\ fence[handoff.op] = "revoked"
  /\ handoff.state \in Finished => handoff.op \notin archived \cup {journal.op}

(* Every admitted restore comes to an outcome, through any crash, once the  *)
(* executions are no longer refused.                                        *)
OutcomeReached == handoff.state \in Pending ~> handoff.state \in {"verified"} \cup Finished

(* What the files amount to for whoever opens them: before the marker of an *)
(* operation is durable the installation is still the previous one.         *)
Standing ==
  IF stable.journal.op # 0 /\ ~stable.journal.verified
  THEN stable.journal.previous[Database]
  ELSE stable.file[At("active", Database)]

Generation == INSTANCE InstalledGeneration WITH
  generation <- Standing.gen,
  written <- Standing.written,
  open <- DatabaseOpen,
  replaced <- stable.archived \cup (IF stable.journal.verified THEN {stable.journal.op} ELSE {})

(* Through crashes and power failures the installation changes only as a    *)
(* whole, each operation replaces it at most once and only while it is      *)
(* closed, and nothing else ever takes back what was written to it.         *)
ReplacesAtomically == Generation!Spec
==============================================================================
