---------------------------- MODULE BackupExecutor ----------------------------
(***************************************************************************)
(* Installation backups: the one executor that copies the installation,    *)
(* sends copies to a remote repository and retires old ones, with the      *)
(* ledgers it keeps beside the database and the restore requests that hold *)
(* a copy.                                                                 *)
(*                                                                         *)
(* The code runs to completion between two awaits.  A step here ends at an *)
(* await or at a durable write, and while `turn` is not "free" only the    *)
(* code that is running, or a crash, takes the next step.                  *)
(***************************************************************************)
EXTENDS Integers, FiniteSets, FiniteSetsExt

CONSTANTS
  NBackups,       \* bound: backups ever admitted
  QueueLimit,     \* pending backups and transfers together
  PendingLimit,   \* receipts not confirmed
  AttemptLimit,   \* uploads in one round of attempts
  PassLimit,      \* passes, with or without an upload, in one round
  RetainCount,    \* young scheduled copies that are kept
  Recent,         \* newest records that are never pruned
  Transports,     \* whether a start may have a remote transport configured
  MaxEvents       \* bound: crashes, signals, failed writes of a ledger, restores
                  \* that are asked for and explicit retries, together

ASSUME BackupAssumption ==
  /\ NBackups \in Nat /\ MaxEvents \in Nat
  /\ {QueueLimit, PendingLimit, AttemptLimit, PassLimit, RetainCount} \subseteq Nat \ {0}
  /\ Recent \in Nat /\ Transports \in (SUBSET BOOLEAN) \ {{}}

Ids == 1 .. NBackups       \* backups, in the order they were admitted
None == 0

OpStates == {"none", "queued", "running", "succeeded", "failed", "interrupted", "pruned"}
ReceiptStates == {"none", "pending", "running", "confirmed", "failed"}

NoOp == [state |-> "none", scheduled |-> FALSE, remote |-> FALSE]
NoReceipt == [state |-> "none", attempts |-> 0, passes |-> 0, round |-> 0]

VARIABLES
  remote,      \* whether a remote transport is configured
  ops,         \* the ledger of operations
  receipts,    \* the ledger of transfers
  saved,       \* both ledgers as the disk holds them
  copy,        \* the directory of each copy: "absent", "whole" or "torn"
  requests,    \* copies that a durable restore request names
  snapshots,   \* complete snapshots of each copy in the repository
  orphans,     \* uploads whose controller died while they ran
  uploads,     \* history: the uploads started for each copy
  active,      \* what the executor does: its kind, its copy, its stage
  scan,        \* the candidates retention has not reached, and those it holds
  turn,        \* the code that is running to completion
  queued,      \* the transfer that waits for the executor
  checking,    \* the copy a restore admission is verifying
  broken,      \* persistenceFailed, of the operations and of the transfers
  maintenance, \* a restore was admitted: nothing new starts
  life,        \* the process: "down", "up" or "closing"
  events       \* how many of the bounded events have happened

durable  == <<saved, copy, requests>>
outside  == <<snapshots, orphans, uploads>>
executor == <<active, scan, turn, queued>>
process  == <<broken, maintenance, life>>
vars == <<remote, ops, receipts, durable, outside, executor, checking, process, events>>

Idle == [kind |-> "none", id |-> None, stage |-> "idle"]
NoScan == [left |-> {}, held |-> {}]
NotBroken == [ops |-> FALSE, receipts |-> FALSE]

Ledger == [Ids -> [state : OpStates, scheduled : BOOLEAN, remote : BOOLEAN]]
TransferLedger == [Ids -> [state : ReceiptStates, attempts : 0 .. AttemptLimit,
                           passes : 0 .. PassLimit, round : 0 .. MaxEvents]]
TypeOK ==
  /\ remote \in BOOLEAN
  /\ ops \in Ledger /\ receipts \in TransferLedger
  /\ saved \in [ops : Ledger, receipts : TransferLedger]
  /\ copy \in [Ids -> {"absent", "whole", "torn"}]
  /\ requests \subseteq Ids /\ orphans \subseteq Ids
  /\ snapshots \in [Ids -> Nat] /\ uploads \in [Ids -> Nat]
  /\ active \in [kind : {"none", "backup", "transfer", "inquiry"}, id : Ids \cup {None},
                 stage : {"idle", "copying", "retain", "check", "verify", "inventory", "upload"}]
  /\ scan \in [left : SUBSET Ids, held : SUBSET Ids]
  /\ turn \in {"free", "pump", "begin", "record", "reconcile", "retain", "remove", "stop"}
  /\ queued \in Ids \cup {None} /\ checking \in Ids \cup {None}
  /\ broken \in [ops : BOOLEAN, receipts : BOOLEAN]
  /\ life \in {"down", "up", "closing"} /\ maintenance \in BOOLEAN
  /\ events \in 0 .. MaxEvents

-----------------------------------------------------------------------------
(* The ledgers *)

Happens == events < MaxEvents /\ events' = events + 1

(* A ledger is written: on failure the new file may be visible all the same. *)
Outcomes(os, rs, ok) ==
  LET new == [ops |-> os, receipts |-> rs] IN IF ok THEN {new} ELSE {saved, new}

Writes(os, rs, ok) ==
  /\ saved' \in Outcomes(os, rs, ok)
  /\ IF ok THEN UNCHANGED events ELSE Happens

SavesOps(os, ok) == ops' = os /\ Writes(os, saved.receipts, ok)
SavesReceipts(rs, ok) == receipts' = rs /\ Writes(saved.ops, rs, ok)

Becomes(b, state) == [ops EXCEPT ![b].state = state]
In(states) == {b \in Ids : ops[b].state \in states}
Waiting == In({"queued", "running"})
Succeeded == In({"succeeded"})

HasReceipt(b) == receipts[b].state # "none"
Unconfirmed == {b \in Ids : receipts[b].state \in {"pending", "running", "failed"}}
(* Copies that must go to the repository and have no receipt yet. *)
Unrecorded == {b \in Succeeded : ops[b].remote /\ ~HasReceipt(b)}

(* protectedIds(): restore sources, transfers, and the latest copies. *)
Latest(S) == IF S = {} THEN {} ELSE {Max(S)}
Scheduled(S) == {b \in S : ops[b].scheduled}
\* Fault: the sources of restores are forgotten.
ProtectedFromTransfers == Unconfirmed \cup Unrecorded \cup Latest(Succeeded) \cup Latest(Scheduled(Succeeded))

Protected ==
  requests \cup Unconfirmed \cup Unrecorded \cup Latest(Succeeded) \cup Latest(Scheduled(Succeeded))

(* assertAdmission() *)
Admits == life = "up" /\ ~broken.ops /\ ~maintenance
Quiet == turn = "free" /\ life # "down"
(* The one child that verifies copies is taken. *)
Verifying == checking # None \/ active.stage \in {"check", "verify"}

-----------------------------------------------------------------------------
(* Admission of a backup *)

(* pruneScheduledHistory(): old scheduled records without a copy are        *)
(* forgotten.  The recent ones are counted among those the ledger holds.    *)
Kept == In(OpStates \ {"none", "pruned"})
Newer(b) == Cardinality({c \in Kept : c > b})
Prunable(b) ==
  /\ ops[b].state \in {"succeeded", "failed", "interrupted"} /\ ops[b].scheduled
  /\ copy[b] = "absent" /\ Newer(b) >= Recent
Pruned == [b \in Ids |-> IF Prunable(b) THEN [ops[b] EXCEPT !.state = "pruned"] ELSE ops[b]]

(* The remote limit counts the copies that will need a receipt. *)
Reserved == Cardinality({b \in Waiting \cup Succeeded : ops[b].remote /\ ~HasReceipt(b)})
RemoteRoom(reserved) ==
  life = "up" /\ ~broken.receipts /\ Cardinality(Unconfirmed) + reserved < PendingLimit
Transferring == active.kind \in {"transfer", "inquiry"}
Transfers == IF queued # None \/ Transferring THEN 1 ELSE 0

Create(b, scheduled) ==
  /\ Quiet /\ Admits
  /\ ops[b].state = "none" /\ \A c \in Ids : c < b => ops[c].state # "none"
  /\ remote => RemoteRoom(Reserved)
  /\ Cardinality(Waiting) + Transfers < QueueLimit
  /\ \E ok \in BOOLEAN :
       LET admitted == [Pruned EXCEPT ![b] =
                         [state |-> "queued", scheduled |-> scheduled, remote |-> remote]]
       IN  /\ Writes(admitted, saved.receipts, ok)
           /\ ops' = IF ok THEN admitted ELSE [admitted EXCEPT ![b].state = "interrupted"]
           /\ broken' = [broken EXCEPT !.ops = @ \/ ~ok]
           /\ turn' = IF ok /\ active = Idle THEN "pump" ELSE "free"
  /\ UNCHANGED <<remote, receipts, copy, requests, outside, active, scan, queued, checking,
                 maintenance, life>>

(* pump(): a scheduled backup first, then any backup, then a transfer. *)
Chosen ==
  LET ready == In({"queued"})
  IN  IF Scheduled(ready) # {} THEN Min(Scheduled(ready)) ELSE Min(ready)

Pump ==
  /\ turn = "pump"
  /\ IF life # "up" \/ broken.ops
     THEN turn' = "free" /\ active' = Idle /\ UNCHANGED queued
     ELSE IF In({"queued"}) # {}
          THEN /\ active' = [kind |-> "backup", id |-> Chosen, stage |-> "idle"]
               /\ turn' = "begin" /\ UNCHANGED queued
          ELSE IF queued # None
               THEN /\ active' = [kind |-> "transfer", id |-> queued, stage |-> "idle"]
                    /\ turn' = "begin" /\ queued' = None
               ELSE turn' = "free" /\ active' = Idle /\ UNCHANGED queued
  /\ UNCHANGED <<remote, ops, receipts, durable, outside, scan, checking, process, events>>

-----------------------------------------------------------------------------
(* Execution of a backup *)
\* Fault: the executor is not asked for more after a backup that failed.
EndsQuietly(state, ok, next) ==
  /\ ops' = Becomes(active.id, IF ok THEN state ELSE "failed")
  /\ Writes(Becomes(active.id, state), saved.receipts, ok)
  /\ broken' = [broken EXCEPT !.ops = @ \/ ~ok]
  /\ turn' = IF ok /\ next # "pump" THEN next ELSE "free"
  /\ active' = IF ok /\ next # "pump" THEN active ELSE Idle

(* The operation ends with the state given; an unsaved end is a failure. *)
Ends(state, ok, next) ==
  /\ ops' = Becomes(active.id, IF ok THEN state ELSE "failed")
  /\ Writes(Becomes(active.id, state), saved.receipts, ok)
  /\ broken' = [broken EXCEPT !.ops = @ \/ ~ok]
  /\ turn' = IF ok THEN next ELSE "pump"
  /\ active' = IF ok /\ next # "pump" THEN active ELSE Idle

(* Maintenance, a revoked authority, a limit or a failed write refuse it. *)
Begin ==
  /\ turn = "begin" /\ active.kind = "backup"
  /\ \/ \E ok \in BOOLEAN : Ends("failed", ok, "pump")
     \/ /\ ~maintenance
        /\ SavesOps(Becomes(active.id, "running"), TRUE)
        /\ active' = [active EXCEPT !.stage = "copying"]
        /\ turn' = "free" /\ UNCHANGED broken
  /\ UNCHANGED <<remote, receipts, copy, requests, outside, scan, queued, checking, maintenance,
                 life>>

(* createControllerBackup(): staged, validated, and published by a rename. *)
Publish ==
  /\ Quiet /\ active.stage = "copying"
  /\ copy' = [copy EXCEPT ![active.id] = "whole"]
  /\ turn' = "record"
  /\ UNCHANGED <<remote, ops, receipts, saved, requests, outside, active, scan, queued, checking,
                 process, events>>

CopyFails ==
  /\ Quiet /\ active.stage = "copying"
  /\ \E ok \in BOOLEAN : Ends("failed", ok, "pump")
  /\ UNCHANGED <<remote, receipts, copy, requests, outside, scan, queued, checking, maintenance,
                 life>>

Record ==
  /\ turn = "record"
  /\ \E ok \in BOOLEAN : Ends("succeeded", ok, "reconcile")
  /\ UNCHANGED <<remote, receipts, copy, requests, outside, scan, queued, checking, maintenance,
                 life>>

(* record(): confirmed receipts of retired copies are dropped, the copy's   *)
(* own is added.  What a start or an earlier copy left unrecorded comes     *)
(* first; a failure leaves the rest for the next copy or start.             *)
Compacted == [b \in Ids |-> IF receipts[b].state = "confirmed" /\ ops[b].state = "pruned"
                               /\ copy[b] = "absent" THEN NoReceipt ELSE receipts[b]]
Recordable == remote /\ Unrecorded # {} /\ RemoteRoom(0)

ReconcileOne ==
  /\ turn = "reconcile" /\ Recordable
  /\ \E ok \in BOOLEAN :
       /\ SavesReceipts([Compacted EXCEPT ![Min(Unrecorded)].state = "pending"], ok)
       /\ broken' = [broken EXCEPT !.receipts = @ \/ ~ok]
  /\ UNCHANGED <<remote, ops, copy, requests, outside, executor, checking, maintenance, life>>

(* tick(): the first transfer that is due waits for the executor.  A        *)
(* transfer that has made no pass is due, another may be.                   *)
Due(rs) == {b \in Ids : rs[b].state = "pending"}
Fresh(rs) == {b \in Due(rs) : rs[b].passes = 0}
Ticks(rs, down) ==
  LET blocked == \/ ~remote \/ life # "up" \/ down.receipts \/ down.ops \/ maintenance
                 \/ Cardinality(Waiting) >= QueueLimit
      first == {b \in Due(rs) : \A c \in Fresh(rs) : b <= c}
  IN  IF blocked THEN {None} ELSE IF Fresh(rs) = {} THEN first \cup {None} ELSE first

Tick(rs, down) ==
  queued' \in IF queued # None \/ Transferring THEN {queued} ELSE Ticks(rs, down)

(* What follows the reconciliation: after a scheduled copy, retention.      *)
Reconciled ==
  /\ turn = "reconcile" /\ ~Recordable
  /\ Tick(receipts, broken)
  /\ IF active.kind = "backup" /\ ops[active.id].scheduled /\ life = "up"
     THEN /\ scan' = [left |-> Scheduled(Succeeded), held |-> Protected]
          /\ active' = [active EXCEPT !.stage = "retain"]
          /\ turn' = "retain"
     ELSE turn' = "pump" /\ active' = Idle /\ UNCHANGED scan
  /\ UNCHANGED <<remote, ops, receipts, durable, outside, checking, process, events>>

-----------------------------------------------------------------------------
(* Retention *)

Rank(b) == Cardinality({c \in Scheduled(Succeeded) : c > b})
Eligible(b) == b \notin scan.held /\ b # checking /\ copy[b] # "absent"

(* The outcome of retention is recorded and the executor is free. *)
RetentionEnds ==
  /\ \E ok \in BOOLEAN : Writes(ops, saved.receipts, ok) /\ broken' = [broken EXCEPT !.ops = @ \/ ~ok]
  /\ active' = Idle /\ scan' = NoScan /\ turn' = "pump"
  /\ UNCHANGED ops

(* retain(): from the newest on, the first that is beyond the number of     *)
(* kept copies, or too old, is verified; a busy verifier ends retention.    *)
Retain ==
  /\ turn = "retain"
  /\ \/ \E b \in scan.left :
          /\ Eligible(b)
          /\ \A c \in scan.left : c > b /\ Eligible(c) => Rank(c) < RetainCount
          /\ IF Verifying THEN RetentionEnds
             ELSE /\ scan' = [scan EXCEPT !.left = {c \in scan.left : c < b}]
                  /\ active' = [active EXCEPT !.id = b, !.stage = "check"]
                  /\ turn' = "free"
                  /\ UNCHANGED <<ops, saved, broken, events>>
     \/ /\ \A c \in scan.left : Eligible(c) => Rank(c) < RetainCount
        /\ RetentionEnds
  /\ UNCHANGED <<remote, receipts, copy, requests, outside, queued, checking, maintenance, life>>

(* The wait is over: a copy that became protected meanwhile is left alone,  *)
(* one that cannot be verified ends retention.                              *)
Checked ==
  /\ Quiet /\ active.stage = "check"
  /\ \/ RetentionEnds
     \/ /\ life = "up" /\ copy[active.id] = "whole"
        /\ active' = [active EXCEPT !.stage = "retain"]
        /\ turn' = IF active.id \in Protected THEN "retain" ELSE "remove"
        /\ UNCHANGED <<ops, scan, saved, broken, events>>
  /\ UNCHANGED <<remote, receipts, copy, requests, outside, queued, checking, maintenance, life>>

(* rmSync() empties the directory before it is gone.  A removal that fails, *)
(* before, midway or when the directory above is synced, ends retention.    *)
Remove ==
  LET partly == IF copy[active.id] = "whole" THEN "torn" ELSE "absent" IN
  /\ turn = "remove"
  /\ \/ /\ copy' = [copy EXCEPT ![active.id] = partly]
        /\ turn' = IF partly = "torn" THEN "remove" ELSE "retain"
        /\ UNCHANGED <<ops, saved, active, scan, broken, events>>
     \/ copy' \in {copy, [copy EXCEPT ![active.id] = "absent"]} /\ RetentionEnds
  /\ UNCHANGED <<remote, receipts, requests, outside, queued, checking, maintenance, life>>

-----------------------------------------------------------------------------
(* Transfers *)

Current == receipts[active.id]
Retried(r) == IF r.attempts < AttemptLimit /\ r.passes < PassLimit THEN "pending" ELSE "failed"

(* The transfer ends with the receipt r.  When it cannot be saved nothing   *)
(* more is executed.                                                        *)
TransferEnds(r) ==
  \E ok \in BOOLEAN :
    LET down == [ops |-> broken.ops \/ ~ok, receipts |-> broken.receipts \/ ~ok]
    IN  /\ SavesReceipts([receipts EXCEPT ![active.id] = r], ok)
        /\ broken' = down
        /\ active' = Idle /\ turn' = "pump"
        /\ queued' \in Ticks([receipts EXCEPT ![active.id] = r], down)

TransferFails == TransferEnds([Current EXCEPT !.state = Retried(Current)])
(* The inventory of the repository is not what the receipt knows of it. *)
InventoryChanged == TransferEnds([Current EXCEPT !.state = "failed"])
Confirmed == life = "up" /\ TransferEnds([Current EXCEPT !.state = "confirmed"])

(* The pass is charged before anything is sent; when the attempts are spent *)
(* it may only find out what became of an earlier one.                      *)
BeginTransfer ==
  LET inquiry == Current.attempts >= AttemptLimit
      charged == [Current EXCEPT !.state = "running", !.passes = @ + 1,
                                 !.attempts = IF inquiry THEN @ ELSE @ + 1]
  IN  /\ turn = "begin" /\ active.kind = "transfer"
      /\ \/ /\ maintenance
            /\ active' = Idle /\ turn' = "pump" /\ queued' \in Ticks(receipts, broken)
            /\ UNCHANGED <<receipts, saved, broken, events>>
         \/ ~maintenance /\ Current.passes >= PassLimit /\ TransferFails
         \/ /\ ~maintenance /\ Current.passes < PassLimit
            /\ \E ok \in BOOLEAN :
                 /\ SavesReceipts([receipts EXCEPT ![active.id] = charged], ok)
                 /\ broken' = [broken EXCEPT !.receipts = @ \/ ~ok]
                 /\ turn' = IF ok /\ ~Verifying THEN "free" ELSE "stop"
            /\ active' = [active EXCEPT !.kind = IF inquiry THEN "inquiry" ELSE "transfer",
                                        !.stage = "verify"]
            /\ UNCHANGED queued
      /\ UNCHANGED <<remote, ops, copy, requests, outside, scan, checking, maintenance, life>>

VerifyTransfer ==
  /\ Quiet /\ Transferring /\ active.stage = "verify"
  /\ life = "up" /\ copy[active.id] = "whole"
  /\ active' = [active EXCEPT !.stage = "inventory"]
  /\ UNCHANGED <<remote, ops, receipts, durable, outside, scan, turn, queued, checking, process,
                 events>>

(* performUpload(): a complete snapshot is confirmed, an unknown inventory  *)
(* is not touched, a pass may end with candidates left to classify.         *)
Inventory ==
  LET b == active.id IN
  /\ Quiet /\ active.stage = "inventory"
  /\ \/ snapshots[b] = 1 /\ Confirmed /\ UNCHANGED outside
     \/ InventoryChanged /\ UNCHANGED outside
     \/ /\ TransferEnds([Current EXCEPT !.state = IF Current.passes < PassLimit THEN "pending" ELSE "failed",
                                         !.attempts = IF active.kind = "inquiry" THEN @ ELSE @ - 1])
        /\ UNCHANGED outside
     \/ /\ snapshots[b] = 0 /\ active.kind = "transfer" /\ life = "up"
        /\ uploads' = [uploads EXCEPT ![b] = @ + 1]
        /\ active' = [active EXCEPT !.stage = "upload"]
        /\ UNCHANGED <<snapshots, orphans, receipts, saved, broken, turn, queued, events>>
  /\ UNCHANGED <<remote, ops, copy, requests, scan, checking, maintenance, life>>

(* The upload made its snapshot, which must be the only new one. *)
Uploaded ==
  LET b == active.id IN
  /\ Quiet /\ active.stage = "upload" /\ life = "up"
  /\ snapshots' = [snapshots EXCEPT ![b] = @ + 1]
  /\ IF snapshots[b] = 0 THEN Confirmed ELSE InventoryChanged
  /\ UNCHANGED <<remote, ops, copy, requests, orphans, uploads, scan, checking, maintenance, life>>

(* A time limit, an error or the end of the controller stops the transfer,  *)
(* an upload before or after its snapshot was complete.                     *)
TransferStops ==
  LET b == active.id IN
  /\ Transferring /\ (Quiet \/ turn = "stop")
  /\ TransferFails
  /\ snapshots' \in {snapshots} \cup
       (IF active.stage = "upload" THEN {[snapshots EXCEPT ![b] = @ + 1]} ELSE {})
  /\ UNCHANGED <<remote, ops, copy, requests, orphans, uploads, scan, checking, maintenance, life>>

(* An upload outlived its controller: it completes its snapshot, or not. *)
OrphanEnds(b) ==
  /\ b \in orphans
  /\ orphans' = orphans \ {b}
  /\ snapshots' \in {snapshots, [snapshots EXCEPT ![b] = @ + 1]}
  /\ UNCHANGED <<remote, ops, receipts, durable, uploads, executor, checking, process, events>>

(* The timer of the transfers. *)
RemoteTick ==
  /\ Quiet /\ queued = None /\ ~Transferring
  /\ \E b \in Ticks(receipts, broken) \ {None} : queued' = b
  /\ turn' = IF active = Idle THEN "pump" ELSE "free"
  /\ UNCHANGED <<remote, ops, receipts, durable, outside, active, scan, checking, process, events>>

(* backup remote retry: a new round of attempts and passes. *)
Retry(b) ==
  /\ Quiet /\ life = "up" /\ remote /\ ~broken.receipts /\ queued = None /\ ~Transferring
  /\ receipts[b].state \in {"pending", "failed"} /\ Happens
  /\ \E ok \in BOOLEAN :
       LET anew == [receipts EXCEPT ![b] =
                      [state |-> "pending", attempts |-> 0, passes |-> 0, round |-> @.round + 1]]
       IN  /\ receipts' = anew /\ saved' \in Outcomes(saved.ops, anew, ok)
           /\ broken' = [broken EXCEPT !.receipts = @ \/ ~ok]
           /\ queued' \in Ticks(anew, broken')
           /\ turn' = IF active = Idle THEN "pump" ELSE "free"
  /\ UNCHANGED <<remote, ops, copy, requests, outside, active, scan, checking, maintenance, life>>

-----------------------------------------------------------------------------
(* Restore requests *)

(* A request that exists is accepted again, one of a new key once its copy  *)
(* is verified.  An accepted restore begins maintenance.                    *)
AdmitRestore(b) ==
  /\ Quiet /\ Admits /\ checking = None /\ Happens
  /\ \/ b \in requests /\ maintenance' = TRUE /\ UNCHANGED checking
     \/ copy[b] # "absent" /\ ~Verifying /\ checking' = b /\ UNCHANGED maintenance
  /\ UNCHANGED <<remote, ops, receipts, durable, outside, executor, broken, life>>

Admitted ==
  /\ Quiet /\ checking # None
  /\ checking' = None
  /\ \/ UNCHANGED <<requests, maintenance>>
     \/ /\ Admits /\ copy[checking] = "whole"
        /\ requests' = requests \cup {checking} /\ maintenance' = TRUE
  /\ UNCHANGED <<remote, ops, receipts, saved, copy, outside, executor, broken, life, events>>

-----------------------------------------------------------------------------
(* The life of the controller *)

(* close(): what waits is interrupted, what runs is awaited. *)
Close ==
  /\ Quiet /\ life = "up"
  /\ IF maintenance THEN UNCHANGED events ELSE Happens
  /\ life' = "closing" /\ queued' = None
  /\ LET closed == [b \in Ids |-> IF ops[b].state = "queued" THEN [ops[b] EXCEPT !.state = "interrupted"]
                                  ELSE ops[b]]
     IN  \E ok \in BOOLEAN : ops' = closed /\ saved' \in Outcomes(closed, saved.receipts, ok)
  /\ UNCHANGED <<remote, receipts, copy, requests, outside, active, scan, turn, checking, broken, maintenance>>

Gone ==
  /\ life' = "down" /\ maintenance' = FALSE /\ broken' = NotBroken
  /\ ops' = saved.ops /\ receipts' = saved.receipts
  /\ active' = Idle /\ scan' = NoScan /\ turn' = "free" /\ queued' = None /\ checking' = None

Exit ==
  /\ life = "closing" /\ turn = "free" /\ active = Idle /\ checking = None
  /\ Gone
  /\ UNCHANGED <<remote, durable, outside, events>>

Crash ==
  /\ life # "down" /\ Happens
  /\ Gone
  /\ orphans' = orphans \cup (IF active.stage = "upload" THEN {active.id} ELSE {})
  /\ UNCHANGED <<remote, durable, snapshots, uploads>>

(* The constructors: a backup that was cut short succeeded if its copy was  *)
(* published, a transfer's outcome is unknown.  Then start().               *)
Recovered ==
  [b \in Ids |->
     IF ops[b].state \notin {"queued", "running"} THEN ops[b]
     ELSE [ops[b] EXCEPT !.state = IF copy[b] = "whole" THEN "succeeded" ELSE "interrupted"]]
(* Faults: a transfer that ran is left alone, begins anew, or is believed. *)
ResumedNever(enabled) == receipts
ResumedAnew(enabled) ==
  [b \in Ids |->
     IF enabled /\ receipts[b].state = "running"
     THEN [receipts[b] EXCEPT !.state = "pending", !.attempts = 0, !.passes = 0] ELSE receipts[b]]
ResumedConfirmed(enabled) ==
  [b \in Ids |->
     IF enabled /\ receipts[b].state = "running" THEN [receipts[b] EXCEPT !.state = "confirmed"]
     ELSE receipts[b]]

Resumed(enabled) ==
  [b \in Ids |->
     IF enabled /\ receipts[b].state = "running" THEN [receipts[b] EXCEPT !.state = "pending"]
     ELSE receipts[b]]

Boot ==
  /\ life = "down"
  /\ \E enabled \in Transports :
       \/ /\ remote' = enabled
          /\ ops' = Recovered /\ receipts' = Resumed(enabled)
          /\ saved' = [ops |-> ops', receipts |-> receipts']
          /\ life' = "up" /\ turn' = "reconcile" /\ UNCHANGED events
       \/ /\ Happens
          /\ saved' \in {saved, [saved EXCEPT !.ops = Recovered],
                         [ops |-> Recovered, receipts |-> Resumed(enabled)]}
          /\ ops' = saved'.ops /\ receipts' = saved'.receipts
          /\ UNCHANGED <<remote, life, turn>>
  /\ UNCHANGED <<copy, requests, outside, active, scan, queued, checking, broken, maintenance>>

Init ==
  /\ remote \in Transports
  /\ ops = [b \in Ids |-> NoOp] /\ receipts = [b \in Ids |-> NoReceipt]
  /\ saved = [ops |-> ops, receipts |-> receipts]
  /\ copy = [b \in Ids |-> "absent"] /\ requests = {}
  /\ snapshots = [b \in Ids |-> 0] /\ orphans = {} /\ uploads = [b \in Ids |-> 0]
  /\ active = Idle /\ scan = NoScan /\ turn = "free" /\ queued = None /\ checking = None
  /\ broken = NotBroken /\ maintenance = FALSE /\ life = "up"
  /\ events = 0

(* What goes on without anyone asking. *)
Process ==
  \/ Pump \/ Begin \/ Publish \/ CopyFails \/ Record \/ ReconcileOne \/ Reconciled
  \/ Retain \/ Checked \/ Remove
  \/ BeginTransfer \/ VerifyTransfer \/ Inventory \/ Uploaded \/ TransferStops \/ RemoteTick
  \/ Admitted \/ (maintenance /\ Close) \/ Exit \/ Boot

Next ==
  \/ Process
  \/ \E b \in Ids : \/ \E scheduled \in BOOLEAN : Create(b, scheduled)
                    \/ Retry(b) \/ AdmitRestore(b) \/ OrphanEnds(b)
  \/ Close \/ Crash

Spec == Init /\ [][Next]_vars

(* Copies, uploads, verifications and timers end, and the controller is     *)
(* started again.                                                           *)
FairSpec == Spec /\ WF_vars(Process)

-----------------------------------------------------------------------------
(* Properties *)

(* No crash, race or retention takes a copy away while it is needed: by a   *)
(* restore request, by a transfer that is not confirmed, as the latest      *)
(* recovery point or as a copy made by hand (README.md:689).                *)
KeptWhileNeeded ==
  \A b \in Ids :
    \/ b \in requests
    \/ b \in Succeeded /\ ~ops[b].scheduled
    \/ b \in Succeeded /\ ops[b].remote /\ receipts[b].state # "confirmed"
    \/ b \in Latest(Succeeded) \cup Latest(Scheduled(Succeeded))
    => copy[b] = "whole"

(* A transfer is confirmed only when the repository holds its snapshot, and *)
(* stays confirmed until the record of its backup is retired.               *)
ConfirmedIsStored == \A b \in Ids : receipts[b].state = "confirmed" => snapshots[b] > 0

(* One round of attempts never uploads more often than the limit, through   *)
(* any crash ("a crash cannot reset read/candidate budgets").               *)
BudgetKept ==
  \A b \in Ids : HasReceipt(b) => uploads[b] <= AttemptLimit * (receipts[b].round + 1)

(* Every admitted backup comes to an end, unless its ledger cannot be       *)
(* written.                                                                 *)
EveryBackupEnds == \A b \in Ids : ops[b].state \in {"queued", "running"} ~>
                                    ops[b].state \notin {"queued", "running"} \/ broken.ops

(* Every transfer is confirmed or given up while transfers are enabled.     *)
EveryTransferSettles ==
  \A b \in Ids : receipts[b].state \in {"pending", "running"} ~>
    receipts[b].state \in {"confirmed", "failed"} \/ broken.receipts \/ broken.ops \/ ~remote
===============================================================================
