------------------------ MODULE RestoreHandoffProofs ------------------------
(* Proofs about restores, for every number of operations, every set of keys   *)
(* and any number of crashes and power failures.                              *)
EXTENDS RestoreRecoveryProofs

-----------------------------------------------------------------------------
(* The inductive invariant of requests, handoff and fence.                    *)

RecordTypes ==
  /\ requests \in [Keys -> [state : {"none", "requested", "verified"} \cup Finished, op : 0 .. NOps]]
  /\ handoff \in [state : {"none", "verified"} \cup Pending \cup Finished,
                  key : Keys \cup {NoKey}, op : 0 .. NOps]
  /\ fence \in [Gens -> {"snapshot", "policy", "revoked"}]
  /\ issued \in Seq(Keys) /\ Len(issued) <= NOps
  /\ task \in {"open", "execute", "handoff", "offline"}
  /\ target \in Keys \cup {NoKey}
  /\ admit \in [stage : {"idle", "prepare", "verify", "publish", "accept"}, key : Keys \cup {NoKey}]
  /\ busy \in BOOLEAN
  /\ closing \in {"no", "signal", "handoff"}
  /\ crashes \in 0 .. MaxCrashes
  /\ admit.stage \in {"prepare", "verify", "publish"} => Len(issued) < NOps

(* Every operation was issued, to the key that holds it. *)
IssuedInv ==
  /\ \A k \in Keys : requests[k].state # "none" =>
       requests[k].op \in 1 .. Len(issued) /\ issued[requests[k].op] = k
  /\ handoff.state # "none" =>
       /\ handoff.key \in Keys \ OfflineKeys
       /\ handoff.op \in 1 .. Len(issued) /\ issued[handoff.op] = handoff.key
  /\ \A d \in Disks, o \in Ops : Begun(d, o) => o <= Len(issued)

(* What is recorded of a request agrees with what was done. *)
RequestInv ==
  \A k \in Keys, d \in Disks :
    /\ requests[k].state = "verified" => requests[k].op \in Replaced(d)
    /\ requests[k].state \in Finished => ~Begun(d, requests[k].op)
    /\ requests[k].state = "requested" /\ k \notin OfflineKeys =>
         ~Begun(d, requests[k].op) \/ (handoff.state = "executing" /\ handoff.key = k)

(* So does what is recorded of the handoff, and the request it is for. *)
HandoffDisks ==
  \A d \in Disks :
    /\ handoff.state = "verified" => handoff.op \in Replaced(d)
    /\ handoff.state \in Finished => ~Begun(d, handoff.op)
    /\ handoff.state = "executing" => ~Begun(d, handoff.op) \/ d.journal.op = handoff.op

PendingInv ==
  /\ handoff.state \in Pending =>
       requests[handoff.key].op = handoff.op /\ requests[handoff.key].state \in {"requested", "verified"}
  /\ handoff.state \in {"requested", "maintenance"} => requests[handoff.key].state = "requested"

(* What the process does belongs to what is recorded. *)
TaskInv ==
  /\ busy => pc \in {"serving", "launched", "draining", "failing"} \/ task = "handoff"
  /\ admit.stage # "idle" => pc = "serving" /\ ~busy /\ admit.key \in Keys \ OfflineKeys
  /\ admit.stage = "accept" => requests[admit.key].state \in {"requested", "verified"}
  /\ pc = "serving" => handoff.state \notin Pending \/ (busy /\ handoff.state = "requested")
  /\ pc \in {"launched", "draining"} => handoff.state = "maintenance"
  /\ pc = "failing" => handoff.state = "failed"
  /\ pc \in OpenPcs \cup {"off", "boot", "failing"} => task = "open"
  /\ pc \in {"prepare", "archived", "publish", "published"} => task # "open"
  /\ pc \in {"prepare", "archived", "publish"} => ~Begun(Disk, requests[target].op)
  /\ task \in {"handoff", "execute"} => handoff.state = "executing" /\ target = handoff.key
  /\ task = "offline" => handoff.state # "executing" /\ target \in OfflineKeys
  /\ task # "open" => requests[target].state \in {"requested", "verified"}
  /\ task = "open" /\ pc \notin {"off", "boot", "serving", "launched", "draining"} =>
       handoff.state \notin {"requested", "maintenance"}
  /\ handoff.state = "executing" /\ task = "open" /\ pc \notin {"off", "boot"} =>
       requests[handoff.key].state = "verified"

(* Whatever generation is in use, its credentials are fenced, or it was       *)
(* restored offline, or the handoff that restored it goes on.                 *)
Excused(g) == issued[g] \in OfflineKeys \/ (handoff.state = "executing" /\ handoff.op = g)
FenceDisks ==
  \A d \in Disks :
    /\ Base(d)[Database].gen # 0 =>
         Excused(Base(d)[Database].gen) \/ fence[Base(d)[Database].gen] = "revoked"
    /\ Unfinished(d) => Excused(d.journal.op)
FenceInv ==
  /\ pc \in {"fence", "revoke", "acknowledge"} => handoff.state = "executing"
  /\ pc \in {"serving", "launched", "draining"} => handoff.state # "executing"
  /\ pc = "acknowledge" => fence[handoff.op] = "revoked"
  /\ handoff.state = "verified" => fence[handoff.op] = "revoked"

BookInv == IssuedInv /\ RequestInv /\ HandoffDisks /\ PendingInv /\ TaskInv /\ FenceDisks /\ FenceInv
HandoffInv == RecordTypes /\ BookInv
IInv == RecoveryInv /\ HandoffInv

-----------------------------------------------------------------------------
(* Type correctness of the records.                                           *)

LEMMA RequestFields ==
  ASSUME RecordTypes, NEW k \in Keys
  PROVE  /\ requests[k] = [state |-> requests[k].state, op |-> requests[k].op]
         /\ requests[k].state \in {"none", "requested", "verified"} \cup Finished
         /\ requests[k].op \in 0 .. NOps
         /\ \A s : [requests EXCEPT ![k].state = s]
                     = [requests EXCEPT ![k] = [state |-> s, op |-> requests[k].op]]
<1>1. requests[k] \in [state : {"none", "requested", "verified"} \cup Finished, op : 0 .. NOps]
  BY DEF RecordTypes
<1>2. \A s : [requests EXCEPT ![k].state = s]
               = [requests EXCEPT ![k] = [state |-> s, op |-> requests[k].op]]
  <2> TAKE s
  <2>1. [requests[k] EXCEPT !.state = s] = [state |-> s, op |-> requests[k].op]
    BY <1>1
  <2> QED
    BY <2>1
<1> QED
  BY <1>1, <1>2

LEMMA HandoffFields ==
  ASSUME RecordTypes
  PROVE  /\ handoff.state \in {"none", "verified"} \cup Pending \cup Finished
         /\ handoff.key \in Keys \cup {NoKey} /\ handoff.op \in 0 .. NOps
         /\ \A s : [handoff EXCEPT !.state = s]
                     = [state |-> s, key |-> handoff.key, op |-> handoff.op]
         /\ admit.stage \in {"idle", "prepare", "verify", "publish", "accept"}
         /\ admit.key \in Keys \cup {NoKey}
         /\ \A s : [admit EXCEPT !.stage = s] = [stage |-> s, key |-> admit.key]
<1>1. handoff \in [state : {"none", "verified"} \cup Pending \cup Finished,
                   key : Keys \cup {NoKey}, op : 0 .. NOps]
  BY DEF RecordTypes
<1>2. admit \in [stage : {"idle", "prepare", "verify", "publish", "accept"}, key : Keys \cup {NoKey}]
  BY DEF RecordTypes
<1>3. \A s : [handoff EXCEPT !.state = s] = [state |-> s, key |-> handoff.key, op |-> handoff.op]
  BY <1>1
<1>4. \A s : [admit EXCEPT !.stage = s] = [stage |-> s, key |-> admit.key]
  BY <1>2
<1> QED
  BY <1>1, <1>2, <1>3, <1>4

\* The keys that are at work are keys.
LEMMA KeysAtWork ==
  ASSUME HandoffInv
  PROVE  /\ handoff.state # "none" => handoff.key \in Keys
         /\ admit.stage # "idle" => admit.key \in Keys /\ admit.key \notin OfflineKeys
         /\ task # "open" => target \in Keys
BY HandoffAssumption, HandoffFields DEF HandoffInv, BookInv, IssuedInv, TaskInv, RecordTypes

LEMMA RequestIssues ==
  ASSUME HandoffInv, NEW k \in Keys, Request(k), Len(issued) < NOps
  PROVE  /\ requests' \in [Keys -> [state : {"none", "requested", "verified"} \cup Finished,
                                    op : 0 .. NOps]]
         /\ issued' \in Seq(Keys) /\ Len(issued') <= NOps
         /\ Len(issued) <= Len(issued') /\ \A i \in 1 .. Len(issued) : issued'[i] = issued[i]
         /\ requests'[k].state \in {"requested", "verified"}
         /\ \A j \in Keys \ {k} : requests'[j] = requests[j]
         /\ \/ UNCHANGED <<requests, issued>> /\ requests[k].state \in {"requested", "verified"}
            \/ /\ requests[k].state \in Finished \cup {"none"}
               /\ requests'[k].state = "requested" /\ requests'[k].op = Len(issued) + 1
               /\ Len(issued') = Len(issued) + 1 /\ issued'[Len(issued) + 1] = k
               /\ Len(issued) + 1 \in Ops
<1>1. /\ issued \in Seq(Keys) /\ Len(issued) <= NOps /\ Len(issued) \in Nat
      /\ requests \in [Keys -> [state : {"none", "requested", "verified"} \cup Finished,
                                op : 0 .. NOps]]
  BY DEF HandoffInv, RecordTypes
<1>2. CASE requests[k].state \in Finished \cup {"none"}
  <2> DEFINE r == [state |-> "requested", op |-> Len(issued) + 1]
  <2>1. issued' = Append(issued, k) /\ requests' = [requests EXCEPT ![k] = r]
    BY <1>2 DEF Request
  <2>2. Len(issued) + 1 \in 0 .. NOps /\ Len(issued) + 1 \in Ops
    BY <1>1, OpsAssumption DEF Ops
  <2>3. r \in [state : {"none", "requested", "verified"} \cup Finished, op : 0 .. NOps]
        /\ r.state = "requested" /\ r.op = Len(issued) + 1
    BY <2>2
  <2> HIDE DEF r
  <2>4. /\ issued' \in Seq(Keys) /\ Len(issued') = Len(issued) + 1
        /\ issued'[Len(issued) + 1] = k
        /\ \A i \in 1 .. Len(issued) : issued'[i] = issued[i]
    BY <1>1, <2>1
  <2> QED
    BY <1>1, <1>2, <2>1, <2>2, <2>3, <2>4
<1>3. CASE ~(requests[k].state \in Finished \cup {"none"})
  BY <1>1, <1>3, RequestFields DEF Request, HandoffInv
<1> QED
  BY <1>2, <1>3

LEMMA FinishMarks ==
  ASSUME RecordTypes, handoff.key \in Keys, NEW s \in Finished, Finish(s)
  PROVE  /\ requests' \in [Keys -> [state : {"none", "requested", "verified"} \cup Finished,
                                    op : 0 .. NOps]]
         /\ \A k \in Keys : \/ requests'[k] = requests[k]
                            \/ /\ k = handoff.key /\ requests[k].op = handoff.op
                               /\ requests[k].state # "verified"
                               /\ requests'[k].state = s /\ requests'[k].op = handoff.op
<1> DEFINE r == [state |-> s, op |-> handoff.op]
<1>1. r \in [state : {"none", "requested", "verified"} \cup Finished, op : 0 .. NOps]
      /\ r.state = s /\ r.op = handoff.op
  BY HandoffFields
<1>2. requests' = requests \/ (requests[handoff.key].op = handoff.op
        /\ requests[handoff.key].state # "verified" /\ requests' = [requests EXCEPT ![handoff.key] = r])
  BY DEF Finish
<1> HIDE DEF r
<1> QED
  BY <1>1, <1>2 DEF RecordTypes

LEMMA StepRecordTypes ==
  ASSUME HandoffInv, [Next]_vars PROVE RecordTypes'
<1> USE DEF volatile, records, recoveryVars, diskVars
<1>t. RecordTypes
  BY DEF HandoffInv
<1>k. /\ handoff.state # "none" => handoff.key \in Keys
      /\ admit.stage # "idle" => admit.key \in Keys
      /\ task # "open" => target \in Keys
  BY KeysAtWork
<1>e. ASSUME Ends
      PROVE  /\ task' \in {"open", "execute", "handoff", "offline"} /\ target' \in Keys \cup {NoKey}
             /\ admit' \in [stage : {"idle", "prepare", "verify", "publish", "accept"},
                            key : Keys \cup {NoKey}]
             /\ admit'.stage = "idle" /\ busy' \in BOOLEAN /\ closing' \in {"no", "signal", "handoff"}
  BY <1>e DEF Ends, Idle
<1>i. /\ Idle \in [stage : {"idle", "prepare", "verify", "publish", "accept"}, key : Keys \cup {NoKey}]
      /\ Idle.stage = "idle"
  BY DEF Idle
<1>s. ASSUME NEW s \in {"none", "verified"} \cup Pending \cup Finished
      PROVE  [handoff EXCEPT !.state = s]
               \in [state : {"none", "verified"} \cup Pending \cup Finished,
                    key : Keys \cup {NoKey}, op : 0 .. NOps]
  BY <1>t, HandoffFields
<1>f. Finished \subseteq {"failed", "interrupted"} /\ "failed" \in Finished /\ "interrupted" \in Finished
  BY DEF Finished
<1>p. {"requested", "maintenance", "executing"} = Pending
  BY DEF Pending
<1>a. ASSUME NEW k \in Keys, AdmitBegin(k) PROVE RecordTypes'
  <2>1. requests' \in [Keys -> [state : {"none", "requested", "verified"} \cup Finished, op : 0 .. NOps]]
    <3>1. CASE handoff.state \in Finished
      <4>1. Finish(handoff.state) /\ handoff.key \in Keys
        BY <1>a, <1>f, <1>k, <3>1 DEF AdmitBegin
      <4> QED
        BY <1>t, <3>1, <4>1, FinishMarks
    <3>2. CASE handoff.state \notin Finished
      BY <1>a, <1>t, <3>2 DEF AdmitBegin, RecordTypes
    <3> QED BY <3>1, <3>2
  <2>2. /\ admit' = [stage |-> "prepare", key |-> k] /\ Len(issued) < NOps
        /\ UNCHANGED <<handoff, fence, issued, task, target, busy, closing, crashes>>
    BY <1>a DEF AdmitBegin
  <2> QED
    BY <1>t, <2>1, <2>2 DEF RecordTypes
<1>b. CASE AdmitPrepare \/ AdmitPublish
  <2>1. /\ admit.key \in Keys /\ Len(issued) < NOps /\ admit.stage \in {"prepare", "publish"}
    BY <1>b, <1>k, <1>t DEF AdmitPrepare, AdmitPublish, RecordTypes
  <2>2. \/ Request(admit.key) /\ admit' = [admit EXCEPT !.stage = "accept"]
        \/ UNCHANGED <<requests, issued>> /\ admit' = Idle
        \/ UNCHANGED <<requests, issued>> /\ admit' = [admit EXCEPT !.stage = "verify"]
    BY <1>b DEF AdmitPrepare, AdmitPublish
  <2>3. /\ requests' \in [Keys -> [state : {"none", "requested", "verified"} \cup Finished, op : 0 .. NOps]]
        /\ issued' \in Seq(Keys) /\ Len(issued') <= NOps
    <3>1. CASE Request(admit.key)
      BY <2>1, <3>1, RequestIssues
    <3>2. CASE UNCHANGED <<requests, issued>>
      BY <1>t, <3>2 DEF RecordTypes
    <3> QED BY <2>2, <3>1, <3>2
  <2>4. /\ admit' \in [stage : {"idle", "prepare", "verify", "publish", "accept"}, key : Keys \cup {NoKey}]
        /\ admit'.stage \in {"prepare", "verify", "publish"} => issued' = issued
    <3>1. \A s \in {"accept", "verify"} :
            /\ [admit EXCEPT !.stage = s] \in [stage : {"idle", "prepare", "verify", "publish", "accept"},
                                               key : Keys \cup {NoKey}]
            /\ [admit EXCEPT !.stage = s].stage = s
      BY <1>t, HandoffFields
    <3> QED
      BY <1>i, <2>2, <3>1
  <2>5. UNCHANGED <<handoff, fence, task, target, busy, closing, crashes>>
    BY <1>b DEF AdmitPrepare, AdmitPublish
  <2> QED
    BY <1>t, <2>1, <2>3, <2>4, <2>5 DEF RecordTypes
<1>c. CASE AdmitVerify
  <2>1. admit' = Idle \/ (admit' = [stage |-> "publish", key |-> admit.key] /\ admit.stage = "verify")
    BY <1>c, <1>t, HandoffFields DEF AdmitVerify
  <2> QED
    BY <1>c, <1>i, <1>t, <2>1 DEF AdmitVerify, RecordTypes
<1>d. CASE AdmitAccept
  <2>1. handoff' = handoff \/ handoff' = [state |-> "requested", key |-> admit.key,
                                          op |-> requests[admit.key].op]
    BY <1>d DEF AdmitAccept
  <2>2. admit.key \in Keys /\ requests[admit.key].op \in 0 .. NOps
    BY <1>d, <1>k, <1>t, RequestFields DEF AdmitAccept
  <2>3. handoff' \in [state : {"none", "verified"} \cup Pending \cup Finished,
                      key : Keys \cup {NoKey}, op : 0 .. NOps]
    BY <1>p, <1>t, <2>1, <2>2 DEF RecordTypes
  <2>4. busy' \in BOOLEAN
    BY <1>d, <1>t DEF AdmitAccept, RecordTypes
  <2> QED
    BY <1>d, <1>i, <1>t, <2>3, <2>4 DEF AdmitAccept, RecordTypes
<1>g. CASE Launch \/ Drain \/ Drained
  <2>1. handoff' \in [state : {"none", "verified"} \cup Pending \cup Finished,
                      key : Keys \cup {NoKey}, op : 0 .. NOps]
    BY <1>f, <1>g, <1>p, <1>s, <1>t DEF Launch, Drain, Drained, RecordTypes
  <2>2. CASE Launch
    BY <1>t, <2>1, <2>2 DEF Launch, RecordTypes
  <2>3. CASE Drain
    BY <1>e, <1>t, <2>1, <2>3 DEF Drain, RecordTypes
  <2>4. CASE Drained
    BY <1>t, <2>1, <2>4, HandoffFields DEF Drained, RecordTypes
  <2> QED
    BY <1>g, <2>2, <2>3, <2>4
<1>h. CASE Failing
  <2>1. handoff.state = "failed" /\ handoff.key \in Keys
    BY <1>h, <1>k DEF Failing, HandoffInv, BookInv, TaskInv
  <2>2. requests' \in [Keys -> [state : {"none", "requested", "verified"} \cup Finished, op : 0 .. NOps]]
    BY <1>f, <1>h, <1>t, <2>1, FinishMarks DEF Failing
  <2> QED
    BY <1>e, <1>h, <1>t, <2>2 DEF Failing, RecordTypes
<1>j. CASE Signal \/ SignalExit
  BY <1>e, <1>j, <1>t DEF Signal, SignalExit, RecordTypes
<1>l. CASE Execute
  <2>1. target \in Keys
    BY <1>k, <1>l DEF Execute
  <2>2. requests' \in [Keys -> [state : {"none", "requested", "verified"} \cup Finished, op : 0 .. NOps]]
    <3>1. \/ requests' = requests
          \/ requests' = [requests EXCEPT ![target] = [state |-> "verified", op |-> requests[target].op]]
      BY <1>l, <1>t, <2>1, RequestFields DEF Execute
    <3>2. [state |-> "verified", op |-> requests[target].op]
            \in [state : {"none", "requested", "verified"} \cup Finished, op : 0 .. NOps]
      BY <1>t, <2>1, RequestFields
    <3> QED
      BY <1>t, <3>1, <3>2 DEF RecordTypes
  <2>3. \/ Ends
        \/ task' = "open" /\ target' = NoKey /\ busy' = FALSE /\ closing' = "no" /\ UNCHANGED admit
        \/ UNCHANGED volatile
    BY <1>l DEF Execute
  <2> QED
    BY <1>e, <1>l, <1>t, <2>2, <2>3 DEF Execute, RecordTypes
<1>m. CASE Boot
  <2>1. CASE handoff.state \in Finished
    <3>1. requests' \in [Keys -> [state : {"none", "requested", "verified"} \cup Finished, op : 0 .. NOps]]
      <4>1. Finish(handoff.state) /\ handoff.key \in Keys
        BY <1>f, <1>k, <1>m, <2>1 DEF Boot
      <4> QED
        BY <1>t, <2>1, <4>1, FinishMarks
    <3>2. UNCHANGED <<handoff, task, target>>
      BY <1>f, <1>m, <2>1 DEF Boot
    <3> QED
      BY <1>m, <1>t, <3>1, <3>2 DEF Boot, RecordTypes
  <2>2. CASE handoff.state \notin Finished
    <3>1. handoff' \in [state : {"none", "verified"} \cup Pending \cup Finished,
                        key : Keys \cup {NoKey}, op : 0 .. NOps]
      BY <1>f, <1>m, <1>s, <1>t, <2>2 DEF Boot, RecordTypes
    <3>2. requests' = requests /\ task' \in {task, "execute"} /\ target' \in {target, handoff.key}
      BY <1>m, <2>2 DEF Boot
    <3> QED
      BY <1>m, <1>t, <3>1, <3>2, HandoffFields DEF Boot, RecordTypes
  <2> QED BY <2>1, <2>2
<1>n. CASE Fence
  <2>1. fence' \in [Gens -> {"snapshot", "policy", "revoked"}]
    <3>1. PICK s \in {"policy", "revoked"} : fence' = [fence EXCEPT ![Installed] = s]
      BY <1>n DEF Fence
    <3> QED
      BY <1>t, <3>1 DEF RecordTypes
  <2> QED
    BY <1>n, <1>t, <2>1 DEF Fence, RecordTypes
<1>o. CASE Acknowledge
  BY <1>o, <1>s, <1>t DEF Acknowledge, RecordTypes
<1>q. ASSUME NEW k \in Keys, OfflineRestore(k) PROVE RecordTypes'
  <2>1. /\ requests' \in [Keys -> [state : {"none", "requested", "verified"} \cup Finished, op : 0 .. NOps]]
        /\ issued' \in Seq(Keys) /\ Len(issued') <= NOps
    BY <1>q, RequestIssues DEF OfflineRestore
  <2>2. admit.stage = "idle"
    BY <1>q DEF OfflineRestore, HandoffInv, BookInv, TaskInv
  <2> QED
    BY <1>q, <1>t, <2>1, <2>2 DEF OfflineRestore, RecordTypes
<1>r. CASE Crash \/ Refuse
  BY <1>e, <1>r, <1>t, HandoffAssumption DEF Crash, Refuse, RecordTypes
<1>u. CASE Recovering \/ Preparing \/ Start \/ Open \/ Write \/ UNCHANGED vars
  BY <1>t, <1>u DEF Recovering, Preparing, Start, Open, Write, vars, RecordTypes
<1> QED
  BY <1>a, <1>b, <1>c, <1>d, <1>g, <1>h, <1>j, <1>l, <1>m, <1>n, <1>o, <1>q, <1>r, <1>u
     DEF Next, Process

-----------------------------------------------------------------------------
(* The steps of recovery, as the records see them.                            *)

LEMMA BegunFacts ==
  /\ \A d, o : o \in Replaced(d) => Begun(d, o)
  /\ \A d, e : Alike(d, e) =>
       /\ \A o : Begun(e, o) <=> Begun(d, o)
       /\ Replaced(e) = Replaced(d)
       /\ Unfinished(e) <=> Unfinished(d)
BY DEF Replaced, Begun, Alike, Unfinished

\* A step that changes no record and makes no operation begin or end.
LEMMA QuietBooks ==
  ASSUME BookInv, Quiet, UNCHANGED records
  PROVE  IssuedInv' /\ RequestInv' /\ HandoffDisks' /\ PendingInv' /\ FenceDisks'
<1>1. \A e \in {Disk', stable'} : \E d \in Disks :
        /\ e.journal.op = d.journal.op
        /\ \A o : Begun(e, o) <=> Begun(d, o)
        /\ Replaced(e) = Replaced(d) /\ (Unfinished(e) <=> Unfinished(d))
        /\ Base(e)[Database].gen = Base(d)[Database].gen
  BY BegunFacts DEF Quiet, Alike
<1>2. requests' = requests /\ handoff' = handoff /\ fence' = fence /\ issued' = issued
  BY DEF records
<1>3. Disks' = {Disk', stable'}
  BY DEF Disks
<1>4. IssuedInv'
  BY <1>1, <1>2, <1>3 DEF BookInv, IssuedInv
<1>5. RequestInv'
  BY <1>1, <1>2, <1>3 DEF BookInv, RequestInv
<1>6. HandoffDisks'
  BY <1>1, <1>2, <1>3 DEF BookInv, HandoffDisks
<1>7. PendingInv'
  BY <1>2 DEF BookInv, PendingInv
<1>8. FenceDisks'
  BY <1>1, <1>2, <1>3 DEF BookInv, FenceDisks, Excused
<1> QED
  BY <1>4, <1>5, <1>6, <1>7, <1>8

RecoveringPcs == {"recover", "intend", "intended", "move", "moved", "complete", "completed",
                  "validate", "verifying"}

LEMMA RecoveringPlaces ==
  ASSUME IInv, pc \in RecoveringPcs, pc' \in RecoveringPcs \cup {"owned", "stopped"},
         UNCHANGED <<records, volatile>>
  PROVE  TaskInv' /\ FenceInv'
<1>1. TaskInv'
  BY DEF IInv, HandoffInv, BookInv, TaskInv, RecoveringPcs, OpenPcs, records, volatile
<1>2. FenceInv'
  BY DEF IInv, HandoffInv, BookInv, FenceInv, RecoveringPcs, records, volatile
<1> QED
  BY <1>1, <1>2

LEMMA RecoveringBooks ==
  ASSUME IInv, Recovering PROVE RecoveryInv' /\ BookInv'
<1> USE DiskFields
<1>1. Recover /\ UNCHANGED <<records, volatile>> /\ RecoveryInv /\ BookInv
  BY DEF Recovering, IInv, HandoffInv
<1>2. pc \in RecoveringPcs /\ pc' \in RecoveringPcs \cup {"owned", "stopped"}
  BY <1>1 DEF Recover, CheckJournal, Intend, SyncIntent, Move, SyncMove, Complete, SyncComplete,
              Validate, SyncVerified, NextTurn, RecoveringPcs
<1>3. TaskInv' /\ FenceInv'
  BY <1>1, <1>2, RecoveringPlaces
<1>4. CASE RecoveryInv' /\ Quiet
  BY <1>1, <1>3, <1>4, QuietBooks DEF BookInv
<1>5. CASE Validate /\ InstalledIsSound
  <2>1. /\ RecoveryInv' /\ archived' = archived /\ stable' = stable /\ journal'.op = journal.op
        /\ Replaced(Disk') = Replaced(Disk) \cup {journal.op} /\ ~Unfinished(Disk')
        /\ Base(Disk')[Database].gen = journal.op
    BY <1>1, <1>5, ValidateKeeps
  <2>2. Unfinished(Disk)
    BY <1>1, <1>5 DEF RecoveryInv, PcInv, Validate, PlanPcs
  <2>3. \A o : Begun(Disk', o) <=> Begun(Disk, o)
    BY <2>1 DEF Begun
  <2>4. requests' = requests /\ handoff' = handoff /\ fence' = fence /\ issued' = issued
    BY <1>1 DEF records
  <2>5. Disks' = {Disk', stable} /\ Disks = {Disk, stable}
    BY <2>1 DEF Disks
  <2>6. IssuedInv'
    BY <1>1, <2>3, <2>4, <2>5 DEF BookInv, IssuedInv
  <2>7. RequestInv'
    BY <1>1, <2>1, <2>3, <2>4, <2>5 DEF BookInv, RequestInv
  <2>8. HandoffDisks'
    BY <1>1, <2>1, <2>3, <2>4, <2>5 DEF BookInv, HandoffDisks
  <2>9. PendingInv'
    BY <1>1, <2>4 DEF BookInv, PendingInv
  <2>10. FenceDisks'
    <3>1. Excused(journal.op) /\ (\A g : Excused(g) => Excused(g)')
      BY <1>1, <2>2, <2>4, <2>5 DEF BookInv, FenceDisks, Excused
    <3> QED
      BY <1>1, <2>1, <2>4, <2>5, <3>1 DEF BookInv, FenceDisks
  <2> QED
    BY <1>3, <2>1, <2>6, <2>7, <2>8, <2>9, <2>10 DEF BookInv
<1>6. CASE Validate /\ ~InstalledIsSound
  BY <1>1, <1>4, <1>6, ValidateKeeps
<1>7. CASE ~Validate
  BY <1>1, <1>4, <1>7, CheckJournalKeeps, IntendKeeps, MoveKeeps, CompleteKeeps, SyncKeeps DEF Recover
<1> QED
  BY <1>5, <1>6, <1>7

\* Which operation is prepared: the target's, which has not begun and nobody shares.
LEMMA PreparedIsNew ==
  ASSUME IInv, pc \in {"prepare", "archived", "publish"}
  PROVE  LET o == requests[target].op
         IN  /\ target \in Keys /\ o \in Ops /\ o \in 1 .. Len(issued) /\ issued[o] = target
             /\ ~Begun(Disk, o)
             /\ task # "open" /\ requests[target].state \in {"requested", "verified"}
             /\ \A k \in Keys : requests[k].state # "none" /\ requests[k].op = o => k = target
             /\ handoff.state # "none" /\ handoff.op = o => handoff.key = target
             /\ handoff.state = "executing" => target = handoff.key /\ handoff.op = o
             /\ handoff.state # "executing" => target \in OfflineKeys
<1>1. task # "open" /\ target \in Keys /\ requests[target].state \in {"requested", "verified"}
  BY KeysAtWork DEF IInv, HandoffInv, BookInv, TaskInv
<1>2. requests[target].op \in 1 .. Len(issued) /\ issued[requests[target].op] = target
  BY <1>1 DEF IInv, HandoffInv, BookInv, IssuedInv
<1>3. requests[target].op \in Ops
  <2>1. Len(issued) <= NOps /\ Len(issued) \in Nat
    BY DEF IInv, HandoffInv, RecordTypes
  <2> QED
    BY <1>2, <2>1, OpsAssumption DEF Ops
<1>4. ~Begun(Disk, requests[target].op)
  BY DEF IInv, HandoffInv, BookInv, TaskInv
<1>5. \A k \in Keys : requests[k].state # "none" /\ requests[k].op = requests[target].op => k = target
  BY <1>2 DEF IInv, HandoffInv, BookInv, IssuedInv
<1>6. handoff.state # "none" /\ handoff.op = requests[target].op => handoff.key = target
  BY <1>2 DEF IInv, HandoffInv, BookInv, IssuedInv
<1>7. task \in {"execute", "handoff", "offline"}
  BY <1>1 DEF IInv, HandoffInv, RecordTypes
<1>8. /\ handoff.state = "executing" => target = handoff.key /\ handoff.op = requests[target].op
      /\ handoff.state # "executing" => target \in OfflineKeys
  BY <1>1, <1>7 DEF IInv, HandoffInv, BookInv, TaskInv, PendingInv, Pending
<1> QED
  BY <1>1, <1>2, <1>3, <1>4, <1>5, <1>6, <1>8

LEMMA PreparingBooks ==
  ASSUME IInv, Preparing PROVE RecoveryInv' /\ BookInv'
<1> USE DiskFields
<1> DEFINE o == requests[target].op
<1>1. Prepare(o) /\ UNCHANGED <<records, volatile>> /\ RecoveryInv /\ BookInv
  BY DEF Preparing, IInv, HandoffInv
<1>2. requests' = requests /\ handoff' = handoff /\ fence' = fence /\ issued' = issued
      /\ UNCHANGED <<task, target, admit, busy, closing>>
  BY <1>1 DEF records, volatile
<1>3. CASE SyncArchive \/ SyncPublish
  <2>1. RecoveryInv' /\ Quiet /\ Disk' = Disk
    BY <1>1, <1>3, SyncKeeps
  <2>2. (pc = "archived" /\ pc' = "publish") \/ (pc = "published" /\ pc' = "recover")
    BY <1>3 DEF SyncArchive, SyncPublish
  <2>3. TaskInv'
    BY <1>1, <1>2, <2>1, <2>2 DEF BookInv, TaskInv, OpenPcs
  <2>4. FenceInv'
    BY <1>1, <1>2, <2>2 DEF BookInv, FenceInv
  <2> QED
    BY <1>1, <2>1, <2>3, <2>4, QuietBooks DEF BookInv
<1>4. CASE Archive
  <2>p. pc = "prepare"
    BY <1>4 DEF Archive
  <2>n. /\ target \in Keys /\ o \in Ops /\ ~Begun(Disk, o)
        /\ handoff.state = "executing" => handoff.op = o
    BY <2>p, PreparedIsNew
  <2>1. /\ RecoveryInv' /\ stable' = stable /\ pc' = "archived"
        /\ Base(Disk')[Database].gen = Base(Disk)[Database].gen
        /\ Replaced(Disk') = Replaced(Disk) /\ ~Unfinished(Disk')
        /\ \A p \in Ops : Begun(Disk', p) => Begun(Disk, p)
    BY <1>1, <1>4, ArchiveKeeps
  <2>2. Disks' = {Disk', stable} /\ Disks = {Disk, stable}
    BY <2>1 DEF Disks
  <2>3. IssuedInv'
    BY <1>1, <1>2, <2>1, <2>2 DEF BookInv, IssuedInv
  <2>o. /\ \A k \in Keys : requests[k].state # "none" => requests[k].op \in Ops
        /\ handoff.state # "none" => handoff.op \in Ops
    <3>1. Len(issued) <= NOps /\ Len(issued) \in Nat
      BY DEF IInv, HandoffInv, RecordTypes
    <3> QED
      BY <1>1, <3>1, OpsAssumption DEF Ops, BookInv, IssuedInv
  <2>4. RequestInv'
    BY <1>1, <1>2, <2>1, <2>2, <2>o DEF BookInv, RequestInv, Finished
  <2>5. HandoffDisks'
    BY <1>1, <1>2, <2>1, <2>2, <2>n, <2>o DEF BookInv, HandoffDisks, Finished
  <2>6. PendingInv'
    BY <1>1, <1>2 DEF BookInv, PendingInv
  <2>7. FenceDisks'
    BY <1>1, <1>2, <2>1, <2>2 DEF BookInv, FenceDisks, Excused
  <2>8. TaskInv'
    BY <1>1, <1>2, <2>1, <2>n, <2>p DEF BookInv, TaskInv, OpenPcs
  <2>9. FenceInv'
    BY <1>1, <1>2, <2>1, <2>p DEF BookInv, FenceInv
  <2> QED
    BY <2>1, <2>3, <2>4, <2>5, <2>6, <2>7, <2>8, <2>9 DEF BookInv
<1>5. CASE Publish(o)
  <2>p. pc = "publish"
    BY <1>5 DEF Publish
  <2>n. /\ target \in Keys /\ o \in Ops /\ o \in 1 .. Len(issued) /\ issued[o] = target
        /\ ~Begun(Disk, o)
        /\ task # "open" /\ requests[target].state \in {"requested", "verified"}
        /\ \A k \in Keys : requests[k].state # "none" /\ requests[k].op = o => k = target
        /\ handoff.state # "none" /\ handoff.op = o => handoff.key = target
        /\ handoff.state = "executing" => target = handoff.key /\ handoff.op = o
        /\ handoff.state # "executing" => target \in OfflineKeys
    BY <2>p, PreparedIsNew
  <2> HIDE DEF o
  <2>1. /\ RecoveryInv' /\ stable' = stable /\ archived' = archived /\ pc' = "published"
        /\ journal'.op = o /\ Unfinished(Disk')
        /\ Base(Disk')[Database].gen = Base(Disk)[Database].gen
        /\ Replaced(Disk') = Replaced(Disk)
    <3>1. o \notin archived
      BY <2>n DEF Begun
    <3> QED
      BY <1>1, <1>5, <2>n, <3>1, PublishKeeps
  <2>2. Disks' = {Disk', stable} /\ Disks = {Disk, stable}
    BY <2>1 DEF Disks
  <2>3. \A p : Begun(Disk', p) => p = o \/ Begun(Disk, p)
    BY <2>1 DEF Begun
  <2>4. IssuedInv'
    BY <1>1, <1>2, <2>2, <2>3, <2>n DEF BookInv, IssuedInv
  <2>5. RequestInv'
    <3> SUFFICES ASSUME NEW k \in Keys, NEW d \in {Disk', stable}
                 PROVE  /\ requests[k].state = "verified" => requests[k].op \in Replaced(d)
                        /\ requests[k].state \in Finished => ~Begun(d, requests[k].op)
                        /\ requests[k].state = "requested" /\ k \notin OfflineKeys =>
                             ~Begun(d, requests[k].op) \/ (handoff.state = "executing" /\ handoff.key = k)
      BY <1>2, <2>2 DEF RequestInv
    <3>1. CASE d = stable
      BY <1>1, <2>2, <3>1 DEF BookInv, RequestInv
    <3>2. CASE d = Disk'
      <4>1. /\ requests[k].state = "verified" => requests[k].op \in Replaced(Disk)
            /\ requests[k].state \in Finished => ~Begun(Disk, requests[k].op)
            /\ requests[k].state = "requested" /\ k \notin OfflineKeys =>
                 ~Begun(Disk, requests[k].op) \/ (handoff.state = "executing" /\ handoff.key = k)
        BY <1>1, <2>2 DEF BookInv, RequestInv
      <4> QED
        BY <2>1, <2>3, <2>n, <3>2, <4>1 DEF Finished
    <3> QED BY <3>1, <3>2
  <2>6. HandoffDisks'
    <3> SUFFICES ASSUME NEW d \in {Disk', stable}
                 PROVE  /\ handoff.state = "verified" => handoff.op \in Replaced(d)
                        /\ handoff.state \in Finished => ~Begun(d, handoff.op)
                        /\ handoff.state = "executing" => ~Begun(d, handoff.op) \/ d.journal.op = handoff.op
      BY <1>2, <2>2 DEF HandoffDisks
    <3>1. CASE d = stable
      BY <1>1, <2>2, <3>1 DEF BookInv, HandoffDisks
    <3>2. CASE d = Disk'
      <4>1. /\ handoff.state = "verified" => handoff.op \in Replaced(Disk)
            /\ handoff.state \in Finished => ~Begun(Disk, handoff.op)
        BY <1>1, <2>2 DEF BookInv, HandoffDisks
      <4>2. handoff.state # "none" => handoff.key \notin OfflineKeys
        BY <1>1 DEF BookInv, IssuedInv
      <4> QED
        BY <2>1, <2>3, <2>n, <3>2, <4>1, <4>2 DEF Finished
    <3> QED BY <3>1, <3>2
  <2>7. PendingInv'
    BY <1>1, <1>2 DEF BookInv, PendingInv
  <2>8. FenceDisks'
    <3>1. Excused(o) /\ (\A g : Excused(g) => Excused(g)')
      BY <1>2, <2>n DEF Excused
    <3> QED
      BY <1>1, <1>2, <2>1, <2>2, <3>1 DEF BookInv, FenceDisks
  <2>9. TaskInv'
    BY <1>1, <1>2, <2>1, <2>p DEF BookInv, TaskInv, OpenPcs
  <2>10. FenceInv'
    BY <1>1, <1>2, <2>1, <2>p DEF BookInv, FenceInv
  <2> QED
    BY <2>1, <2>4, <2>5, <2>6, <2>7, <2>8, <2>9, <2>10 DEF BookInv
<1> QED
  BY <1>1, <1>3, <1>4, <1>5 DEF Prepare

-----------------------------------------------------------------------------
(* The steps that write the records.                                          *)

\* Whatever is on a disk was issued.
LEMMA OnDiskIssued ==
  ASSUME IInv
  PROVE  /\ Len(issued) \in Nat /\ Len(issued) <= NOps
         /\ \A d \in Disks :
              /\ Base(d)[Database].gen # 0 => Base(d)[Database].gen \in 1 .. Len(issued)
              /\ Unfinished(d) => d.journal.op \in 1 .. Len(issued)
         /\ \A d \in Disks : ~Begun(d, Len(issued) + 1) \/ Len(issued) = NOps
<1>1. Len(issued) \in Nat /\ Len(issued) <= NOps
  BY DEF IInv, HandoffInv, RecordTypes
<1>2. \A d \in Disks, o \in Ops : Begun(d, o) => o <= Len(issued)
  BY DEF IInv, HandoffInv, BookInv, IssuedInv
<1>3. \A o \in Gens : o # 0 => o \in Ops
  BY OpsAssumption DEF Gens, Ops
<1>4. \A d \in Disks :
        /\ d.journal.op \in Gens /\ d.archived \subseteq Ops
        /\ Base(d)[Database].gen \in {0} \cup Replaced(d)
        /\ d.journal.verified => d.journal.op # 0
  BY JournalFacts DEF Disks, IInv, RecoveryInv, DisksInv, DiskInv, DiskType
<1>5. \A o \in Ops : o <= Len(issued) => o \in 1 .. Len(issued)
  BY <1>1, OpsAssumption DEF Ops
<1>6. ASSUME NEW d \in Disks, Base(d)[Database].gen # 0
      PROVE  Base(d)[Database].gen \in 1 .. Len(issued)
  <2> DEFINE g == Base(d)[Database].gen
  <2>1. g \in Replaced(d)
    BY <1>4, <1>6
  <2> HIDE DEF g
  <2>2. g \in Ops /\ Begun(d, g)
    BY <1>3, <1>4, <2>1 DEF Replaced, Begun
  <2>3. g \in 1 .. Len(issued)
    BY <1>2, <1>5, <2>2
  <2> QED
    BY <2>3 DEF g
<1>7. ASSUME NEW d \in Disks, Unfinished(d) PROVE d.journal.op \in 1 .. Len(issued)
  <2>1. d.journal.op \in Ops /\ Begun(d, d.journal.op)
    BY <1>3, <1>4, <1>7 DEF Unfinished, Begun
  <2> QED
    BY <1>2, <1>5, <2>1
<1>8. ASSUME NEW d \in Disks, Len(issued) # NOps PROVE ~Begun(d, Len(issued) + 1)
  <2>1. Len(issued) + 1 \in Ops /\ ~(Len(issued) + 1 <= Len(issued))
    BY <1>1, <1>8, OpsAssumption DEF Ops
  <2> QED
    BY <1>2, <2>1
<1> QED
  BY <1>1, <1>6, <1>7, <1>8

DisksStay == Disk' = Disk /\ stable' = stable

\* The outcome of a handoff that began nothing is written on its request.
LEMMA FinishBooks ==
  ASSUME IInv, DisksStay, handoff.state \in Finished, Finish(handoff.state),
         UNCHANGED <<handoff, fence, issued>>
  PROVE  /\ IssuedInv' /\ RequestInv' /\ HandoffDisks' /\ PendingInv' /\ FenceDisks'
<1>1. BookInv /\ RecordTypes
  BY DEF IInv, HandoffInv
<1>2. handoff.key \in Keys
  BY <1>1, KeysAtWork DEF Finished, IInv
<1>3. \A k \in Keys : \/ requests'[k] = requests[k]
                      \/ /\ k = handoff.key /\ requests[k].op = handoff.op
                         /\ requests'[k].state = handoff.state /\ requests'[k].op = handoff.op
  BY <1>1, <1>2, FinishMarks
<1>4. Disks' = Disks /\ handoff' = handoff /\ fence' = fence /\ issued' = issued
  BY DEF Disks, DisksStay
<1>5. IssuedInv'
  BY <1>1, <1>3, <1>4 DEF BookInv, IssuedInv, Finished
<1>6. RequestInv'
  <2> SUFFICES ASSUME NEW k \in Keys, NEW d \in Disks
               PROVE  /\ requests'[k].state = "verified" => requests'[k].op \in Replaced(d)
                      /\ requests'[k].state \in Finished => ~Begun(d, requests'[k].op)
                      /\ requests'[k].state = "requested" /\ k \notin OfflineKeys =>
                           ~Begun(d, requests'[k].op)
                             \/ (handoff.state = "executing" /\ handoff.key = k)
    BY <1>4 DEF RequestInv
  <2>1. ~Begun(d, handoff.op)
    BY <1>1 DEF BookInv, HandoffDisks
  <2> QED
    BY <1>1, <1>3, <2>1 DEF BookInv, RequestInv, Finished
<1>7. HandoffDisks'
  BY <1>1, <1>4 DEF BookInv, HandoffDisks
<1>8. PendingInv'
  BY <1>4 DEF PendingInv, Pending, Finished
<1>9. FenceDisks'
  BY <1>1, <1>4 DEF BookInv, FenceDisks, Excused
<1> QED
  BY <1>5, <1>6, <1>7, <1>8, <1>9

\* A request is written, under an operation of its own.
LEMMA RequestBooks ==
  ASSUME IInv, DisksStay, NEW k \in Keys, Request(k), Len(issued) < NOps,
         handoff.state \in Pending => handoff.key # k, UNCHANGED <<handoff, fence>>
  PROVE  IssuedInv' /\ RequestInv' /\ HandoffDisks' /\ PendingInv' /\ FenceDisks'
<1>1. BookInv /\ RecordTypes
  BY DEF IInv, HandoffInv
<1>2. Disks' = Disks /\ handoff' = handoff /\ fence' = fence
  BY DEF Disks, DisksStay
<1>3. /\ \A i \in 1 .. Len(issued) : issued'[i] = issued[i] /\ i \in 1 .. Len(issued')
      /\ Len(issued) <= Len(issued') /\ Len(issued) \in Nat /\ Len(issued') \in Nat
  BY RequestIssues, OnDiskIssued DEF IInv
<1>4. /\ \A j \in Keys \ {k} : requests'[j] = requests[j]
      /\ \/ requests' = requests
         \/ /\ requests'[k].state = "requested" /\ requests'[k].op = Len(issued) + 1
            /\ Len(issued) + 1 \in 1 .. Len(issued') /\ issued'[Len(issued) + 1] = k
            /\ \A d \in Disks : ~Begun(d, Len(issued) + 1)
  <2>1. \A d \in Disks : ~Begun(d, Len(issued) + 1)
    BY OnDiskIssued
  <2> QED
    BY <1>3, <2>1, RequestIssues DEF IInv
<1>5. IssuedInv'
  <2>1. \A j \in Keys : requests'[j].state # "none" =>
          requests'[j].op \in 1 .. Len(issued') /\ issued'[requests'[j].op] = j
    BY <1>1, <1>3, <1>4 DEF BookInv, IssuedInv
  <2>2. handoff.state # "none" =>
          /\ handoff.key \in Keys \ OfflineKeys
          /\ handoff.op \in 1 .. Len(issued') /\ issued'[handoff.op] = handoff.key
    BY <1>1, <1>3 DEF BookInv, IssuedInv
  <2>3. \A d \in Disks, o \in Ops : Begun(d, o) => o <= Len(issued')
    BY <1>1, <1>3, OpsAssumption DEF BookInv, IssuedInv, Ops
  <2> QED
    BY <1>2, <2>1, <2>2, <2>3 DEF IssuedInv
<1>6. RequestInv'
  BY <1>1, <1>2, <1>4 DEF BookInv, RequestInv, Finished
<1>7. HandoffDisks'
  BY <1>1, <1>2 DEF BookInv, HandoffDisks
<1>8. PendingInv'
  <2>1. handoff.state \in Pending => requests'[handoff.key] = requests[handoff.key]
    <3>1. handoff.state \in Pending => handoff.key \in Keys
      BY KeysAtWork DEF IInv, Pending
    <3> QED
      BY <1>4, <3>1
  <2> QED
    BY <1>1, <1>2, <2>1 DEF BookInv, PendingInv, Pending
<1>9. FenceDisks'
  <2>1. \A g \in 1 .. Len(issued) : Excused(g) => Excused(g)'
    BY <1>2, <1>3 DEF Excused
  <2> QED
    BY <1>1, <1>2, <2>1, OnDiskIssued DEF BookInv, FenceDisks
<1> QED
  BY <1>5, <1>6, <1>7, <1>8, <1>9

\* Only the handoff record is written: its state, unless it began something.
LEMMA HandoffBooks ==
  ASSUME IInv, DisksStay, UNCHANGED <<requests, fence, issued>>,
         handoff' = handoff
           \/ (handoff.state \in {"requested", "maintenance"}
                 /\ \E s \in {"maintenance", "executing"} \cup Finished :
                      handoff' = [handoff EXCEPT !.state = s])
  PROVE  IssuedInv' /\ RequestInv' /\ HandoffDisks' /\ PendingInv' /\ FenceDisks'
<1>1. BookInv /\ RecordTypes
  BY DEF IInv, HandoffInv
<1>2. Disks' = Disks /\ requests' = requests /\ fence' = fence /\ issued' = issued
  BY DEF Disks, DisksStay
<1>3. CASE handoff' = handoff
  BY <1>1, <1>2, <1>3
     DEF BookInv, IssuedInv, RequestInv, HandoffDisks, PendingInv, FenceDisks, Excused
<1>4. CASE handoff' # handoff
  <2>1. PICK s \in {"maintenance", "executing"} \cup Finished :
          handoff' = [state |-> s, key |-> handoff.key, op |-> handoff.op]
    BY <1>1, <1>4, HandoffFields
  <2>2. handoff'.state = s /\ handoff'.key = handoff.key /\ handoff'.op = handoff.op
    BY <2>1
  <2>3. /\ handoff.state \in {"requested", "maintenance"}
        /\ handoff.key \in Keys /\ handoff.key \notin OfflineKeys
        /\ requests[handoff.key].op = handoff.op /\ requests[handoff.key].state = "requested"
    BY <1>1, <1>4, KeysAtWork DEF BookInv, IssuedInv, PendingInv, Pending, IInv
  <2>4. \A d \in Disks : ~Begun(d, handoff.op)
    BY <1>1, <2>3 DEF BookInv, RequestInv
  <2>5. IssuedInv'
    BY <1>1, <1>2, <2>2, <2>3 DEF BookInv, IssuedInv
  <2>6. RequestInv'
    BY <1>1, <1>2, <2>2, <2>3, <2>4 DEF BookInv, RequestInv
  <2>7. HandoffDisks'
    BY <1>2, <2>2, <2>4 DEF HandoffDisks, Finished
  <2>8. PendingInv'
    BY <1>2, <2>2, <2>3 DEF PendingInv, Pending
  <2>9. FenceDisks'
    BY <1>1, <1>2, <2>2, <2>3 DEF BookInv, FenceDisks, Excused
  <2> QED
    BY <2>5, <2>6, <2>7, <2>8, <2>9
<1> QED
  BY <1>3, <1>4

\* The places a process can be in when it leaves the disk alone.
LEMMA Rest ==
  ASSUME IInv, UNCHANGED diskVars,
         \/ pc' = pc
         \/ pc' \in {"off", "boot", "recover", "failing", "stopped"}
         \/ pc = "owned" /\ pc' = "prepare"
         \/ pc \in OpenPcs /\ pc' \in OpenPcs
  PROVE  RecoveryInv' /\ DisksStay
BY Elsewhere DEF IInv, DisksStay

\* While a restore is being admitted no handoff is pending.
LEMMA AdmittingAlone ==
  ASSUME IInv, admit.stage # "idle"
  PROVE  /\ admit.key \in Keys /\ admit.key \notin OfflineKeys /\ pc = "serving" /\ ~busy
         /\ handoff.state \notin Pending /\ task = "open"
BY KeysAtWork DEF IInv, HandoffInv, BookInv, TaskInv, OpenPcs

LEMMA AdmissionBooks ==
  ASSUME IInv,
         \/ \E k \in Keys : AdmitBegin(k)
         \/ AdmitPrepare \/ AdmitVerify \/ AdmitPublish \/ AdmitAccept
  PROVE  RecoveryInv' /\ BookInv'
<1>1. BookInv /\ RecordTypes
  BY DEF IInv, HandoffInv
<1>2. RecoveryInv' /\ DisksStay /\ pc = "serving" /\ pc' = pc /\ Disks' = Disks
      /\ UNCHANGED <<fence, task, target, closing>>
  <2>1. UNCHANGED <<diskVars, pc>> /\ pc = "serving" /\ UNCHANGED <<fence, task, target, closing>>
    BY DEF AdmitBegin, AdmitPrepare, AdmitVerify, AdmitPublish, AdmitAccept, recoveryVars, diskVars,
           records
  <2> QED
    BY <2>1, Rest DEF Disks, DisksStay
<1>3. task = "open" /\ handoff.state # "executing"
  BY <1>1, <1>2 DEF BookInv, TaskInv, FenceInv, OpenPcs
<1>i. Idle.stage = "idle"
  BY DEF Idle
<1>4. ASSUME NEW k \in Keys, AdmitBegin(k) PROVE BookInv'
  <2>1. /\ admit' = [stage |-> "prepare", key |-> k] /\ k \notin OfflineKeys /\ ~busy
        /\ UNCHANGED <<handoff, issued, busy>>
    BY <1>4 DEF AdmitBegin
  <2>2. handoff.state \notin Pending
    BY <1>1, <1>2, <2>1 DEF BookInv, TaskInv
  <2>3. IssuedInv' /\ RequestInv' /\ HandoffDisks' /\ PendingInv' /\ FenceDisks'
    <3>1. CASE handoff.state \in Finished
      BY <1>2, <1>4, <2>1, <3>1, FinishBooks DEF AdmitBegin
    <3>2. CASE handoff.state \notin Finished
      <4>1. UNCHANGED requests
        BY <1>4, <3>2 DEF AdmitBegin
      <4> QED
        BY <1>2, <2>1, <4>1, HandoffBooks
    <3> QED BY <3>1, <3>2
  <2>4. TaskInv'
    BY <1>1, <1>2, <1>3, <2>1, <2>2 DEF BookInv, TaskInv, OpenPcs, Pending
  <2>5. FenceInv'
    BY <1>1, <1>2, <2>1 DEF BookInv, FenceInv
  <2> QED
    BY <2>3, <2>4, <2>5 DEF BookInv
<1>5. CASE AdmitPrepare \/ AdmitVerify \/ AdmitPublish
  <2>1. /\ admit.stage # "idle" /\ UNCHANGED <<handoff, busy>>
        /\ admit.stage \in {"prepare", "verify", "publish"}
    BY <1>5 DEF AdmitPrepare, AdmitVerify, AdmitPublish, records
  <2>2. /\ admit.key \in Keys /\ admit.key \notin OfflineKeys /\ ~busy /\ handoff.state \notin Pending
    BY <2>1, AdmittingAlone
  <2>3. \/ Request(admit.key) /\ admit'.stage = "accept" /\ admit'.key = admit.key
        \/ /\ UNCHANGED <<requests, issued>> /\ admit'.stage \in {"idle", "verify", "publish"}
           /\ admit'.stage # "idle" => admit'.key = admit.key
    <3>1. \A s : [admit EXCEPT !.stage = s] = [stage |-> s, key |-> admit.key]
      BY <1>1, HandoffFields
    <3>2. CASE AdmitPrepare
      BY <1>i, <3>1, <3>2 DEF AdmitPrepare
    <3>3. CASE AdmitVerify
      BY <1>i, <3>1, <3>3 DEF AdmitVerify, records
    <3>4. CASE AdmitPublish
      BY <1>i, <3>1, <3>4 DEF AdmitPublish
    <3> QED BY <1>5, <3>2, <3>3, <3>4
  <2>4. IssuedInv' /\ RequestInv' /\ HandoffDisks' /\ PendingInv' /\ FenceDisks'
    <3>1. CASE Request(admit.key)
      <4>1. Len(issued) < NOps
        BY <1>1, <2>1 DEF RecordTypes
      <4> QED
        BY <1>2, <2>1, <2>2, <3>1, <4>1, RequestBooks
    <3>2. CASE UNCHANGED <<requests, issued>>
      BY <1>2, <2>1, <3>2, HandoffBooks
    <3> QED BY <2>3, <3>1, <3>2
  <2>5. admit'.stage = "accept" => requests'[admit'.key].state \in {"requested", "verified"}
    <3>1. CASE Request(admit.key) /\ admit'.stage = "accept" /\ admit'.key = admit.key
      <4>1. Len(issued) < NOps
        BY <1>1, <2>1 DEF RecordTypes
      <4> QED
        BY <2>2, <3>1, <4>1, RequestIssues DEF IInv
    <3> QED BY <2>3, <3>1
  <2>6. TaskInv'
    BY <1>1, <1>2, <1>3, <2>1, <2>2, <2>3, <2>5 DEF BookInv, TaskInv, OpenPcs, Pending
  <2>7. FenceInv'
    BY <1>1, <1>2, <2>1 DEF BookInv, FenceInv
  <2> QED
    BY <1>2, <2>4, <2>6, <2>7 DEF BookInv
<1>6. CASE AdmitAccept
  <2>1. /\ admit.stage = "accept" /\ admit' = Idle /\ UNCHANGED <<requests, issued>>
    BY <1>6 DEF AdmitAccept
  <2>2. /\ admit.key \in Keys /\ admit.key \notin OfflineKeys /\ ~busy /\ handoff.state \notin Pending
        /\ requests[admit.key].state \in {"requested", "verified"}
    BY <1>1, <2>1, AdmittingAlone DEF BookInv, TaskInv
  <2>3. CASE UNCHANGED <<handoff, busy>>
    <3>1. IssuedInv' /\ RequestInv' /\ HandoffDisks' /\ PendingInv' /\ FenceDisks'
      BY <1>2, <2>1, <2>3, HandoffBooks
    <3>2. TaskInv'
      BY <1>1, <1>2, <1>3, <1>i, <2>1, <2>2, <2>3 DEF BookInv, TaskInv, OpenPcs
    <3>3. FenceInv'
      BY <1>1, <1>2, <2>3 DEF BookInv, FenceInv
    <3> QED
      BY <1>2, <3>1, <3>2, <3>3 DEF BookInv
  <2>4. CASE ~UNCHANGED <<handoff, busy>>
    <3>1. /\ handoff'.state = "requested" /\ handoff'.key = admit.key
          /\ handoff'.op = requests[admit.key].op /\ busy' = TRUE
          /\ requests[admit.key].state = "requested"
      BY <1>6, <2>2, <2>4 DEF AdmitAccept
    <3>2. IssuedInv'
      BY <1>1, <1>2, <2>1, <2>2, <3>1 DEF BookInv, IssuedInv
    <3>3. RequestInv'
      BY <1>1, <1>2, <1>3, <2>1, <3>1 DEF BookInv, RequestInv
    <3>4. HandoffDisks' /\ PendingInv'
      BY <2>1, <3>1 DEF HandoffDisks, PendingInv, Pending, Finished
    <3>5. FenceDisks'
      BY <1>1, <1>2, <1>3, <2>1, <3>1 DEF BookInv, FenceDisks, Excused
    <3>6. TaskInv'
      BY <1>1, <1>2, <1>3, <1>i, <2>1, <2>2, <3>1 DEF BookInv, TaskInv, OpenPcs
    <3>7. FenceInv'
      BY <1>1, <1>2, <3>1 DEF BookInv, FenceInv
    <3> QED
      BY <1>2, <3>2, <3>3, <3>4, <3>5, <3>6, <3>7 DEF BookInv
  <2> QED BY <2>3, <2>4
<1> QED
  BY <1>2, <1>4, <1>5, <1>6

LEMMA LaunchBooks ==
  ASSUME IInv, Launch \/ Drain \/ Drained PROVE RecoveryInv' /\ BookInv'
<1>1. BookInv /\ RecordTypes
  BY DEF IInv, HandoffInv
<1>2. RecoveryInv' /\ DisksStay /\ Disks' = Disks /\ requests' = requests /\ fence' = fence
      /\ issued' = issued
  <2>1. /\ UNCHANGED diskVars /\ UNCHANGED <<requests, fence, issued>>
        /\ \/ pc \in OpenPcs /\ pc' \in OpenPcs
           \/ pc' \in {"off", "recover", "failing"}
    BY DEF Launch, Drain, Drained, OpenPcs, Ends
  <2> QED
    BY <2>1, Rest DEF Disks, DisksStay
<1>3. \A s : [handoff EXCEPT !.state = s].state = s /\ [handoff EXCEPT !.state = s].key = handoff.key
  BY <1>1, HandoffFields
<1>4. CASE Launch
  <2>1. /\ pc = "serving" /\ busy /\ handoff.state = "requested" /\ UNCHANGED volatile
        /\ \/ handoff' = [handoff EXCEPT !.state = "maintenance"] /\ pc' = "launched"
           \/ handoff' = [handoff EXCEPT !.state = "failed"] /\ pc' = "failing"
    BY <1>4 DEF Launch
  <2>2. (handoff'.state = "maintenance" /\ pc' = "launched") \/ (handoff'.state = "failed" /\ pc' = "failing")
    BY <1>3, <2>1
  <2>3. IssuedInv' /\ RequestInv' /\ HandoffDisks' /\ PendingInv' /\ FenceDisks'
    BY <1>2, <2>1, HandoffBooks DEF Finished
  <2>4. TaskInv'
    BY <1>1, <1>2, <2>1, <2>2 DEF BookInv, TaskInv, OpenPcs, volatile
  <2>5. FenceInv'
    BY <2>2 DEF FenceInv
  <2> QED
    BY <1>2, <2>3, <2>4, <2>5 DEF BookInv
<1>5. CASE Drain
  <2>1. pc = "launched" /\ handoff.state = "maintenance" /\ task = "open"
    BY <1>1, <1>5 DEF BookInv, TaskInv, Drain, OpenPcs
  <2>2. \/ pc' = "draining" /\ UNCHANGED <<handoff, task, target, admit, busy>>
        \/ Ends /\ handoff' = [handoff EXCEPT !.state = "executing"]
    BY <1>5 DEF Drain
  <2>3. IssuedInv' /\ RequestInv' /\ HandoffDisks' /\ PendingInv' /\ FenceDisks'
    BY <1>2, <2>1, <2>2, HandoffBooks
  <2>4. TaskInv' /\ FenceInv'
    <3>1. CASE pc' = "draining" /\ UNCHANGED <<handoff, task, target, admit, busy>>
      BY <1>1, <1>2, <2>1, <3>1 DEF BookInv, TaskInv, FenceInv, OpenPcs
    <3>2. CASE Ends /\ handoff' = [handoff EXCEPT !.state = "executing"]
      BY <1>3, <3>2 DEF TaskInv, FenceInv, OpenPcs, Ends, Idle
    <3> QED BY <2>2, <3>1, <3>2
  <2> QED
    BY <1>2, <2>3, <2>4 DEF BookInv
<1>6. CASE Drained
  <2>1. pc = "draining" /\ handoff.state = "maintenance" /\ task = "open" /\ UNCHANGED <<admit, busy>>
    BY <1>1, <1>6 DEF BookInv, TaskInv, Drained, OpenPcs
  <2>2. \/ /\ handoff' = [handoff EXCEPT !.state = "executing"]
           /\ task' = "handoff" /\ target' = handoff.key /\ pc' = "recover"
        \/ /\ handoff' = [handoff EXCEPT !.state = "failed"]
           /\ pc' = "failing" /\ UNCHANGED <<task, target>>
    BY <1>6 DEF Drained
  <2>3. IssuedInv' /\ RequestInv' /\ HandoffDisks' /\ PendingInv' /\ FenceDisks'
    BY <1>2, <2>1, <2>2, HandoffBooks DEF Finished
  <2>4. requests[handoff.key].state = "requested"
    BY <1>1, <2>1 DEF BookInv, PendingInv
  <2>5. CASE /\ handoff' = [handoff EXCEPT !.state = "executing"]
             /\ task' = "handoff" /\ target' = handoff.key /\ pc' = "recover"
    <3>1. handoff'.state = "executing" /\ handoff'.key = handoff.key
      BY <1>3, <2>5
    <3>2. TaskInv' /\ FenceInv'
      BY <1>1, <1>2, <2>1, <2>4, <2>5, <3>1 DEF BookInv, TaskInv, FenceInv, OpenPcs
    <3> QED
      BY <1>2, <2>3, <3>2 DEF BookInv
  <2>6. CASE /\ handoff' = [handoff EXCEPT !.state = "failed"]
             /\ pc' = "failing" /\ UNCHANGED <<task, target>>
    <3>1. handoff'.state = "failed"
      BY <1>3, <2>6
    <3>2. TaskInv' /\ FenceInv'
      BY <1>1, <1>2, <2>1, <2>6, <3>1 DEF BookInv, TaskInv, FenceInv, OpenPcs
    <3> QED
      BY <1>2, <2>3, <3>2 DEF BookInv
  <2> QED
    BY <2>2, <2>5, <2>6
<1> QED
  BY <1>4, <1>5, <1>6

LEMMA EndingBooks ==
  ASSUME IInv, Failing \/ Signal \/ SignalExit \/ Start PROVE RecoveryInv' /\ BookInv'
<1>1. BookInv /\ RecordTypes
  BY DEF IInv, HandoffInv
<1>2. RecoveryInv' /\ DisksStay /\ UNCHANGED <<handoff, fence, issued>>
  <2>1. /\ UNCHANGED diskVars /\ UNCHANGED <<handoff, fence, issued>>
        /\ pc' = pc \/ pc' \in {"off", "boot"}
    BY DEF Failing, Signal, SignalExit, Start, Ends, recoveryVars, diskVars, records
  <2> QED
    BY <2>1, Rest
<1>3. IssuedInv' /\ RequestInv' /\ HandoffDisks' /\ PendingInv' /\ FenceDisks'
  <2>1. CASE Failing
    <3>1. handoff.state = "failed"
      BY <1>1, <2>1 DEF BookInv, TaskInv, Failing
    <3> QED
      BY <1>2, <2>1, <3>1, FinishBooks DEF Failing, Finished
  <2>2. CASE Signal \/ SignalExit \/ Start
    <3>1. requests' = requests
      BY <2>2 DEF Signal, SignalExit, Start, records
    <3> QED
      BY <1>2, <3>1, HandoffBooks
  <2> QED BY <2>1, <2>2
<1>4. TaskInv' /\ FenceInv'
  <2>1. CASE Failing \/ SignalExit
    BY <1>1, <1>2, <2>1 DEF Failing, SignalExit, Ends, Idle, BookInv, TaskInv, FenceInv, OpenPcs
  <2>2. CASE Signal
    BY <1>1, <1>2, <2>2 DEF Signal, recoveryVars, diskVars, records, BookInv, TaskInv, FenceInv, OpenPcs
  <2>3. CASE Start
    BY <1>1, <1>2, <2>3 DEF Start, records, volatile, BookInv, TaskInv, FenceInv, OpenPcs
  <2> QED BY <2>1, <2>2, <2>3
<1> QED
  BY <1>2, <1>3, <1>4 DEF BookInv

LEMMA ExecuteBooks ==
  ASSUME IInv, Execute PROVE RecoveryInv' /\ BookInv'
<1> USE DiskFields
<1>1. BookInv /\ RecordTypes /\ RecoveryInv /\ pc = "owned" /\ task # "open"
  BY DEF IInv, HandoffInv, Execute
<1>2. RecoveryInv' /\ DisksStay /\ Disks' = Disks /\ UNCHANGED <<handoff, fence, issued>>
  <2>1. /\ UNCHANGED diskVars /\ UNCHANGED <<handoff, fence, issued>>
        /\ pc' \in {"off", "boot", "recover", "stopped", "prepare"}
    BY DEF Execute, Ends
  <2> QED
    BY <1>1, <2>1, Rest DEF Disks, DisksStay
<1>3. /\ target \in Keys /\ requests[target].state \in {"requested", "verified"}
      /\ task \in {"execute", "handoff", "offline"} /\ admit.stage = "idle"
      /\ task \in {"handoff", "execute"} => handoff.state = "executing" /\ target = handoff.key
      /\ task = "offline" => handoff.state # "executing" /\ target \in OfflineKeys
  BY <1>1, KeysAtWork DEF IInv, BookInv, TaskInv, RecordTypes
<1>4. CASE requests[target].state = "verified" \/ Reached(requests[target].op)
  <2>1. \A d \in Disks : requests[target].op \in Replaced(d)
    <3>1. CASE requests[target].state = "verified"
      BY <1>1, <1>3, <3>1 DEF BookInv, RequestInv
    <3>2. CASE Reached(requests[target].op)
      <4>1. requests[target].op \in Replaced(Disk)
        BY <3>2 DEF Reached, Replaced
      <4>2. ~Unfinished(stable)
        BY <1>1 DEF RecoveryInv, PcInv, SettledPcs
      <4>3. Replaced(Disk) = Replaced(stable)
        BY <1>1, <4>2 DEF RecoveryInv, DisksInv, PairInv
      <4> QED
        BY <4>1, <4>3 DEF Disks
    <3> QED BY <1>4, <3>1, <3>2
  <2>2. requests' = [requests EXCEPT ![target].state = "verified"]
    BY <1>4 DEF Execute
  <2>3. /\ \A k \in Keys \ {target} : requests'[k] = requests[k]
        /\ requests'[target].state = "verified" /\ requests'[target].op = requests[target].op
    BY <1>1, <1>3, <2>2, RequestFields DEF RecordTypes
  <2>4. IssuedInv'
    BY <1>1, <1>2, <1>3, <2>3 DEF BookInv, IssuedInv
  <2>5. RequestInv'
    BY <1>1, <1>2, <2>1, <2>3 DEF BookInv, RequestInv, Finished
  <2>6. HandoffDisks' /\ FenceDisks'
    BY <1>1, <1>2 DEF BookInv, HandoffDisks, FenceDisks, Excused
  <2>7. PendingInv'
    <3>1. handoff.state \in Pending => handoff.key \in Keys
      BY KeysAtWork DEF IInv, Pending
    <3>2. handoff.state \in {"requested", "maintenance"} => handoff.key # target
      <4>1. handoff.state # "none" => handoff.key \notin OfflineKeys
        BY <1>1 DEF BookInv, IssuedInv
      <4> QED
        BY <1>3, <4>1
    <3> QED
      BY <1>1, <1>2, <2>3, <3>1, <3>2 DEF BookInv, PendingInv, Pending
  <2>8. \/ task = "offline" /\ Ends
        \/ /\ pc' = (IF task = "handoff" THEN "boot" ELSE "recover") /\ task # "offline"
           /\ task' = "open" /\ target' = NoKey /\ busy' = FALSE /\ UNCHANGED admit
    BY <1>4 DEF Execute
  <2>9. TaskInv' /\ FenceInv'
    <3>1. CASE task = "offline" /\ Ends
      BY <1>1, <1>2, <3>1 DEF Ends, Idle, BookInv, TaskInv, FenceInv, OpenPcs
    <3>2. CASE /\ pc' = (IF task = "handoff" THEN "boot" ELSE "recover") /\ task # "offline"
               /\ task' = "open" /\ target' = NoKey /\ busy' = FALSE /\ UNCHANGED admit
      BY <1>1, <1>2, <1>3, <2>3, <3>2 DEF BookInv, TaskInv, FenceInv, OpenPcs
    <3> QED BY <2>8, <3>1, <3>2
  <2> QED
    BY <1>2, <2>4, <2>5, <2>6, <2>7, <2>9 DEF BookInv
<1>5. CASE ~(requests[target].state = "verified" \/ Reached(requests[target].op))
  <2>1. /\ UNCHANGED <<requests, volatile>>
        /\ pc' = IF requests[target].op \in archived \cup {journal.op} THEN "stopped" ELSE "prepare"
    BY <1>5 DEF Execute
  <2>2. IssuedInv' /\ RequestInv' /\ HandoffDisks' /\ PendingInv' /\ FenceDisks'
    BY <1>2, <2>1, HandoffBooks
  <2>3. pc' = "prepare" => ~Begun(Disk, requests[target].op)
    BY <2>1 DEF Begun
  <2>4. TaskInv' /\ FenceInv'
    BY <1>1, <1>2, <1>3, <2>1, <2>3 DEF DisksStay, volatile, BookInv, TaskInv, FenceInv, OpenPcs
  <2> QED
    BY <1>2, <2>2, <2>4 DEF BookInv
<1> QED
  BY <1>4, <1>5

LEMMA BootBooks ==
  ASSUME IInv, Boot PROVE RecoveryInv' /\ BookInv'
<1>1. BookInv /\ RecordTypes /\ pc = "boot"
  BY DEF IInv, HandoffInv, Boot
<1>2. RecoveryInv' /\ DisksStay /\ UNCHANGED <<fence, issued, admit, busy>>
  <2>1. UNCHANGED diskVars /\ pc' \in {"boot", "recover"} /\ UNCHANGED <<fence, issued, admit, busy>>
    BY DEF Boot
  <2> QED
    BY <2>1, Rest
<1>3. task = "open" /\ ~busy /\ admit.stage = "idle"
  BY <1>1 DEF BookInv, TaskInv
<1>4. CASE handoff.state = "executing"
  <2>1. /\ task' = "execute" /\ target' = handoff.key /\ pc' = "recover"
        /\ UNCHANGED <<requests, handoff>>
    BY <1>4 DEF Boot, Finished
  <2>2. requests[handoff.key].state \in {"requested", "verified"}
    BY <1>1, <1>4 DEF BookInv, PendingInv, Pending
  <2>3. IssuedInv' /\ RequestInv' /\ HandoffDisks' /\ PendingInv' /\ FenceDisks'
    BY <1>2, <2>1, HandoffBooks
  <2>4. TaskInv' /\ FenceInv'
    BY <1>1, <1>2, <1>3, <1>4, <2>1, <2>2 DEF BookInv, TaskInv, FenceInv, OpenPcs
  <2> QED
    BY <1>2, <2>3, <2>4 DEF BookInv
<1>5. CASE handoff.state \in {"requested", "maintenance"}
  <2>1. /\ handoff' = [handoff EXCEPT !.state = "interrupted"]
        /\ UNCHANGED <<requests, task, target, pc>>
    BY <1>5 DEF Boot, Finished
  <2>2. handoff'.state = "interrupted"
    BY <1>1, <2>1, HandoffFields
  <2>3. IssuedInv' /\ RequestInv' /\ HandoffDisks' /\ PendingInv' /\ FenceDisks'
    BY <1>2, <1>5, <2>1, HandoffBooks DEF Finished
  <2>4. TaskInv' /\ FenceInv'
    BY <1>1, <1>2, <1>3, <2>1, <2>2 DEF BookInv, TaskInv, FenceInv, OpenPcs
  <2> QED
    BY <1>2, <2>3, <2>4 DEF BookInv
<1>6. CASE handoff.state \in Finished \cup {"none", "verified"}
  <2>1. pc' = "recover" /\ UNCHANGED <<handoff, task, target>>
    BY <1>6 DEF Boot, Finished
  <2>2. IssuedInv' /\ RequestInv' /\ HandoffDisks' /\ PendingInv' /\ FenceDisks'
    <3>1. CASE handoff.state \in Finished
      <4>1. Finish(handoff.state)
        BY <3>1 DEF Boot, Finished
      <4> QED
        BY <1>2, <2>1, <3>1, <4>1, FinishBooks
    <3>2. CASE handoff.state \in {"none", "verified"}
      <4>1. requests' = requests
        BY <3>2 DEF Boot, Finished
      <4> QED
        BY <1>2, <2>1, <4>1, HandoffBooks
    <3> QED BY <1>6, <3>1, <3>2
  <2>3. TaskInv' /\ FenceInv'
    BY <1>1, <1>2, <1>3, <1>6, <2>1 DEF BookInv, TaskInv, FenceInv, OpenPcs, Finished
  <2> QED
    BY <1>2, <2>2, <2>3 DEF BookInv
<1> QED
  BY <1>1, <1>4, <1>5, <1>6, HandoffFields DEF Pending

LEMMA OfflineBooks ==
  ASSUME IInv, NEW k \in Keys, OfflineRestore(k) PROVE RecoveryInv' /\ BookInv'
<1>1. BookInv /\ RecordTypes
  BY DEF IInv, HandoffInv
<1>2. /\ pc = "off" /\ k \in OfflineKeys /\ Len(issued) < NOps /\ handoff.state # "executing"
      /\ Request(k) /\ task' = "offline" /\ target' = k /\ pc' = "recover"
      /\ UNCHANGED <<diskVars, handoff, fence, admit, busy, closing>>
  BY DEF OfflineRestore
<1>3. RecoveryInv' /\ DisksStay
  BY <1>2, Rest
<1>4. handoff.state \in Pending => handoff.key # k
  BY <1>1, <1>2 DEF BookInv, IssuedInv, Pending
<1>5. IssuedInv' /\ RequestInv' /\ HandoffDisks' /\ PendingInv' /\ FenceDisks'
  BY <1>2, <1>3, <1>4, RequestBooks
<1>6. requests'[k].state \in {"requested", "verified"}
  BY <1>2, RequestIssues DEF IInv
<1>7. TaskInv' /\ FenceInv'
  BY <1>1, <1>2, <1>6 DEF BookInv, TaskInv, FenceInv, OpenPcs
<1> QED
  BY <1>3, <1>5, <1>7 DEF BookInv

-----------------------------------------------------------------------------
(* The steps of an open database, and a crash.                                *)

LEMMA OpenBooks ==
  ASSUME IInv, Open PROVE RecoveryInv' /\ BookInv'
<1>1. BookInv /\ RecordTypes /\ RecoveryInv
  BY DEF IInv, HandoffInv
<1>2. RecoveryInv' /\ Quiet
  BY <1>1, OpenKeeps
<1>3. /\ pc = "owned" /\ task = "open" /\ UNCHANGED <<records, volatile>>
      /\ pc' = IF handoff.state = "executing" THEN "fence" ELSE "serving"
  BY DEF Open
<1>4. handoff.state \in Pending => handoff.state = "executing"
  BY <1>1, <1>3 DEF BookInv, TaskInv, Pending
<1>5. TaskInv' /\ FenceInv'
  BY <1>1, <1>3, <1>4 DEF records, volatile, BookInv, TaskInv, FenceInv, OpenPcs
<1> QED
  BY <1>1, <1>2, <1>3, <1>5, QuietBooks DEF BookInv

\* An executing handoff that opens its database opens what it restored.
LEMMA FencedIsRestored ==
  ASSUME IInv, pc \in {"fence", "revoke", "acknowledge"}
  PROVE  handoff.state = "executing" /\ Installed = handoff.op /\ ~Unfinished(Disk) /\ ~Unfinished(stable)
         /\ \A d \in Disks : handoff.op \in Replaced(d)
<1> USE DiskFields
<1>1. BookInv /\ RecoveryInv
  BY DEF IInv, HandoffInv
<1>2. handoff.state = "executing" /\ task = "open" /\ requests[handoff.key].state = "verified"
  BY <1>1 DEF BookInv, FenceInv, TaskInv, OpenPcs
<1>3. handoff.key \in Keys /\ requests[handoff.key].op = handoff.op
  BY <1>1, <1>2, KeysAtWork DEF IInv, BookInv, PendingInv, Pending
<1>4. \A d \in Disks : handoff.op \in Replaced(d)
  BY <1>1, <1>2, <1>3 DEF BookInv, RequestInv
<1>5. journal.op = handoff.op
  BY <1>1, <1>2, <1>4, BegunFacts DEF BookInv, HandoffDisks, Disks
<1>6. journal.verified
  BY <1>1, <1>4, <1>5 DEF Disks, Replaced, RecoveryInv, DisksInv, DiskInv
<1>7. Installed = journal.op
  BY <1>1, <1>6 DEF RecoveryInv, DisksInv, DiskInv, Installed
<1>8. ~Unfinished(Disk) /\ ~Unfinished(stable)
  BY <1>1 DEF RecoveryInv, PcInv, SettledPcs, OpenPcs
<1> QED
  BY <1>2, <1>4, <1>5, <1>7, <1>8

LEMMA WriteBooks ==
  ASSUME IInv, Fence \/ Write PROVE RecoveryInv' /\ BookInv'
<1>1. BookInv /\ RecordTypes /\ RecoveryInv
  BY DEF IInv, HandoffInv
<1>2. WriteDatabase /\ pc \in OpenPcs /\ pc' \in OpenPcs
  BY DEF Fence, Write, OpenPcs
<1>3. /\ RecoveryInv' /\ Quiet
      /\ Base(stable)[Database].gen = Installed /\ Base(Disk)[Database].gen = Installed
      /\ Installed \in Gens
  BY <1>1, <1>2, WriteKeeps
<1>4. CASE Write
  <2>1. UNCHANGED <<pc, records, volatile>>
    BY <1>4 DEF Write
  <2>2. TaskInv' /\ FenceInv'
    BY <1>1, <1>2, <2>1 DEF records, volatile, BookInv, TaskInv, FenceInv, OpenPcs
  <2> QED
    BY <1>1, <1>3, <2>1, <2>2, QuietBooks DEF BookInv
<1>5. CASE Fence
  <2>1. /\ pc \in {"fence", "revoke"} /\ UNCHANGED <<requests, handoff, issued, volatile>>
        /\ fence' = [fence EXCEPT ![Installed] = IF pc = "fence" THEN "policy" ELSE "revoked"]
        /\ pc' = IF pc = "fence" THEN "revoke" ELSE "acknowledge"
    BY <1>5 DEF Fence
  <2>2. handoff.state = "executing" /\ Installed = handoff.op
    BY <2>1, FencedIsRestored
  <2>3. /\ \A g \in Gens \ {Installed} : fence'[g] = fence[g]
        /\ pc = "revoke" => fence'[Installed] = "revoked"
    BY <1>1, <1>3, <2>1 DEF RecordTypes
  <2>4. IssuedInv' /\ RequestInv' /\ HandoffDisks' /\ PendingInv'
    <3>1. \A e \in {Disk', stable'} : \E d \in Disks :
            /\ e.journal.op = d.journal.op
            /\ \A o : Begun(e, o) <=> Begun(d, o)
            /\ Replaced(e) = Replaced(d)
      BY <1>3, BegunFacts DEF Quiet, Alike
    <3>2. Disks' = {Disk', stable'}
      BY DEF Disks
    <3>3. IssuedInv'
      BY <1>1, <2>1, <3>1, <3>2 DEF BookInv, IssuedInv
    <3>4. RequestInv'
      BY <1>1, <2>1, <3>1, <3>2 DEF BookInv, RequestInv
    <3>5. HandoffDisks'
      BY <1>1, <2>1, <3>1, <3>2 DEF BookInv, HandoffDisks
    <3>6. PendingInv'
      BY <1>1, <2>1 DEF BookInv, PendingInv
    <3> QED BY <3>3, <3>4, <3>5, <3>6
  <2>5. FenceDisks'
    <3>1. ~Unfinished(Disk) /\ ~Unfinished(stable)
      BY <1>1, <1>2 DEF RecoveryInv, PcInv, SettledPcs
    <3>2. ASSUME NEW e \in {Disk', stable'}
          PROVE  Base(e)[Database].gen = handoff.op /\ ~Unfinished(e)
      <4>1. PICK d \in {Disk, stable} : Alike(d, e)
        BY <1>3 DEF Quiet, Disks
      <4>2. Base(e)[Database].gen = Base(d)[Database].gen /\ (Unfinished(e) <=> Unfinished(d))
        BY <4>1, BegunFacts DEF Alike
      <4> QED
        BY <1>3, <2>2, <3>1, <4>2
    <3>3. \A g : g = handoff.op => Excused(g)'
      BY <2>1, <2>2 DEF Excused
    <3> QED
      BY <3>2, <3>3 DEF FenceDisks, Disks
  <2>6. TaskInv' /\ FenceInv'
    BY <1>1, <2>1, <2>2, <2>3 DEF volatile, BookInv, TaskInv, FenceInv, OpenPcs
  <2> QED
    BY <1>3, <2>4, <2>5, <2>6 DEF BookInv
<1> QED
  BY <1>4, <1>5

LEMMA AcknowledgeBooks ==
  ASSUME IInv, Acknowledge PROVE RecoveryInv' /\ BookInv'
<1>1. BookInv /\ RecordTypes
  BY DEF IInv, HandoffInv
<1>2. /\ pc = "acknowledge" /\ pc' = "serving" /\ handoff' = [handoff EXCEPT !.state = "verified"]
      /\ UNCHANGED <<diskVars, requests, fence, issued, volatile>>
  BY DEF Acknowledge
<1>3. RecoveryInv' /\ DisksStay /\ Disks' = Disks
  BY <1>2, Rest DEF OpenPcs, Disks, DisksStay
<1>4. handoff'.state = "verified" /\ handoff'.key = handoff.key /\ handoff'.op = handoff.op
  BY <1>1, <1>2, HandoffFields
<1>5. /\ handoff.state = "executing" /\ ~Unfinished(Disk) /\ ~Unfinished(stable)
      /\ \A d \in Disks : handoff.op \in Replaced(d)
      /\ fence[handoff.op] = "revoked"
  BY <1>1, <1>2, FencedIsRestored DEF BookInv, FenceInv
<1>6. IssuedInv'
  BY <1>1, <1>2, <1>3, <1>4, <1>5 DEF BookInv, IssuedInv
<1>7. RequestInv'
  <2>1. requests[handoff.key].state = "verified"
    BY <1>1, <1>2, <1>5 DEF BookInv, TaskInv, OpenPcs
  <2> QED
    BY <1>1, <1>2, <1>3, <1>4, <1>5, <2>1 DEF BookInv, RequestInv
<1>8. HandoffDisks' /\ PendingInv'
  BY <1>3, <1>4, <1>5 DEF HandoffDisks, PendingInv, Pending, Finished
<1>9. FenceDisks'
  BY <1>1, <1>2, <1>3, <1>4, <1>5 DEF BookInv, FenceDisks, Excused, Disks
<1>10. TaskInv' /\ FenceInv'
  BY <1>1, <1>2, <1>4, <1>5 DEF volatile, BookInv, TaskInv, FenceInv, OpenPcs, Pending
<1> QED
  BY <1>3, <1>6, <1>7, <1>8, <1>9, <1>10 DEF BookInv

LEMMA CrashBooks ==
  ASSUME IInv, Crash PROVE RecoveryInv' /\ BookInv'
<1>1. BookInv /\ RecordTypes /\ RecoveryInv
  BY DEF IInv, HandoffInv
<1>2. RecoveryInv' /\ Quiet
  BY <1>1, CrashKeeps
<1>3. Ends /\ UNCHANGED records
  BY DEF Crash
<1>4. TaskInv' /\ FenceInv'
  BY <1>1, <1>3 DEF Ends, Idle, records, BookInv, TaskInv, FenceInv, OpenPcs
<1> QED
  BY <1>1, <1>2, <1>3, <1>4, QuietBooks DEF BookInv

\* A refused execution is a crash that loses no file.
LEMMA RefusalBooks ==
  ASSUME IInv, Refuse PROVE RecoveryInv' /\ BookInv'
<1>1. ~DatabaseOpen /\ file' = file /\ stable' = stable
  BY DEF Refuse, DatabaseOpen, OpenPcs, diskVars
<1>2. file \in [Places -> Contents] /\ stable.file \in [Places -> Contents]
  BY DiskFields DEF IInv, HandoffInv, RecoveryInv, DisksInv, DiskInv, DiskType
<1>3. Dropped(file, {}) = file /\ Dropped(stable.file, {}) = stable.file
  BY <1>2 DEF Dropped
<1>4. stable = [stable EXCEPT !.file = stable.file]
  BY DEF IInv, RecoveryInv, DisksInv, StableIsDisk
<1>5. stable' = [stable EXCEPT !.file = Dropped(stable.file, {})]
  BY <1>1, <1>3, <1>4
<1>6. /\ pc # "off" /\ crashes < MaxCrashes /\ crashes' = crashes + 1 /\ Ends
      /\ journal' = journal /\ archived' = archived /\ UNCHANGED records
  BY DEF Refuse, diskVars
<1>7. \E left \in IF DatabaseOpen THEN {{}, {1, 2}} ELSE {{}}, d \in {Disk, stable} :
        /\ file' = Dropped(d.file, left)
        /\ journal' = d.journal
        /\ archived' = d.archived
        /\ stable' = [stable EXCEPT !.file = Dropped(stable.file, left)]
  <2> WITNESS {} \in IF DatabaseOpen THEN {{}, {1, 2}} ELSE {{}}
  <2> WITNESS Disk \in {Disk, stable}
  <2> QED
    BY <1>1, <1>3, <1>5, <1>6, DiskFields
<1>8. Crash
  BY <1>6, <1>7 DEF Crash
<1> QED
  BY <1>8, CrashBooks

-----------------------------------------------------------------------------
(* The invariant.                                                             *)

LEMMA InitInv == Init => IInv
<1> SUFFICES ASSUME Init PROVE IInv
  OBVIOUS
<1> USE DiskFields
<1>1. /\ RecoveryInv /\ stable = Disk /\ journal.op = 0 /\ ~journal.verified /\ archived = {}
      /\ Base(stable)[Database] = Copy(0)
  BY InitRecovery
<1>2. /\ requests = [k \in Keys |-> NoRequest]
      /\ handoff = [state |-> "none", key |-> NoKey, op |-> 0]
      /\ fence = [g \in Gens |-> IF g = 0 THEN "revoked" ELSE "snapshot"]
      /\ issued = <<>> /\ task = "open" /\ target = NoKey /\ admit = Idle
      /\ busy = FALSE /\ closing = "no" /\ crashes = 0 /\ pc = "off"
  BY DEF Init
<1>3. \A k \in Keys : requests[k].state = "none" /\ requests[k].op = 0
  BY <1>2 DEF NoRequest
<1>4. handoff.state = "none" /\ admit.stage = "idle"
  BY <1>2 DEF Idle
<1>5. RecordTypes
  <2>1. requests \in [Keys -> [state : {"none", "requested", "verified"} \cup Finished, op : 0 .. NOps]]
    BY <1>2, OpsAssumption DEF NoRequest
  <2>2. /\ handoff \in [state : {"none", "verified"} \cup Pending \cup Finished,
                        key : Keys \cup {NoKey}, op : 0 .. NOps]
        /\ admit \in [stage : {"idle", "prepare", "verify", "publish", "accept"}, key : Keys \cup {NoKey}]
    BY <1>2, OpsAssumption DEF Idle
  <2>3. issued \in Seq(Keys) /\ Len(issued) <= NOps
    BY <1>2, OpsAssumption
  <2>4. crashes \in 0 .. MaxCrashes
    BY <1>2, HandoffAssumption
  <2> QED
    BY <1>2, <1>4, <2>1, <2>2, <2>3, <2>4 DEF RecordTypes
<1>6. Disks = {Disk} /\ Disk.journal.op = 0 /\ ~Disk.journal.verified /\ Disk.archived = {}
      /\ Base(Disk)[Database].gen = 0
  <2>1. Copy(0).gen = 0
    BY DEF Copy
  <2> QED
    BY <1>1, <2>1 DEF Disks
<1>7. IssuedInv
  <2>1. \A o \in Ops : ~Begun(Disk, o)
    BY <1>6, OpsAssumption DEF Begun, Ops
  <2> QED
    BY <1>3, <1>4, <1>6, <2>1 DEF IssuedInv
<1>8. RequestInv /\ HandoffDisks /\ PendingInv /\ TaskInv
  BY <1>2, <1>3, <1>4 DEF RequestInv, HandoffDisks, PendingInv, TaskInv, Finished, Pending, OpenPcs
<1>9. FenceDisks /\ FenceInv
  BY <1>2, <1>4, <1>6 DEF FenceDisks, FenceInv, Unfinished
<1> QED
  BY <1>1, <1>5, <1>7, <1>8, <1>9 DEF IInv, HandoffInv, BookInv

LEMMA StepInv == IInv /\ [Next]_vars => IInv'
<1> SUFFICES ASSUME IInv, [Next]_vars PROVE IInv'
  OBVIOUS
<1>1. RecordTypes'
  BY StepRecordTypes DEF IInv
<1>2. RecoveryInv' /\ BookInv'
  <2>1. CASE UNCHANGED vars
    <3>1. UNCHANGED diskVars /\ pc' = pc /\ UNCHANGED <<records, volatile>>
      BY <2>1 DEF vars, recoveryVars, diskVars
    <3>2. RecoveryInv' /\ Quiet /\ Disk' = Disk
      BY <3>1, Elsewhere DEF IInv
    <3>3. TaskInv' /\ FenceInv'
      BY <3>1, <3>2 DEF IInv, HandoffInv, BookInv, TaskInv, FenceInv, records, volatile
    <3> QED
      BY <3>1, <3>2, <3>3, QuietBooks DEF IInv, HandoffInv, BookInv
  <2>2. CASE Recovering \/ Preparing
    BY <2>2, RecoveringBooks, PreparingBooks
  <2>3. CASE (\E k \in Keys : AdmitBegin(k)) \/ AdmitPrepare \/ AdmitVerify \/ AdmitPublish \/ AdmitAccept
    BY <2>3, AdmissionBooks
  <2>4. CASE Launch \/ Drain \/ Drained
    BY <2>4, LaunchBooks
  <2>5. CASE Failing \/ Signal \/ SignalExit \/ Start
    BY <2>5, EndingBooks
  <2>6. CASE Execute \/ Boot
    BY <2>6, ExecuteBooks, BootBooks
  <2>7. CASE \E k \in Keys : OfflineRestore(k)
    BY <2>7, OfflineBooks
  <2>8. CASE Open \/ Fence \/ Write \/ Acknowledge \/ Crash \/ Refuse
    BY <2>8, OpenBooks, WriteBooks, AcknowledgeBooks, CrashBooks, RefusalBooks
  <2> QED
    BY <2>1, <2>2, <2>3, <2>4, <2>5, <2>6, <2>7, <2>8 DEF Next, Process
<1> QED
  BY <1>1, <1>2 DEF IInv, HandoffInv

\* The inductive invariant of restores.
THEOREM RestoreInvariance == Spec => []IInv
BY InitInv, StepInv, PTL DEF Spec

\* Every variable of a restore keeps its type.
THEOREM RestoreTypes == Spec => []TypeOK
<1>1. IInv => TypeOK
  BY DEF IInv, HandoffInv, RecordTypes, RecoveryInv, DisksInv, DiskInv, PcInv, TypeOK
<1> QED
  BY <1>1, RestoreInvariance, PTL

\* Every file in use before an unfinished replacement exists once, in use or put
\* away: recoverOwnedRestore overwrites nothing, through any crash.
THEOREM NothingOverwritten == Spec => []PreviousKept
<1>1. IInv => PreviousKept
  BY RecoveryKeepsPrevious DEF IInv
<1> QED
  BY <1>1, RestoreInvariance, PTL

\* No interrupted replacement is ever opened half done.
THEOREM OpensWhole == Spec => []WholeGeneration
<1>1. IInv => WholeGeneration
  BY RecoveryOpensWhole DEF IInv
<1> QED
  BY <1>1, RestoreInvariance, PTL

\* No listener exists before the credentials of a restored database are revoked.
THEOREM FenceFirst == Spec => []FencedBeforeService
<1>1. IInv => FencedBeforeService
  <2> SUFFICES ASSUME IInv, pc \in {"serving", "launched", "draining"}, Installed # 0
               PROVE  issued[Installed] \in OfflineKeys \/ fence[Installed] = "revoked"
    BY DEF FencedBeforeService
  <2>1. ~Unfinished(Disk)
    BY DEF IInv, RecoveryInv, PcInv, SettledPcs, OpenPcs
  <2>2. Base(Disk)[Database].gen = Installed
    BY <2>1, DiskParts, DiskFields DEF IInv, RecoveryInv, DisksInv, Installed
  <2>3. Excused(Installed) \/ fence[Installed] = "revoked"
    BY <2>2 DEF IInv, HandoffInv, BookInv, FenceDisks, Disks
  <2>4. handoff.state # "executing"
    BY DEF IInv, HandoffInv, BookInv, FenceInv
  <2> QED
    BY <2>3, <2>4 DEF Excused
<1> QED
  BY <1>1, RestoreInvariance, PTL

\* A reported outcome is the one that happened to the files.
THEOREM OutcomesAreTrue == Spec => []TruthfulOutcome
<1>1. IInv => TruthfulOutcome
  <2> SUFFICES ASSUME IInv PROVE TruthfulOutcome
    OBVIOUS
  <2> USE DiskFields
  <2>1. /\ \A o : Reached(o) <=> o \in Replaced(Disk)
        /\ \A o : Begun(Disk, o) <=> o \in archived \cup {journal.op}
    BY DEF Reached, Replaced, Begun
  <2>2. \A k \in Keys :
          /\ requests[k].state = "verified" => requests[k].op \in Replaced(Disk)
          /\ requests[k].state \in Finished => ~Begun(Disk, requests[k].op)
    BY DEF IInv, HandoffInv, BookInv, RequestInv, Disks
  <2>3. /\ handoff.state = "verified" => handoff.op \in Replaced(Disk) /\ fence[handoff.op] = "revoked"
        /\ handoff.state \in Finished => ~Begun(Disk, handoff.op)
    BY DEF IInv, HandoffInv, BookInv, HandoffDisks, FenceInv, Disks
  <2> QED
    BY <2>1, <2>2, <2>3 DEF TruthfulOutcome
<1> QED
  BY <1>1, RestoreInvariance, PTL

-----------------------------------------------------------------------------
(* Whole replacements, once each: the refinement of InstalledGeneration.      *)

LEMMA Mapping ==
  Standing = Base(stable)[Database] /\ Standing' = Base(stable')[Database]
<1>1. \A d : Base(d)[Database] = IF d.journal.op # 0 /\ ~d.journal.verified
                                 THEN d.journal.previous[Database]
                                 ELSE d.file[At("active", Database)]
  BY ActiveFacts, PlaceFacts DEF Base, Unfinished
<1> QED
  BY <1>1 DEF Standing

\* A step that keeps what stands opens the installation, closes it, or does nothing.
LEMMA Unmoved ==
  ASSUME Base(stable')[Database] = Base(stable)[Database], Replaced(stable') = Replaced(stable)
  PROVE  [Generation!Next]_Generation!vars
<1>1. Standing' = Standing
  BY Mapping
<1>2. Replaced(stable)' = Replaced(stable)
  OBVIOUS
<1>3. DatabaseOpen \in BOOLEAN /\ DatabaseOpen' \in BOOLEAN
  BY DEF DatabaseOpen
<1> QED
  BY <1>1, <1>2, <1>3
     DEF Replaced, Generation!Next, Generation!Open, Generation!Close, Generation!vars

\* What becomes durable is what stood, or the whole of a replacement.
LEMMA MadeDurable ==
  ASSUME IInv, stable' = Disk, ~DatabaseOpen, ~DatabaseOpen'
  PROVE  [Generation!Next]_Generation!vars
<1> USE DiskFields
<1>1. RecoveryInv /\ DiskInv(Disk) /\ DiskInv(stable) /\ PairInv
  BY DEF IInv, RecoveryInv, DisksInv
<1>2. CASE Base(Disk) = Base(stable) /\ Replaced(Disk) = Replaced(stable)
  BY <1>2, Unmoved
<1>3. CASE /\ journal.verified /\ Unfinished(stable) /\ journal.op = stable.journal.op
           /\ archived = stable.archived /\ file[At("active", Database)] = Copy(journal.op)
  <2> DEFINE o == journal.op
  <2>1. o \in 1 .. NOps
    BY <1>1, <1>3, OpsAssumption, SetFacts DEF DiskInv, Gens
  <2>2. Standing' = Copy(o)
    BY <1>1, <1>3, DiskParts, Mapping DEF Unfinished
  <2>3. Standing'.gen = o /\ Standing'.written = FALSE
    BY <2>2 DEF Copy
  <2>4. /\ stable.archived \cup (IF stable.journal.verified THEN {stable.journal.op} ELSE {})
             = stable.archived
        /\ o \notin stable.archived
        /\ (stable.archived \cup (IF stable.journal.verified THEN {stable.journal.op} ELSE {}))'
             = stable.archived \cup {o}
    BY <1>1, <1>3 DEF Unfinished, DiskInv
  <2>5. DatabaseOpen' = DatabaseOpen
    BY DEF DatabaseOpen
  <2>6. Generation!Replace(o)
    BY <2>3, <2>4, <2>5 DEF Generation!Replace
  <2> QED
    BY <2>1, <2>6 DEF Generation!Next
<1> QED
  BY <1>1, <1>2, <1>3 DEF PairInv

LEMMA StepReplaces ==
  ASSUME IInv, [Next]_vars PROVE [Generation!Next]_Generation!vars
<1>1. CASE UNCHANGED stable
  BY <1>1, Unmoved
<1>2. CASE Crash
  <2>1. /\ Base(stable')[Database] = Base(stable)[Database]
        /\ stable'.journal = stable.journal /\ stable'.archived = stable.archived
    BY <1>2, CrashKeeps DEF IInv
  <2> QED
    BY <2>1, Unmoved DEF Replaced
<1>3. CASE Open
  <2>1. /\ Base(stable')[Database] = Base(stable)[Database]
        /\ stable'.journal = stable.journal /\ stable'.archived = stable.archived
    BY <1>3, OpenKeeps DEF IInv
  <2> QED
    BY <2>1, Unmoved DEF Replaced
<1>4. CASE Fence \/ Write
  <2>1. WriteDatabase /\ pc \in OpenPcs /\ pc' \in OpenPcs
    BY <1>4 DEF Fence, Write, OpenPcs
  <2>2. /\ Base(stable)[Database].gen = Installed
        /\ Base(stable')[Database] = [gen |-> Installed, written |-> TRUE]
        /\ stable'.journal = stable.journal /\ stable'.archived = stable.archived
    BY <2>1, WriteKeeps DEF IInv
  <2>3. Standing'.gen = Standing.gen /\ Standing'.written = TRUE
    BY <2>2, Mapping
  <2>4. DatabaseOpen /\ DatabaseOpen'
    BY <2>1 DEF DatabaseOpen
  <2>5. DatabaseOpen' = TRUE
    BY <2>4 DEF DatabaseOpen
  <2>6. Generation!Write
    BY <2>2, <2>3, <2>4, <2>5 DEF Generation!Write
  <2> QED
    BY <2>6 DEF Generation!Next
<1>5. CASE Recovering \/ Preparing
  <2>1. Recover \/ Prepare(requests[target].op)
    BY <1>5 DEF Recovering, Preparing
  <2>2. ~DatabaseOpen /\ ~DatabaseOpen'
    BY <2>1
       DEF Recover, Prepare, CheckJournal, Intend, SyncIntent, Move, SyncMove, Complete, SyncComplete,
           Validate, SyncVerified, Archive, SyncArchive, Publish, SyncPublish, NextTurn,
           DatabaseOpen, OpenPcs
  <2>3. stable' = stable \/ stable' = Disk
    BY <2>1
       DEF Recover, Prepare, CheckJournal, Intend, SyncIntent, Move, SyncMove, Complete, SyncComplete,
           Validate, SyncVerified, Archive, SyncArchive, Publish, SyncPublish, Sync
  <2> QED
    BY <1>1, <2>2, <2>3, MadeDurable
<1>6. CASE ~(Crash \/ Open \/ Fence \/ Write \/ Recovering \/ Preparing)
  <2>1. UNCHANGED stable
    BY <1>6
       DEF Next, Process, AdmitBegin, AdmitPrepare, AdmitVerify, AdmitPublish, AdmitAccept, Launch,
           Drain, Drained, Failing, Signal, SignalExit, Execute, Start, Boot, Acknowledge,
           OfflineRestore, Refuse, vars, recoveryVars, diskVars
  <2> QED
    BY <1>1, <2>1
<1> QED
  BY <1>2, <1>3, <1>4, <1>5, <1>6

LEMMA InitReplaces == Init => Generation!Init
<1> SUFFICES ASSUME Init PROVE Generation!Init
  OBVIOUS
<1>1. /\ stable = Disk /\ journal.op = 0 /\ ~journal.verified /\ archived = {}
      /\ Base(stable)[Database] = Copy(0)
  BY InitRecovery
<1>2. Standing.gen = 0 /\ Standing.written = FALSE
  BY <1>1, Mapping DEF Copy
<1>3. ~DatabaseOpen
  BY DEF Init, DatabaseOpen, OpenPcs
<1>4. stable.archived \cup (IF stable.journal.verified THEN {stable.journal.op} ELSE {}) = {}
  BY <1>1, DiskFields
<1> QED
  BY <1>2, <1>3, <1>4 DEF Generation!Init

\* Through crashes and power failures a restore is InstalledGeneration: the
\* installation changes as a whole, while it is closed, once for each operation.
THEOREM ReplacesWholeAndOnce == Spec => ReplacesAtomically
<1>1. Init => Generation!Init
  BY InitReplaces
<1>2. IInv /\ [Next]_vars => [Generation!Next]_Generation!vars
  BY StepReplaces
<1> QED
  BY <1>1, <1>2, RestoreInvariance, PTL DEF Spec, ReplacesAtomically, Generation!Spec


\* Recovery never refuses its own interrupted work: whatever crashed, no check of
\* the plan, of a move or of the installed files stops a later start.
Accepted == pc # "stopped"

LEMMA StepResumes == IInv /\ Accepted /\ [Next]_vars => Accepted'
<1> SUFFICES ASSUME IInv, pc # "stopped", [Next]_vars PROVE pc' # "stopped"
  BY DEF Accepted
<1>1. RecoveryInv
  BY DEF IInv
<1>2. CASE CheckJournal
  <2>1. CASE Unfinished(Disk)
    BY <1>1, <1>2, <2>1, PlanIsAccepted DEF CheckJournal, NextTurn
  <2>2. CASE ~Unfinished(Disk)
    BY <1>2, <2>2, DiskFields DEF CheckJournal, Unfinished
  <2> QED
    BY <2>1, <2>2
<1>3. CASE Move
  BY <1>1, <1>3, MoveKeeps
<1>4. CASE Validate
  BY <1>1, <1>4, InstalledIsAccepted DEF Validate
<1>5. CASE Archive
  BY <1>1, <1>5, ArchiveKeeps
<1>6. CASE Execute
  <2> DEFINE o == requests[target].op
  <2>1. target \in Keys /\ requests[target].state \in {"requested", "verified"}
    BY <1>6, KeysAtWork DEF IInv, HandoffInv, BookInv, TaskInv, Execute
  <2>2. o # 0
    BY <2>1 DEF IInv, HandoffInv, BookInv, IssuedInv
  <2>3. ~Unfinished(Disk)
    BY <1>1, <1>6 DEF RecoveryInv, PcInv, SettledPcs, Execute
  <2>4. o \in archived \cup {journal.op} => Reached(o)
    BY <2>2, <2>3, DiskFields DEF Unfinished, Reached
  <2> QED
    BY <1>6, <2>4 DEF Execute, Ends
<1>7. CASE Intend \/ SyncIntent \/ SyncMove \/ Complete \/ SyncComplete \/ SyncVerified
           \/ SyncArchive \/ Publish(requests[target].op) \/ SyncPublish
  BY <1>7
     DEF Intend, SyncIntent, SyncMove, Complete, SyncComplete, SyncVerified, SyncArchive, Publish,
         SyncPublish, NextTurn
<1>8. CASE UNCHANGED vars \/ ~(Recovering \/ Preparing \/ Execute)
  BY <1>8
     DEF Next, Process, AdmitBegin, AdmitPrepare, AdmitVerify, AdmitPublish, AdmitAccept, Launch,
         Drain, Drained, Failing, Signal, SignalExit, Start, Boot, Open, Fence, Acknowledge, Write,
         OfflineRestore, Crash, Refuse, Ends, vars, recoveryVars
<1> QED
  BY <1>2, <1>3, <1>4, <1>5, <1>6, <1>7, <1>8 DEF Recovering, Preparing, Recover, Prepare

\* Whatever was interrupted, the next start accepts it and goes on.
THEOREM Resumes == Spec => []Accepted
<1>1. Init => Accepted
  BY DEF Init, Accepted
<1> QED
  BY <1>1, StepResumes, RestoreInvariance, PTL DEF Spec
=============================================================================
