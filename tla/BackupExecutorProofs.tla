------------------------- MODULE BackupExecutorProofs -------------------------
(* Proofs about backups, for any number of them, any limit and any number of  *)
(* crashes, failed writes, retries and restores.                              *)
EXTENDS BackupExecutor, FiniteSetTheorems, WellFoundedInduction, TLAPS

-----------------------------------------------------------------------------
(* The inductive invariant                                                   *)

(* What the executor does, and the code that is running to completion.       *)
ActiveInv ==
  \/ active = Idle /\ turn \in {"free", "pump", "reconcile"}
  \/ /\ active.id \in Ids
     /\ \/ /\ active.kind = "backup"
           /\ \/ active.stage = "idle" /\ turn = "begin"
              \/ active.stage = "copying" /\ turn \in {"free", "record", "reconcile"}
              \/ active.stage = "retain" /\ turn \in {"retain", "remove"}
              \/ active.stage = "check" /\ turn = "free"
        \/ active.kind = "transfer" /\ active.stage = "idle" /\ turn = "begin"
        \/ active.kind \in {"transfer", "inquiry"} /\ active.stage = "verify" /\ turn \in {"free", "stop"}
        \/ active.kind \in {"transfer", "inquiry"} /\ active.stage = "inventory" /\ turn = "free"
        \/ active.kind = "transfer" /\ active.stage = "upload" /\ turn = "free"

LifeInv ==
  life = "down" =>
    /\ ops = saved.ops /\ receipts = saved.receipts
    /\ active = Idle /\ turn = "free" /\ queued = None

(* Copies that retention may reach: retired records are only forgotten.      *)
Retirable(b) == ops[b].state \in {"succeeded", "pruned"} /\ ops[b].scheduled

WorkInv ==
  /\ active.kind = "backup" /\ turn = "begin" => ops[active.id].state = "queued"
  /\ active.stage = "copying" /\ turn # "reconcile" => ops[active.id].state = "running"
  /\ turn = "record" => copy[active.id] = "whole"
  /\ turn = "reconcile" => saved.ops = ops
  /\ \A b \in scan.left : Retirable(b)
  /\ active.stage = "check" => Retirable(active.id)
  /\ turn = "remove" => Retirable(active.id) /\ active.id \in Succeeded \ Protected

(* The ledger on the disk is behind the one in memory, never ahead of it in  *)
(* what retention or recovery decide by.                                     *)
Tracks(o, s) ==
  /\ s.state # "none" => o.state # "none" /\ s.scheduled = o.scheduled /\ s.remote = o.remote
  /\ o.state = "succeeded" => s.state = "succeeded"
  /\ s.state = "pruned" => o.state = "pruned"

LedgerInv ==
  /\ \A b \in Ids : Tracks(ops[b], saved.ops[b])
  /\ \A b \in Ids : ops[b].state = "pruned" => copy[b] = "absent"

(* KeptWhileNeeded of any of the two ledgers with any of the two receipts.   *)
Done(O) == {b \in Ids : O[b].state = "succeeded"}
DoneScheduled(O) == {b \in Done(O) : O[b].scheduled}
Needed(O, R) ==
  {b \in Done(O) : ~O[b].scheduled \/ (O[b].remote /\ R[b].state # "confirmed")}
    \cup Latest(Done(O)) \cup Latest(DoneScheduled(O))
KeptInv ==
  /\ \A b \in requests : copy[b] = "whole"
  /\ \A O \in {ops, saved.ops}, R \in {receipts, saved.receipts} :
       \A b \in Needed(O, R) : copy[b] = "whole"

(* The uploads that a receipt has paid for.                                  *)
Budget(r) == AttemptLimit * r.round + r.attempts
Forgotten(b) == ops[b].state = "pruned" /\ saved.ops[b].state = "pruned"
ReceiptOK(b, r) ==
  /\ r.state = "confirmed" => snapshots[b] > 0
  /\ r.state = "none" => r = NoReceipt /\ (uploads[b] = 0 \/ Forgotten(b))
  /\ r.state # "none" => uploads[b] <= Budget(r)
  /\ r.round <= events
ReceiptsInv ==
  /\ \A b \in Ids : ReceiptOK(b, receipts[b]) /\ ReceiptOK(b, saved.receipts[b])
  /\ \/ \A b \in Ids : receipts[b].state = "confirmed" => saved.receipts[b].state = "confirmed"
     \/ broken.ops /\ active = Idle

TransferInv ==
  /\ queued # None => receipts[queued].state = "pending"
  /\ Transferring => queued = None
  /\ Transferring /\ turn = "begin" => Current.state = "pending"
  /\ Transferring /\ turn # "begin" => Current.state = "running"
  /\ Transferring /\ turn = "free" => saved.receipts = receipts
  /\ active.kind = "transfer" /\ active.stage \in {"verify", "inventory"} =>
       Current.attempts >= 1 /\ uploads[active.id] < Budget(Current)

IInv ==
  /\ TypeOK /\ ActiveInv /\ LifeInv /\ WorkInv
  /\ LedgerInv /\ KeptInv /\ ReceiptsInv /\ TransferInv

-----------------------------------------------------------------------------
(* The newest and the oldest of a set of copies                              *)

LEMMA Constants ==
  /\ NBackups \in Nat /\ MaxEvents \in Nat /\ Ids = 1 .. NBackups /\ None = 0
  /\ AttemptLimit \in Nat \ {0} /\ PassLimit \in Nat \ {0}
  /\ Transports \subseteq BOOLEAN
BY BackupAssumption DEF Ids, None

\* The uploads of a round are within the next one.
LEMMA Spent ==
  ASSUME NEW l \in Nat, NEW k \in Nat, NEW t \in 0 .. l, NEW u \in Nat, u <= l * k + t
  PROVE  u <= l * (k + 1)
<1>1. l * (k + 1) = l * k + l /\ l * k \in Nat
  OBVIOUS
<1> PICK p \in Nat : p = l * k
  BY <1>1
<1>2. u <= p + t
  OBVIOUS
<1>3. t \in Int /\ t <= l
  OBVIOUS
<1>4. l * (k + 1) = p + l
  BY <1>1
<1>5. p + t <= p + l
  BY <1>3
<1>6. u <= p + l
  BY <1>2, <1>3, <1>5
<1> QED
  BY <1>4, <1>6

LEMMA LeastExists ==
  ASSUME NEW S, S \subseteq Nat, S # {}
  PROVE  \E x \in S : \A y \in S : x <= y
<1> DEFINE R == {p \in Nat \X Nat : p[1] < p[2]}
<1>1. IsWellFoundedOn(R, Nat)
  BY NatLessThanWellFounded DEF OpToRel
<1> HIDE DEF R
<1>2. PICK x \in S : \A y \in S : ~(<<y, x>> \in R)
  BY <1>1, WFMin
<1>3. ASSUME NEW y \in S PROVE x <= y
  <2>1. x \in Nat /\ y \in Nat /\ <<y, x>> \notin R
    BY <1>2
  <2>2. ~(y < x)
    BY <2>1 DEF R
  <2> QED
    BY <2>1, <2>2
<1> QED
  BY <1>3

LEMMA OldestIs ==
  ASSUME NEW S, S \subseteq Ids, S # {}
  PROVE  Min(S) \in S
<1>1. S \subseteq Nat
  BY Constants
<1>2. \E x \in S : \A y \in S : x <= y
  BY <1>1, LeastExists
<1> QED
  BY <1>2 DEF Min

LEMMA NewestIs ==
  ASSUME NEW S, S \subseteq Ids
  PROVE  /\ \A b : b \in Latest(S) <=> b \in S /\ \A c \in S : c <= b
         /\ S # {} => \E b \in S : b \in Latest(S)
<1>1. CASE S = {}
  BY <1>1 DEF Latest
<1>2. CASE S # {}
  <2> DEFINE T == {NBackups - x : x \in S}
  <2>1. T \subseteq Nat
    BY Constants
  <2>7. T # {}
    BY <1>2
  <2> HIDE DEF T
  <2>2. PICK t \in T : \A y \in T : t <= y
    BY <2>1, <2>7, LeastExists
  <2>3. PICK m \in S : t = NBackups - m
    BY <2>2 DEF T
  <2>4. ASSUME NEW c \in S PROVE c <= m
    <3>1. NBackups - c \in T
      BY DEF T
    <3>2. NBackups - m <= NBackups - c
      BY <2>2, <2>3, <3>1
    <3> QED
      BY <3>2, Constants
  <2>5. Max(S) \in S /\ \A c \in S : Max(S) >= c
    <3>1. \A c \in S : m >= c
      BY <2>4, Constants
    <3> QED
      BY <3>1 DEF Max
  <2>6. Latest(S) = {Max(S)}
    BY <1>2 DEF Latest
  <2>8. PICK x \in S : x = Max(S) /\ \A c \in S : x >= c
    BY <2>5
  <2>9. x \in Int /\ S \subseteq Int
    BY Constants
  <2>10. Latest(S) = {x}
    BY <2>6, <2>8
  <2>11. ASSUME NEW b \in S, \A c \in S : c <= b PROVE b = x
    BY <2>8, <2>9, <2>11
  <2>12. \A c \in S : c <= x
    BY <2>8, <2>9
  <2> QED
    BY <2>10, <2>11, <2>12
<1> QED
  BY <1>1, <1>2

(* A set of copies whose newest is whole changes by whole and absent ones.   *)
LEMMA NewestStaysWhole ==
  ASSUME NEW S, NEW T, S \subseteq Ids, T \subseteq Ids,
         NEW c \in [Ids -> {"absent", "whole", "torn"}],
         \A b \in Latest(S) : c[b] = "whole",
         \A b \in S \ T : c[b] = "absent",
         \A b \in T \ S : c[b] = "whole"
  PROVE  \A b \in Latest(T) : c[b] = "whole"
<1> SUFFICES ASSUME NEW b \in Latest(T), b \in S PROVE c[b] = "whole"
  BY NewestIs
<1>1. PICK m \in S : m \in Latest(S)
  BY NewestIs
<1>2. m \in T /\ m <= b /\ b <= m
  BY <1>1, NewestIs
<1>3. b = m
  BY <1>1, <1>2, Constants
<1> QED
  BY <1>1, <1>3

-----------------------------------------------------------------------------
(* Ledgers                                                                   *)

(* How the record o of a backup with the copy c becomes p.                   *)
OpMoved(o, p, c) ==
  /\ o.state # "none" => p.state # "none" /\ p.scheduled = o.scheduled /\ p.remote = o.remote
  /\ o.state = "succeeded" => p.state = "succeeded" \/ (p.state = "pruned" /\ c = "absent")
  /\ p.state = "succeeded" => o.state = "succeeded" \/ c = "whole"
  /\ o.state = "pruned" => p.state = "pruned"
  /\ p.state = "pruned" => c = "absent"
Moved(O, P) == \A b \in Ids : OpMoved(O[b], P[b], copy[b])

\* A ledger that moves needs no copy that is not whole.
LEMMA MovedKept ==
  ASSUME TypeOK, NEW O \in Ledger, NEW P \in Ledger, NEW R, Moved(O, P),
         \A b \in Needed(O, R) : copy[b] = "whole"
  PROVE  \A b \in Needed(P, R) : copy[b] = "whole"
<1>1. copy \in [Ids -> {"absent", "whole", "torn"}]
  BY DEF TypeOK
<1>2. \A b \in Latest(Done(P)) : copy[b] = "whole"
  <2>1. Done(O) \subseteq Ids /\ Done(P) \subseteq Ids
    BY DEF Done
  <2>2. /\ \A b \in Latest(Done(O)) : copy[b] = "whole"
        /\ \A b \in Done(O) \ Done(P) : copy[b] = "absent"
        /\ \A b \in Done(P) \ Done(O) : copy[b] = "whole"
    BY DEF Needed, Moved, OpMoved, Done
  <2> QED
    BY <1>1, <2>1, <2>2, NewestStaysWhole
<1>3. \A b \in Latest(DoneScheduled(P)) : copy[b] = "whole"
  <2>1. DoneScheduled(O) \subseteq Ids /\ DoneScheduled(P) \subseteq Ids
    BY DEF Done, DoneScheduled
  <2>2. \A b \in Latest(DoneScheduled(O)) : copy[b] = "whole"
    BY DEF Needed
  <2>3. \A b \in DoneScheduled(O) \ DoneScheduled(P) : copy[b] = "absent"
    BY DEF Moved, OpMoved, Done, DoneScheduled
  <2>4. \A b \in DoneScheduled(P) \ DoneScheduled(O) : copy[b] = "whole"
    BY DEF Moved, OpMoved, Done, DoneScheduled
  <2> QED
    BY <1>1, <2>1, <2>2, <2>3, <2>4, NewestStaysWhole
<1>4. ASSUME NEW b \in Done(P), ~P[b].scheduled \/ (P[b].remote /\ R[b].state # "confirmed")
      PROVE  copy[b] = "whole"
  <2>1. CASE O[b].state = "succeeded"
    <3>1. P[b].scheduled = O[b].scheduled /\ P[b].remote = O[b].remote
      BY <2>1 DEF Moved, OpMoved, Done
    <3>2. b \in Done(O)
      BY <2>1 DEF Done
    <3> QED
      BY <1>4, <3>1, <3>2 DEF Needed
  <2>2. CASE O[b].state # "succeeded"
    BY <2>2 DEF Moved, OpMoved, Done
  <2> QED
    BY <2>1, <2>2
<1> QED
  BY <1>2, <1>3, <1>4 DEF Needed

\* Receipts that forget no confirmation of a copy that succeeded need no more.
LEMMA ReceiptsKept ==
  ASSUME NEW O, NEW R, NEW Q,
         \A b \in Done(O) : R[b].state = "confirmed" => Q[b].state = "confirmed",
         \A b \in Needed(O, R) : copy[b] = "whole"
  PROVE  \A b \in Needed(O, Q) : copy[b] = "whole"
BY DEF Needed

LEMMA KeptNext ==
  ASSUME \A b \in requests' : copy'[b] = "whole",
         \A O \in {ops', saved'.ops}, R \in {receipts', saved'.receipts} :
           \A b \in Needed(O, R) : copy'[b] = "whole"
  PROVE  KeptInv'
BY DEF KeptInv, Needed, Done, DoneScheduled, Latest

\* A write of the ledger of operations, that fails or not.
LEMMA LedgerStep ==
  ASSUME TypeOK, LedgerInv, KeptInv,
         NEW om \in Ledger, NEW os \in Ledger, ops' = om, Moved(ops, om), Moved(ops, os),
         saved' \in {saved, [ops |-> os, receipts |-> saved.receipts]},
         \A b \in Ids : Tracks(om[b], os[b]),
         saved' # [ops |-> os, receipts |-> saved.receipts] =>
           \A b \in Ids : om[b].state = "succeeded" => ops[b].state = "succeeded",
         UNCHANGED <<copy, requests, receipts>>
  PROVE  /\ LedgerInv' /\ KeptInv'
         /\ saved' \in [ops : Ledger, receipts : TransferLedger]
         /\ saved'.receipts = saved.receipts
         /\ \A b \in Ids : (Forgotten(b) => Forgotten(b)') /\ (Retirable(b) => Retirable(b)')
<1>1. /\ saved \in [ops : Ledger, receipts : TransferLedger] /\ ops \in Ledger
      /\ receipts \in TransferLedger
  BY DEF TypeOK
<1>2. /\ saved' \in [ops : Ledger, receipts : TransferLedger]
      /\ saved'.receipts = saved.receipts
      /\ saved'.ops = os \/ saved' = saved
  BY <1>1
<1>3. \A b \in Ids : Tracks(om[b], saved'.ops[b])
  <2> SUFFICES ASSUME NEW b \in Ids PROVE Tracks(om[b], saved'.ops[b])
    OBVIOUS
  <2>1. CASE saved'.ops = os
    BY <2>1
  <2>2. CASE saved' = saved /\ saved'.ops # os
    <3>1. om[b].state = "succeeded" => ops[b].state = "succeeded"
      BY <2>2
    <3> QED
      BY <2>2, <3>1 DEF Tracks, Moved, OpMoved, LedgerInv
  <2> QED
    BY <1>2, <2>1, <2>2
<1>4. \A b \in Ids : om[b].state = "pruned" => copy[b] = "absent"
  BY DEF Moved, OpMoved
<1>5. LedgerInv'
  BY <1>3, <1>4 DEF LedgerInv
<1>6. \A R \in {receipts, saved.receipts} :
        /\ \A b \in Needed(om, R) : copy[b] = "whole"
        /\ \A b \in Needed(os, R) : copy[b] = "whole"
        /\ \A b \in Needed(saved.ops, R) : copy[b] = "whole"
  <2> SUFFICES ASSUME NEW R \in {receipts, saved.receipts}
               PROVE  /\ \A b \in Needed(om, R) : copy[b] = "whole"
                      /\ \A b \in Needed(os, R) : copy[b] = "whole"
                      /\ \A b \in Needed(saved.ops, R) : copy[b] = "whole"
    OBVIOUS
  <2>1. \A b \in Needed(ops, R) : copy[b] = "whole"
    BY DEF KeptInv
  <2>2. \A b \in Needed(saved.ops, R) : copy[b] = "whole"
    BY DEF KeptInv
  <2>3. \A b \in Needed(om, R) : copy[b] = "whole"
    BY <1>1, <2>1, MovedKept
  <2>4. \A b \in Needed(os, R) : copy[b] = "whole"
    BY <1>1, <2>1, MovedKept
  <2> QED
    BY <2>2, <2>3, <2>4
<1>7. KeptInv'
  <2> SUFFICES ASSUME NEW O \in {om, saved'.ops}, NEW R \in {receipts, saved'.receipts}
               PROVE  \A b \in Needed(O, R) : copy[b] = "whole"
    BY KeptNext DEF KeptInv
  <2>1. O \in {om, os, saved.ops} /\ R \in {receipts, saved.receipts}
    BY <1>2
  <2> QED
    BY <1>6, <2>1
<1>8. \A b \in Ids : Forgotten(b) => Forgotten(b)'
  BY <1>2 DEF Forgotten, Moved, OpMoved
<1>9. \A b \in Ids : Retirable(b) => Retirable(b)'
  BY DEF Retirable, Moved, OpMoved
<1> QED
  BY <1>2, <1>5, <1>7, <1>8, <1>9

-----------------------------------------------------------------------------
(* Receipts                                                                  *)

Stored == \A b \in Ids : receipts[b].state = "confirmed" => saved.receipts[b].state = "confirmed"
Halted == broken.ops /\ active = Idle

\* A receipt stays in order while nothing is uploaded for it.
LEMMA ReceiptStays ==
  ASSUME NEW b \in Ids, NEW r, r.round \in Nat, ReceiptOK(b, r), uploads' = uploads,
         snapshots \in [Ids -> Nat], snapshots' \in [Ids -> Nat], snapshots'[b] >= snapshots[b],
         events \in Nat, events' \in {events, events + 1}, Forgotten(b) => Forgotten(b)'
  PROVE  ReceiptOK(b, r)'
<1>1. r.state = "confirmed" => snapshots'[b] > 0
  BY DEF ReceiptOK
<1>2. r.round <= events'
  BY DEF ReceiptOK
<1>3. r.state = "none" => r = NoReceipt /\ (uploads'[b] = 0 \/ Forgotten(b)')
  BY DEF ReceiptOK
<1>4. r.state # "none" => uploads'[b] <= Budget(r)
  BY DEF ReceiptOK
<1> QED
  BY <1>1, <1>2, <1>3, <1>4 DEF ReceiptOK, Budget, NoReceipt

LEMMA ReceiptTypes ==
  ASSUME TypeOK
  PROVE  /\ receipts \in TransferLedger /\ saved.receipts \in TransferLedger
         /\ ops \in Ledger /\ saved.ops \in Ledger
         /\ saved = [ops |-> saved.ops, receipts |-> saved.receipts]
         /\ \A b \in Ids : receipts[b].round \in Nat /\ saved.receipts[b].round \in Nat
         /\ snapshots \in [Ids -> Nat] /\ events \in Nat
<1>1. /\ receipts \in TransferLedger /\ ops \in Ledger
      /\ saved \in [ops : Ledger, receipts : TransferLedger]
      /\ snapshots \in [Ids -> Nat] /\ events \in 0 .. MaxEvents
  BY DEF TypeOK
<1>2. \A R \in TransferLedger, b \in Ids : R[b].round \in Nat
  BY Constants DEF TransferLedger
<1>3. saved = [ops |-> saved.ops, receipts |-> saved.receipts] /\ saved.ops \in Ledger
      /\ saved.receipts \in TransferLedger
  BY <1>1
<1>4. events \in Nat
  BY <1>1, Constants
<1> QED
  BY <1>1, <1>2, <1>3, <1>4

\* Steps that do not touch the receipts.
LEMMA ReceiptsStay ==
  ASSUME TypeOK, ReceiptsInv, receipts' = receipts, saved'.receipts = saved.receipts,
         uploads' = uploads, snapshots' \in [Ids -> Nat],
         \A b \in Ids : snapshots'[b] >= snapshots[b],
         events' \in {events, events + 1}, \A b \in Ids : Forgotten(b) => Forgotten(b)',
         Halted => Halted'
  PROVE  ReceiptsInv'
<1>1. \A b \in Ids : ReceiptOK(b, receipts[b])' /\ ReceiptOK(b, saved.receipts[b])'
  <2> SUFFICES ASSUME NEW b \in Ids
               PROVE  ReceiptOK(b, receipts[b])' /\ ReceiptOK(b, saved.receipts[b])'
    OBVIOUS
  <2> DEFINE r == receipts[b]
             s == saved.receipts[b]
  <2>1. /\ r.round \in Nat /\ s.round \in Nat /\ ReceiptOK(b, r) /\ ReceiptOK(b, s)
        /\ r' = r /\ s' = s
        /\ snapshots \in [Ids -> Nat] /\ events \in Nat
        /\ snapshots'[b] >= snapshots[b] /\ (Forgotten(b) => Forgotten(b)')
    BY ReceiptTypes DEF ReceiptsInv
  <2>2. \A q : q = r \/ q = s => ReceiptOK(b, q)'
    <3> HIDE DEF r, s
    <3> QED
      BY <2>1, ReceiptStays
  <2> QED
    BY <2>1, <2>2
<1> QED
  BY <1>1 DEF ReceiptsInv, Halted

\* A write of the ledger of receipts, that fails or not.
LEMMA ReceiptStep ==
  ASSUME TypeOK, LedgerInv, KeptInv, ReceiptsInv,
         NEW rm \in TransferLedger, receipts' = rm, UNCHANGED <<ops, copy, requests, uploads>>,
         saved' \in {saved, [ops |-> saved.ops, receipts |-> rm]},
         \A b \in Ids : receipts[b].state = "confirmed" => rm[b].state = "confirmed" \/ Forgotten(b),
         \A b \in Ids : ReceiptOK(b, rm[b])',
         \/ saved'.receipts = rm \/ Halted'
         \/ /\ Halted => Halted'
            /\ \A b \in Ids : rm[b].state = "confirmed" => receipts[b].state = "confirmed",
         snapshots' \in [Ids -> Nat], \A b \in Ids : snapshots'[b] >= snapshots[b],
         events' \in {events, events + 1}
  PROVE  /\ LedgerInv' /\ KeptInv' /\ ReceiptsInv'
         /\ saved' \in [ops : Ledger, receipts : TransferLedger]
         /\ saved'.ops = saved.ops
<1>1. /\ saved' \in [ops : Ledger, receipts : TransferLedger] /\ saved'.ops = saved.ops
      /\ saved'.receipts \in {saved.receipts, rm}
      /\ saved' # saved => saved'.receipts = rm
  BY ReceiptTypes
<1>2. LedgerInv'
  BY <1>1 DEF LedgerInv
<1>3. KeptInv'
  <2>1. \A b \in requests' : copy'[b] = "whole"
    BY DEF KeptInv
  <2>2. SUFFICES ASSUME NEW O \in {ops, saved.ops}, NEW R \in {receipts, saved.receipts, rm}
               PROVE  \A b \in Needed(O, R) : copy[b] = "whole"
    BY <1>1, <2>1, KeptNext
  <2>3. CASE R \in {receipts, saved.receipts}
    BY <2>3 DEF KeptInv
  <2>4. CASE R = rm
    <3>1. \A b \in Needed(O, receipts) : copy[b] = "whole"
      BY DEF KeptInv
    <3>2. \A b \in Done(O) : receipts[b].state = "confirmed" => rm[b].state = "confirmed"
      BY DEF Done, Forgotten
    <3>3. \A b \in Needed(O, rm) : copy[b] = "whole"
      BY <3>1, <3>2, ReceiptsKept
    <3> QED
      BY <2>4, <3>3
  <2> QED
    BY <2>3, <2>4
<1>4. \A b \in Ids : ReceiptOK(b, saved.receipts[b])'
  <2> SUFFICES ASSUME NEW b \in Ids PROVE ReceiptOK(b, saved.receipts[b])'
    OBVIOUS
  <2>1. CASE saved'.receipts = rm
    <3>1. \A q : q = rm[b] => ReceiptOK(b, q)'
      OBVIOUS
    <3>2. saved.receipts[b]' = rm[b]
      BY <2>1
    <3> QED
      BY <3>1, <3>2
  <2>2. CASE saved'.receipts = saved.receipts
    <3> DEFINE s == saved.receipts[b]
    <3>1. /\ s.round \in Nat /\ ReceiptOK(b, s) /\ snapshots \in [Ids -> Nat] /\ events \in Nat
          /\ snapshots'[b] >= snapshots[b] /\ (Forgotten(b) => Forgotten(b)')
      BY <1>1, ReceiptTypes DEF ReceiptsInv, Forgotten
    <3>2. \A q : q = s => ReceiptOK(b, q)'
      <4> HIDE DEF s
      <4> QED
        BY <3>1, ReceiptStays
    <3>3. saved.receipts[b]' = s
      BY <2>2
    <3>4. \A q : q = saved.receipts[b]' => ReceiptOK(b, q)'
      BY <3>2, <3>3
    <3> QED
      BY <3>4
  <2> QED
    BY <1>1, <2>1, <2>2
<1>5. Stored' \/ Halted'
  BY <1>1 DEF ReceiptsInv, Stored, Halted
<1> QED
  BY <1>1, <1>2, <1>3, <1>4, <1>5 DEF ReceiptsInv, Stored, Halted

-----------------------------------------------------------------------------
(* Backups                                                                   *)

(* What the lemmas about ledgers leave to a step: types, the executor and    *)
(* the transfer.                                                             *)
RestInv == ActiveInv /\ LifeInv /\ WorkInv /\ TransferInv

LEMMA Written ==
  ASSUME TypeOK, NEW os \in Ledger, NEW rs \in TransferLedger, NEW ok \in BOOLEAN, Writes(os, rs, ok)
  PROVE  /\ saved' \in {saved, [ops |-> os, receipts |-> rs]}
         /\ ok => saved' = [ops |-> os, receipts |-> rs]
         /\ events' \in {events, events + 1} /\ events' \in 0 .. MaxEvents
BY Constants DEF Writes, Outcomes, Happens, TypeOK

LEMMA Becoming ==
  ASSUME NEW b \in Ids, NEW x \in OpStates, ops \in Ledger
  PROVE  /\ Becomes(b, x) \in Ledger
         /\ Becomes(b, x)[b].state = x
         /\ Becomes(b, x)[b].scheduled = ops[b].scheduled
         /\ Becomes(b, x)[b].remote = ops[b].remote
         /\ \A c \in Ids : c # b => Becomes(b, x)[c] = ops[c]
<1> DEFINE r == [ops[b] EXCEPT !.state = x]
<1>1. ops[b] \in [state : OpStates, scheduled : BOOLEAN, remote : BOOLEAN]
  BY DEF Ledger
<1>2. /\ r \in [state : OpStates, scheduled : BOOLEAN, remote : BOOLEAN]
      /\ r.state = x /\ r.scheduled = ops[b].scheduled /\ r.remote = ops[b].remote
  BY <1>1
<1>3. Becomes(b, x) = [ops EXCEPT ![b] = r]
  BY <1>1 DEF Becomes, Ledger
<1> HIDE DEF r
<1> QED
  BY <1>2, <1>3 DEF Ledger

\* A backup that is queued or runs goes on, or succeeds with a whole copy.
LEMMA BecomingMoves ==
  ASSUME TypeOK, LedgerInv, NEW b \in Ids, NEW x \in {"running", "succeeded", "failed", "interrupted"},
         ops[b].state \in {"queued", "running"}, x = "succeeded" => copy[b] = "whole"
  PROVE  /\ Becomes(b, x) \in Ledger /\ Moved(ops, Becomes(b, x))
<1>1. ops \in Ledger /\ x \in OpStates
  BY DEF TypeOK, OpStates
<1> QED
  BY <1>1, Becoming DEF Moved, OpMoved, LedgerInv

LEMMA TracksItself == ASSUME NEW o PROVE Tracks(o, o)
BY DEF Tracks

LEMMA EndsStep ==
  ASSUME IInv, NEW state \in {"failed", "succeeded"}, NEW ok \in BOOLEAN,
         NEW next \in {"pump", "reconcile"}, Ends(state, ok, next),
         active.kind = "backup", active.id \in Ids, active.stage \in {"idle", "copying"},
         ops[active.id].state \in {"queued", "running"}, life # "down",
         state = "succeeded" <=> next = "reconcile",
         state = "succeeded" => copy[active.id] = "whole" /\ active.stage = "copying",
         UNCHANGED <<remote, receipts, copy, requests, outside, scan, queued, checking, maintenance,
                     life>>
  PROVE  IInv'
<1> DEFINE a == active.id
           os == Becomes(a, state)
           om == Becomes(a, IF ok THEN state ELSE "failed")
<1>1. TypeOK /\ LedgerInv /\ KeptInv /\ ReceiptsInv /\ RestInv
  BY DEF IInv, RestInv
<1>2. os \in Ledger /\ om \in Ledger /\ Moved(ops, os) /\ Moved(ops, om)
  BY <1>1, BecomingMoves
<1>3. /\ om[a].state = (IF ok THEN state ELSE "failed") /\ os[a].state = state
      /\ om[a].scheduled = os[a].scheduled /\ om[a].remote = os[a].remote
      /\ \A c \in Ids : c # a => om[c] = os[c] /\ om[c] = ops[c]
  BY <1>1, Becoming DEF TypeOK, OpStates
<1>4. /\ ops' = om /\ broken' = [broken EXCEPT !.ops = @ \/ ~ok]
      /\ turn' = (IF ok THEN next ELSE "pump")
      /\ active' = (IF ok /\ next # "pump" THEN active ELSE Idle)
      /\ Writes(os, saved.receipts, ok)
  BY DEF Ends
<1>5. /\ saved' \in {saved, [ops |-> os, receipts |-> saved.receipts]}
      /\ ok => saved' = [ops |-> os, receipts |-> saved.receipts]
      /\ events' \in {events, events + 1} /\ events' \in 0 .. MaxEvents
  BY <1>1, <1>2, <1>4, Written, ReceiptTypes
<1>6. \A b \in Ids : Tracks(om[b], os[b])
  BY <1>3 DEF Tracks
<1>7. \A b \in Ids : om[b].state = "succeeded" => ops[b].state = "succeeded" \/ ok
  BY <1>3
<1>8. saved' # [ops |-> os, receipts |-> saved.receipts] =>
        \A b \in Ids : om[b].state = "succeeded" => ops[b].state = "succeeded"
  BY <1>5, <1>7
<1> HIDE DEF os, om
<1>9. /\ LedgerInv' /\ KeptInv' /\ saved'.receipts = saved.receipts
      /\ saved' \in [ops : Ledger, receipts : TransferLedger]
      /\ \A b \in Ids : (Forgotten(b) => Forgotten(b)') /\ (Retirable(b) => Retirable(b)')
  BY <1>1, <1>2, <1>4, <1>5, <1>6, <1>8, LedgerStep
<1>10. active # Idle /\ snapshots' = snapshots /\ uploads' = uploads /\ orphans' = orphans
  BY DEF Idle, outside
<1>11. ReceiptsInv'
  BY <1>1, <1>5, <1>9, <1>10, ReceiptsStay DEF Halted, TypeOK
<1>12. Idle \in [kind : {"none", "backup", "transfer", "inquiry"}, id : Ids \cup {None},
                 stage : {"idle", "copying", "retain", "check", "verify", "inventory", "upload"}]
  BY DEF Idle
<1>13. TypeOK'
  BY <1>1, <1>2, <1>4, <1>5, <1>9, <1>10, <1>12 DEF TypeOK
<1>14. ActiveInv'
  BY <1>1, <1>4 DEF RestInv, ActiveInv
<1>15. LifeInv'
  BY DEF LifeInv
<1>16. WorkInv'
  <2>1. \A b \in scan'.left : Retirable(b)'
    BY <1>1, <1>9 DEF RestInv, WorkInv, TypeOK
  <2>2. CASE active' = Idle
    BY <1>4, <2>1, <2>2 DEF WorkInv, Idle
  <2>3. CASE active' # Idle
    <3>1. ok /\ next = "reconcile" /\ active' = active /\ turn' = "reconcile" /\ saved'.ops = ops'
      BY <1>4, <1>5, <2>3 DEF os, om
    <3> QED
      BY <2>1, <3>1 DEF WorkInv
  <2> QED
    BY <2>2, <2>3
<1>17. TransferInv'
  BY <1>1, <1>4 DEF RestInv, TransferInv, Transferring, Current, Idle
<1> QED
  BY <1>9, <1>11, <1>13, <1>14, <1>15, <1>16, <1>17 DEF IInv

LEMMA BeginStep == ASSUME IInv, Begin PROVE IInv'
<1>1. TypeOK /\ LedgerInv /\ KeptInv /\ ReceiptsInv /\ RestInv
  BY DEF IInv, RestInv
<1>2. /\ active.kind = "backup" /\ active.stage = "idle" /\ active.id \in Ids /\ turn = "begin"
      /\ ops[active.id].state = "queued" /\ life # "down"
  BY <1>1 DEF RestInv, ActiveInv, WorkInv, LifeInv, Begin, Idle
<1>3. UNCHANGED <<remote, receipts, copy, requests, outside, scan, queued, checking, maintenance, life>>
  BY DEF Begin
<1>4. CASE \E ok \in BOOLEAN : Ends("failed", ok, "pump")
  BY <1>2, <1>3, <1>4, EndsStep
<1>5. CASE /\ SavesOps(Becomes(active.id, "running"), TRUE)
           /\ active' = [active EXCEPT !.stage = "copying"]
           /\ turn' = "free" /\ UNCHANGED broken
  <2> DEFINE os == Becomes(active.id, "running")
  <2>1. os \in Ledger /\ Moved(ops, os)
    BY <1>1, <1>2, BecomingMoves
  <2>2. os[active.id].state = "running"
    BY <1>1, <1>2, Becoming DEF TypeOK, OpStates
  <2>3. ops' = os /\ Writes(os, saved.receipts, TRUE)
    BY <1>5 DEF SavesOps
  <2> HIDE DEF os
  <2>4. /\ saved' = [ops |-> os, receipts |-> saved.receipts]
        /\ events' \in {events, events + 1} /\ events' \in 0 .. MaxEvents
    BY <1>1, <2>1, <2>3, Written, ReceiptTypes
  <2>5. \A b \in Ids : Tracks(os[b], os[b])
    BY TracksItself
  <2>6. /\ LedgerInv' /\ KeptInv' /\ saved'.receipts = saved.receipts
        /\ saved' \in [ops : Ledger, receipts : TransferLedger]
        /\ \A b \in Ids : (Forgotten(b) => Forgotten(b)') /\ (Retirable(b) => Retirable(b)')
    BY <1>1, <1>3, <2>1, <2>3, <2>4, <2>5, LedgerStep
  <2>7. /\ active' \in [kind : {"none", "backup", "transfer", "inquiry"}, id : Ids \cup {None},
                 stage : {"idle", "copying", "retain", "check", "verify", "inventory", "upload"}]
        /\ active'.kind = "backup" /\ active'.stage = "copying" /\ active'.id = active.id
    BY <1>1, <1>2, <1>5 DEF TypeOK
  <2>8. active # Idle /\ snapshots' = snapshots /\ uploads' = uploads /\ orphans' = orphans
    BY <1>2, <1>3 DEF Idle, outside
  <2>9. ReceiptsInv'
    BY <1>1, <1>3, <2>4, <2>6, <2>8, ReceiptsStay DEF Halted, TypeOK
  <2>10. TypeOK'
    BY <1>1, <1>3, <1>5, <2>1, <2>3, <2>4, <2>6, <2>7, <2>8 DEF TypeOK
  <2>11. ActiveInv'
    BY <1>2, <1>5, <2>7 DEF ActiveInv
  <2>12. LifeInv'
    BY <1>2, <1>3 DEF LifeInv
  <2>13. WorkInv'
    <3>1. \A b \in scan'.left : Retirable(b)'
      BY <1>1, <1>3, <2>6 DEF RestInv, WorkInv, TypeOK
    <3>2. ops'[active'.id].state = "running"
      BY <2>2, <2>3, <2>7
    <3> QED
      BY <1>5, <2>7, <3>1, <3>2 DEF WorkInv
  <2>14. TransferInv'
    BY <1>1, <1>3, <2>7 DEF RestInv, TransferInv, Transferring
  <2> QED
    BY <2>6, <2>9, <2>10, <2>11, <2>12, <2>13, <2>14 DEF IInv
<1> QED
  BY <1>4, <1>5 DEF Begin

LEMMA CopyFailsStep == ASSUME IInv, CopyFails PROVE IInv'
<1>1. TypeOK /\ LedgerInv /\ KeptInv /\ ReceiptsInv /\ RestInv
  BY DEF IInv, RestInv
<1>2. /\ active.kind = "backup" /\ active.stage = "copying" /\ active.id \in Ids /\ turn = "free"
      /\ ops[active.id].state = "running" /\ life # "down"
  BY <1>1 DEF RestInv, ActiveInv, WorkInv, LifeInv, CopyFails, Quiet, Idle
<1> QED
  BY <1>2, EndsStep DEF CopyFails

LEMMA RecordStep == ASSUME IInv, Record PROVE IInv'
<1>1. TypeOK /\ LedgerInv /\ KeptInv /\ ReceiptsInv /\ RestInv
  BY DEF IInv, RestInv
<1>2. /\ active.kind = "backup" /\ active.stage = "copying" /\ active.id \in Ids /\ turn = "record"
      /\ ops[active.id].state = "running" /\ copy[active.id] = "whole" /\ life # "down"
  BY <1>1 DEF RestInv, ActiveInv, WorkInv, LifeInv, Record, Idle
<1> QED
  BY <1>2, EndsStep DEF Record

LEMMA PublishStep == ASSUME IInv, Publish PROVE IInv'
<1>1. TypeOK /\ LedgerInv /\ KeptInv /\ ReceiptsInv /\ RestInv
  BY DEF IInv, RestInv
<1>2. /\ active.kind = "backup" /\ active.stage = "copying" /\ active.id \in Ids /\ turn = "free"
      /\ ops[active.id].state = "running" /\ life # "down"
  BY <1>1 DEF RestInv, ActiveInv, WorkInv, LifeInv, Publish, Quiet, Idle
<1>3. /\ copy' = [copy EXCEPT ![active.id] = "whole"] /\ turn' = "record"
      /\ UNCHANGED <<remote, ops, receipts, saved, requests, active, scan, queued, checking, events,
                     snapshots, orphans, uploads, broken, maintenance, life>>
  BY DEF Publish, outside, process
<1>4. copy \in [Ids -> {"absent", "whole", "torn"}]
  BY <1>1 DEF TypeOK
<1>5. \A b \in Ids : copy[b] = "whole" => copy'[b] = "whole"
  BY <1>3, <1>4
<1>6. LedgerInv'
  BY <1>1, <1>2, <1>3, <1>4 DEF LedgerInv
<1>7. KeptInv'
  <2>1. \A O \in {ops, saved.ops}, R \in {receipts, saved.receipts} : Needed(O, R) \subseteq Ids
    <3>1. \A O : Done(O) \subseteq Ids /\ DoneScheduled(O) \subseteq Ids
      BY DEF Done, DoneScheduled
    <3>2. \A O : Latest(Done(O)) \subseteq Ids /\ Latest(DoneScheduled(O)) \subseteq Ids
      BY <3>1, NewestIs
    <3> QED
      BY <3>1, <3>2 DEF Needed
  <2>2. requests \subseteq Ids
    BY <1>1 DEF TypeOK
  <2> QED
    BY <1>1, <1>3, <1>5, <2>1, <2>2, KeptNext DEF KeptInv
<1>8. ReceiptsInv'
  <2>1. snapshots \in [Ids -> Nat] /\ events \in Nat /\ (Halted => Halted')
    BY <1>1, <1>3, ReceiptTypes DEF Halted
  <2>2. \A b \in Ids : Forgotten(b) => Forgotten(b)'
    BY <1>3 DEF Forgotten
  <2>3. \A b \in Ids : snapshots'[b] >= snapshots[b]
    BY <1>3, <2>1
  <2> QED
    BY <1>1, <1>3, <2>1, <2>2, <2>3, ReceiptsStay
<1>9. TypeOK'
  <2>1. copy' \in [Ids -> {"absent", "whole", "torn"}]
    BY <1>3, <1>4
  <2> QED
    BY <1>1, <1>3, <2>1 DEF TypeOK
<1>10. ActiveInv' /\ LifeInv'
  BY <1>2, <1>3 DEF ActiveInv, LifeInv
<1>11. WorkInv'
  BY <1>1, <1>2, <1>3, <1>4 DEF RestInv, WorkInv, Retirable
<1>12. TransferInv'
  BY <1>1, <1>2, <1>3 DEF RestInv, TransferInv, Transferring, Current, Budget
<1> QED
  BY <1>6, <1>7, <1>8, <1>9, <1>10, <1>11, <1>12 DEF IInv

LEMMA RetentionEndsStep ==
  ASSUME IInv, RetentionEnds, active # Idle, active.kind = "backup", turn # "reconcile", life # "down",
         UNCHANGED <<remote, receipts, copy, requests, outside, queued, checking, maintenance, life>>
  PROVE  IInv'
<1>1. TypeOK /\ LedgerInv /\ KeptInv /\ ReceiptsInv /\ RestInv
  BY DEF IInv, RestInv
<1>2. PICK ok \in BOOLEAN : Writes(ops, saved.receipts, ok) /\ broken' = [broken EXCEPT !.ops = @ \/ ~ok]
  BY DEF RetentionEnds
<1>3. /\ active' = Idle /\ scan' = NoScan /\ turn' = "pump" /\ UNCHANGED <<ops, copy>>
      /\ snapshots' = snapshots /\ uploads' = uploads /\ orphans' = orphans
  BY DEF RetentionEnds, outside
<1>4. /\ saved' \in {saved, [ops |-> ops, receipts |-> saved.receipts]}
      /\ events' \in {events, events + 1} /\ events' \in 0 .. MaxEvents
  BY <1>1, <1>2, Written, ReceiptTypes
<1>5. ops \in Ledger /\ Moved(ops, ops)
  BY <1>1 DEF Moved, OpMoved, LedgerInv, TypeOK
<1>6. \A b \in Ids : Tracks(ops[b], ops[b])
  BY TracksItself
<1>7. /\ LedgerInv' /\ KeptInv' /\ saved'.receipts = saved.receipts
      /\ saved' \in [ops : Ledger, receipts : TransferLedger]
      /\ \A b \in Ids : (Forgotten(b) => Forgotten(b)')
  BY <1>1, <1>3, <1>4, <1>5, <1>6, LedgerStep
<1>8. ReceiptsInv'
  BY <1>1, <1>3, <1>4, <1>7, ReceiptsStay DEF Halted, TypeOK
<1>9. TypeOK'
  <2>1. Idle \in [kind : {"none", "backup", "transfer", "inquiry"}, id : Ids \cup {None},
                  stage : {"idle", "copying", "retain", "check", "verify", "inventory", "upload"}]
        /\ NoScan \in [left : SUBSET Ids, held : SUBSET Ids]
    BY DEF Idle, NoScan
  <2>2. broken' \in [ops : BOOLEAN, receipts : BOOLEAN]
    BY <1>1, <1>2 DEF TypeOK
  <2> QED
    BY <1>1, <1>3, <1>4, <1>7, <2>1, <2>2 DEF TypeOK
<1>10. ActiveInv' /\ LifeInv'
  BY <1>3 DEF ActiveInv, LifeInv
<1>11. WorkInv'
  BY <1>3 DEF WorkInv, NoScan, Idle
<1>12. TransferInv'
  BY <1>1, <1>3 DEF RestInv, TransferInv, Transferring, Idle
<1> QED
  BY <1>7, <1>8, <1>9, <1>10, <1>11, <1>12 DEF IInv

(* Closing and admission change the records of backups that wait, and forget *)
(* those without a copy.                                                     *)
LEMMA CreateStep ==
  ASSUME IInv, NEW b \in Ids, NEW scheduled \in BOOLEAN, Create(b, scheduled)
  PROVE  IInv'
<1> DEFINE r == [state |-> "queued", scheduled |-> scheduled, remote |-> remote]
           os == [Pruned EXCEPT ![b] = r]
<1>1. TypeOK /\ LedgerInv /\ KeptInv /\ ReceiptsInv /\ RestInv
  BY DEF IInv, RestInv
<1>2. PICK ok \in BOOLEAN :
        /\ Writes(os, saved.receipts, ok)
        /\ ops' = IF ok THEN os ELSE [os EXCEPT ![b].state = "interrupted"]
        /\ broken' = [broken EXCEPT !.ops = @ \/ ~ok]
        /\ turn' = IF ok /\ active = Idle THEN "pump" ELSE "free"
  BY DEF Create
<1>3. /\ turn = "free" /\ life = "up" /\ ops[b].state = "none"
      /\ UNCHANGED <<remote, receipts, copy, requests, snapshots, orphans, uploads, active, scan, queued,
                     checking, maintenance, life>>
  BY DEF Create, Quiet, Admits, outside
<1> DEFINE om == IF ok THEN os ELSE [os EXCEPT ![b].state = "interrupted"]
<1>4. Pruned \in Ledger /\ Moved(ops, Pruned)
  <2>1. ops \in Ledger
    BY <1>1 DEF TypeOK
  <2>2. ASSUME NEW c \in Ids
        PROVE  /\ Pruned[c] \in [state : OpStates, scheduled : BOOLEAN, remote : BOOLEAN]
               /\ OpMoved(ops[c], Pruned[c], copy[c])
    <3>1. ops[c] \in [state : OpStates, scheduled : BOOLEAN, remote : BOOLEAN]
      BY <2>1 DEF Ledger
    <3>2. CASE Prunable(c)
      <4> DEFINE p == [ops[c] EXCEPT !.state = "pruned"]
      <4>1. Pruned[c] = p
        BY <3>2 DEF Pruned
      <4>2. /\ p \in [state : OpStates, scheduled : BOOLEAN, remote : BOOLEAN]
            /\ p.state = "pruned" /\ p.scheduled = ops[c].scheduled /\ p.remote = ops[c].remote
        BY <3>1 DEF OpStates
      <4> HIDE DEF p
      <4> QED
        BY <3>2, <4>1, <4>2 DEF OpMoved, Prunable
    <3>3. CASE ~Prunable(c)
      <4>1. Pruned[c] = ops[c]
        BY <3>3 DEF Pruned
      <4> QED
        BY <1>1, <3>1, <4>1 DEF OpMoved, LedgerInv
    <3> QED
      BY <3>2, <3>3
  <2> QED
    BY <2>2 DEF Ledger, Moved, Pruned
<1>5. /\ r \in [state : OpStates, scheduled : BOOLEAN, remote : BOOLEAN]
      /\ r.state = "queued"
  BY <1>1 DEF TypeOK, OpStates
<1>6. os \in Ledger /\ os[b] = r /\ \A c \in Ids : c # b => os[c] = Pruned[c]
  <2> HIDE DEF r
  <2> QED
    BY <1>4, <1>5 DEF Ledger
<1>7. /\ om \in Ledger /\ \A c \in Ids : c # b => om[c] = Pruned[c]
      /\ om[b].state \in {"queued", "interrupted"}
      /\ om[b].scheduled = os[b].scheduled /\ om[b].remote = os[b].remote
  <2> HIDE DEF r
  <2>1. CASE ok
    BY <1>5, <1>6, <2>1
  <2>2. CASE ~ok
    <3> DEFINE q == [r EXCEPT !.state = "interrupted"]
    <3>1. /\ q \in [state : OpStates, scheduled : BOOLEAN, remote : BOOLEAN]
          /\ q.state = "interrupted" /\ q.scheduled = r.scheduled /\ q.remote = r.remote
      BY <1>5 DEF OpStates
    <3>2. om = [os EXCEPT ![b] = q]
      BY <1>6, <2>2 DEF Ledger
    <3> HIDE DEF q, os, om
    <3> QED
      BY <1>6, <3>1, <3>2 DEF Ledger
  <2> QED
    BY <2>1, <2>2
<1>8. os[b].state = "queued" /\ (ok => om = os) /\ ops' = om
  BY <1>2, <1>5, <1>6
<1> HIDE DEF r, os, om
<1>9. Moved(ops, os) /\ Moved(ops, om)
  BY <1>3, <1>4, <1>6, <1>7, <1>8 DEF Moved, OpMoved
<1>10. \A c \in Ids : Tracks(om[c], os[c])
  BY <1>6, <1>7, <1>8 DEF Tracks
<1>11. \A c \in Ids : om[c].state = "succeeded" => ops[c].state = "succeeded"
  <2>1. \A c \in Ids : Pruned[c].state = "succeeded" => ops[c].state = "succeeded"
    BY DEF Pruned, Prunable
  <2> QED
    BY <1>7, <2>1
<1>12. /\ saved' \in {saved, [ops |-> os, receipts |-> saved.receipts]}
       /\ events' \in {events, events + 1} /\ events' \in 0 .. MaxEvents
  BY <1>1, <1>2, <1>6, Written, ReceiptTypes
<1>13. /\ LedgerInv' /\ KeptInv' /\ saved'.receipts = saved.receipts
       /\ saved' \in [ops : Ledger, receipts : TransferLedger]
       /\ \A c \in Ids : (Forgotten(c) => Forgotten(c)') /\ (Retirable(c) => Retirable(c)')
  BY <1>1, <1>3, <1>6, <1>7, <1>8, <1>9, <1>10, <1>11, <1>12, LedgerStep
<1>14. broken' \in [ops : BOOLEAN, receipts : BOOLEAN] /\ (broken.ops => broken'.ops)
  BY <1>1, <1>2 DEF TypeOK
<1>15. ReceiptsInv'
  BY <1>1, <1>3, <1>12, <1>13, <1>14, ReceiptsStay DEF Halted, TypeOK
<1>16. TypeOK'
  BY <1>1, <1>2, <1>3, <1>7, <1>8, <1>12, <1>13, <1>14 DEF TypeOK
<1>17. ActiveInv' /\ LifeInv'
  BY <1>1, <1>2, <1>3 DEF RestInv, ActiveInv, LifeInv, Idle
<1>18. WorkInv'
  <2>1. active # Idle => turn' = "free"
    BY <1>2
  <2>2. active.stage \in {"copying", "check"} => active.id \in Ids /\ active # Idle
    BY <1>1 DEF RestInv, ActiveInv, Idle
  <2>3. \A c \in Ids : ops[c].state = "running" => om[c].state = "running"
    <3>1. \A c \in Ids : ops[c].state = "running" => Pruned[c].state = "running"
      BY DEF Pruned, Prunable
    <3> QED
      BY <1>3, <1>7, <3>1
  <2>4. \A c \in scan'.left : Retirable(c)'
    BY <1>1, <1>3, <1>13 DEF RestInv, WorkInv, TypeOK
  <2>5. turn' \in {"free", "pump"}
    BY <1>2
  <2>6. active.stage = "copying" => om[active.id].state = "running"
    BY <1>1, <1>3, <2>2, <2>3 DEF RestInv, WorkInv
  <2>7. active.stage = "check" => Retirable(active.id)'
    BY <1>1, <1>3, <1>13, <2>2 DEF RestInv, WorkInv, Retirable
  <2> QED
    BY <1>3, <1>8, <2>4, <2>5, <2>6, <2>7 DEF WorkInv
<1>19. TransferInv'
  <2>1. Transferring => active # Idle
    BY DEF Transferring, Idle
  <2> QED
    BY <1>1, <1>2, <1>3, <1>13, <2>1 DEF RestInv, TransferInv, Transferring, Current, Budget
<1> QED
  BY <1>13, <1>15, <1>16, <1>17, <1>18, <1>19 DEF IInv

LEMMA CloseStep == ASSUME IInv, Close PROVE IInv'
<1> DEFINE os == [b \in Ids |-> IF ops[b].state = "queued" THEN [ops[b] EXCEPT !.state = "interrupted"]
                                ELSE ops[b]]
<1>1. TypeOK /\ LedgerInv /\ KeptInv /\ ReceiptsInv /\ RestInv
  BY DEF IInv, RestInv
<1>2. /\ turn = "free" /\ life = "up" /\ life' = "closing" /\ queued' = None
      /\ UNCHANGED <<remote, receipts, copy, requests, snapshots, orphans, uploads, active, scan, turn,
                     checking, broken, maintenance>>
  BY DEF Close, Quiet, outside
<1>3. ops' = os /\ saved' \in {saved, [ops |-> os, receipts |-> saved.receipts]}
  BY DEF Close, Outcomes
<1>4. events' \in {events, events + 1} /\ events' \in 0 .. MaxEvents
  BY <1>1, Constants DEF Close, Happens, TypeOK
<1>5. os \in Ledger /\ Moved(ops, os)
      /\ \A c \in Ids : ops[c].state \in {"running", "succeeded"} <=> os[c].state \in {"running", "succeeded"}
  <2>1. ASSUME NEW c \in Ids
        PROVE  /\ os[c] \in [state : OpStates, scheduled : BOOLEAN, remote : BOOLEAN]
               /\ OpMoved(ops[c], os[c], copy[c])
               /\ ops[c].state \in {"running", "succeeded"} <=> os[c].state \in {"running", "succeeded"}
               /\ ops[c].state # "queued" => os[c] = ops[c]
    <3>1. ops[c] \in [state : OpStates, scheduled : BOOLEAN, remote : BOOLEAN]
      BY <1>1 DEF TypeOK, Ledger
    <3>2. CASE ops[c].state = "queued"
      <4> DEFINE p == [ops[c] EXCEPT !.state = "interrupted"]
      <4>1. os[c] = p
        BY <3>2
      <4>2. /\ p \in [state : OpStates, scheduled : BOOLEAN, remote : BOOLEAN]
            /\ p.state = "interrupted" /\ p.scheduled = ops[c].scheduled /\ p.remote = ops[c].remote
        BY <3>1 DEF OpStates
      <4> HIDE DEF p, os
      <4> QED
        BY <3>2, <4>1, <4>2 DEF OpMoved
    <3>3. CASE ops[c].state # "queued"
      <4>1. os[c] = ops[c]
        BY <3>3
      <4> HIDE DEF os
      <4> QED
        BY <1>1, <3>1, <3>3, <4>1 DEF OpMoved, LedgerInv
    <3> QED
      BY <3>2, <3>3
  <2>2. os = [c \in Ids |-> os[c]]
    OBVIOUS
  <2> HIDE DEF os
  <2> QED
    BY <2>1, <2>2 DEF Ledger, Moved
<1>6. \A c \in Ids : ops[c].state # "queued" => os[c] = ops[c]
  OBVIOUS
<1>7. \A c \in Ids : os[c].state = "succeeded" => ops[c].state = "succeeded"
  <2> SUFFICES ASSUME NEW c \in Ids, ops[c].state = "queued", os[c].state = "succeeded" PROVE FALSE
    BY <1>6
  <2>1. ops[c].state \notin {"running", "succeeded"}
    OBVIOUS
  <2> HIDE DEF os
  <2> QED
    BY <1>5, <2>1
<1> HIDE DEF os
<1>8. \A c \in Ids : Tracks(os[c], os[c])
  BY TracksItself
<1>9. /\ LedgerInv' /\ KeptInv' /\ saved'.receipts = saved.receipts
      /\ saved' \in [ops : Ledger, receipts : TransferLedger]
      /\ \A c \in Ids : (Forgotten(c) => Forgotten(c)') /\ (Retirable(c) => Retirable(c)')
  BY <1>1, <1>2, <1>3, <1>5, <1>7, <1>8, LedgerStep
<1>10. ReceiptsInv'
  BY <1>1, <1>2, <1>4, <1>9, ReceiptsStay DEF Halted, TypeOK
<1>11. TypeOK'
  BY <1>1, <1>2, <1>3, <1>4, <1>5, <1>9 DEF TypeOK
<1>12. ActiveInv' /\ LifeInv'
  BY <1>1, <1>2 DEF RestInv, ActiveInv, LifeInv
<1>13. WorkInv'
  <2>1. active.stage \in {"copying", "check"} => active.id \in Ids
    BY <1>1 DEF RestInv, ActiveInv, Idle
  <2>2. \A c \in scan'.left : Retirable(c)'
    BY <1>1, <1>2, <1>9 DEF RestInv, WorkInv, TypeOK
  <2>3. active.stage = "copying" => os[active.id].state = "running"
    BY <1>1, <1>2, <1>6, <2>1 DEF RestInv, WorkInv
  <2>4. active.stage = "check" => Retirable(active.id)'
    BY <1>1, <1>2, <1>9, <2>1 DEF RestInv, WorkInv, Retirable
  <2> QED
    BY <1>2, <1>3, <2>2, <2>3, <2>4 DEF WorkInv
<1>14. TransferInv'
  BY <1>1, <1>2, <1>9 DEF RestInv, TransferInv, Transferring, Current, Budget
<1> QED
  BY <1>9, <1>10, <1>11, <1>12, <1>13, <1>14 DEF IInv

-----------------------------------------------------------------------------
(* The executor, retention and restores                                      *)

\* Steps that write no ledger and touch no copy.
LEMMA StillStep ==
  ASSUME TypeOK, LedgerInv, KeptInv, ReceiptsInv, UNCHANGED <<ops, receipts, saved, copy, uploads>>,
         \A b \in requests' : copy[b] = "whole", snapshots' \in [Ids -> Nat],
         \A b \in Ids : snapshots'[b] >= snapshots[b],
         events' \in {events, events + 1}, Halted => Halted'
  PROVE  LedgerInv' /\ KeptInv' /\ ReceiptsInv'
<1>1. \A b \in Ids : Forgotten(b) => Forgotten(b)'
  BY DEF Forgotten
<1>2. ReceiptsInv'
  BY <1>1, ReceiptsStay
<1>3. LedgerInv'
  BY DEF LedgerInv
<1>4. KeptInv'
  BY KeptNext DEF KeptInv
<1> QED
  BY <1>2, <1>3, <1>4

\* The usual case of it.
LEMMA StillerStep ==
  ASSUME TypeOK, LedgerInv, KeptInv, ReceiptsInv,
         UNCHANGED <<ops, receipts, saved, copy, uploads, requests, snapshots>>,
         events' \in {events, events + 1}, Halted => Halted'
  PROVE  LedgerInv' /\ KeptInv' /\ ReceiptsInv'
<1>1. /\ \A b \in requests' : copy[b] = "whole"
      /\ snapshots' \in [Ids -> Nat] /\ snapshots \in [Ids -> Nat]
  BY DEF KeptInv, TypeOK
<1>2. \A b \in Ids : snapshots'[b] >= snapshots[b]
  BY <1>1
<1> QED
  BY <1>1, <1>2, StillStep

\* Only a transfer that is due waits for the executor.
LEMMA TicksPending ==
  ASSUME NEW rs, NEW down, NEW q \in Ticks(rs, down)
  PROVE  q = None \/ (q \in Ids /\ rs[q].state = "pending")
BY DEF Ticks, Due, Fresh

LEMMA PumpStep == ASSUME IInv, Pump PROVE IInv'
<1>1. TypeOK /\ LedgerInv /\ KeptInv /\ ReceiptsInv /\ RestInv
  BY DEF IInv, RestInv
<1>2. /\ turn = "pump" /\ active = Idle /\ life # "down"
      /\ UNCHANGED <<remote, ops, receipts, saved, copy, requests, snapshots, orphans, uploads, scan,
                     checking, broken, maintenance, life, events>>
  BY <1>1 DEF RestInv, ActiveInv, LifeInv, Pump, Idle, durable, outside, process
<1>3. \/ turn' = "free" /\ active' = Idle /\ queued' = queued
      \/ /\ life = "up" /\ ~broken.ops /\ turn' = "begin"
         /\ \/ /\ In({"queued"}) # {} /\ queued' = queued
               /\ active' = [kind |-> "backup", id |-> Chosen, stage |-> "idle"]
            \/ /\ queued # None /\ queued' = None
               /\ active' = [kind |-> "transfer", id |-> queued, stage |-> "idle"]
  BY DEF Pump
<1>4. In({"queued"}) # {} => Chosen \in Ids /\ ops[Chosen].state = "queued"
  <2> DEFINE S == In({"queued"})
  <2>1. S \subseteq Ids /\ Scheduled(S) \subseteq S /\ \A b \in S : ops[b].state = "queued"
    BY DEF In, Scheduled
  <2>2. CASE Scheduled(S) # {}
    <3>1. Min(Scheduled(S)) \in Scheduled(S)
      BY <2>1, <2>2, OldestIs
    <3> QED
      BY <2>1, <2>2, <3>1 DEF Chosen
  <2>3. CASE Scheduled(S) = {} /\ S # {}
    <3>1. Min(S) \in S
      BY <2>1, <2>3, OldestIs
    <3> QED
      BY <2>1, <2>3, <3>1 DEF Chosen
  <2> QED
    BY <2>2, <2>3
<1>5. LedgerInv' /\ KeptInv' /\ ReceiptsInv'
  <2>1. Halted => Halted'
    BY <1>2, <1>3 DEF Halted
  <2> QED
    BY <1>1, <1>2, <2>1, StillerStep
<1>6. /\ active' \in [kind : {"none", "backup", "transfer", "inquiry"}, id : Ids \cup {None},
                      stage : {"idle", "copying", "retain", "check", "verify", "inventory", "upload"}]
      /\ queued' \in Ids \cup {None} /\ turn' \in {"free", "begin"}
  BY <1>1, <1>3, <1>4 DEF TypeOK, Idle
<1>7. TypeOK'
  BY <1>1, <1>2, <1>6 DEF TypeOK
<1>8. ActiveInv' /\ LifeInv'
  BY <1>1, <1>2, <1>3, <1>4 DEF ActiveInv, LifeInv, TypeOK
<1>9. WorkInv'
  BY <1>1, <1>2, <1>3, <1>4 DEF RestInv, WorkInv, Retirable, Idle
<1>10. TransferInv'
  <2>1. queued # None => receipts[queued].state = "pending"
    BY <1>1 DEF RestInv, TransferInv
  <2> QED
    BY <1>2, <1>3, <2>1 DEF TransferInv, Transferring, Current, Idle
<1> QED
  BY <1>5, <1>7, <1>8, <1>9, <1>10 DEF IInv

LEMMA ReconciledStep == ASSUME IInv, Reconciled PROVE IInv'
<1>1. TypeOK /\ LedgerInv /\ KeptInv /\ ReceiptsInv /\ RestInv
  BY DEF IInv, RestInv
<1>2. /\ turn = "reconcile" /\ life # "down"
      /\ active = Idle \/ (active.id \in Ids /\ active.kind = "backup" /\ active.stage = "copying")
      /\ UNCHANGED <<remote, ops, receipts, saved, copy, requests, snapshots, orphans, uploads,
                     checking, broken, maintenance, life, events>>
  BY <1>1 DEF RestInv, ActiveInv, LifeInv, Reconciled, Idle, durable, outside, process
<1>3. \/ /\ active.kind = "backup" /\ active.stage = "copying" /\ active.id \in Ids
         /\ scan' = [left |-> Scheduled(Succeeded), held |-> Protected]
         /\ active' = [active EXCEPT !.stage = "retain"] /\ turn' = "retain"
      \/ turn' = "pump" /\ active' = Idle /\ UNCHANGED scan
  BY <1>2 DEF Reconciled, Idle
<1>4. /\ ~Transferring
      /\ queued' = queued \/ queued' = None \/ (queued' \in Ids /\ receipts[queued'].state = "pending")
  <2>1. ~Transferring
    BY <1>2 DEF Transferring, Idle
  <2>2. queued' \in {queued} \cup Ticks(receipts, broken)
    BY DEF Reconciled, Tick
  <2> QED
    BY <2>1, <2>2, TicksPending
<1>5. LedgerInv' /\ KeptInv' /\ ReceiptsInv'
  <2>1. Halted => Halted'
    BY <1>2, <1>3 DEF Halted, Idle
  <2> QED
    BY <1>1, <1>2, <2>1, StillerStep
<1>6. /\ active' \in [kind : {"none", "backup", "transfer", "inquiry"}, id : Ids \cup {None},
                      stage : {"idle", "copying", "retain", "check", "verify", "inventory", "upload"}]
      /\ turn' = "retain" => active'.kind = "backup" /\ active'.stage = "retain" /\ active'.id \in Ids
  BY <1>1, <1>3 DEF TypeOK, Idle
<1>7. Scheduled(Succeeded) \subseteq Ids /\ Protected \subseteq Ids
  <2>1. Succeeded \subseteq Ids /\ Scheduled(Succeeded) \subseteq Ids
    BY DEF Succeeded, In, Scheduled
  <2>2. Latest(Succeeded) \subseteq Ids /\ Latest(Scheduled(Succeeded)) \subseteq Ids
    BY <2>1, NewestIs
  <2> QED
    BY <1>1, <2>1, <2>2 DEF TypeOK, Protected, Unconfirmed, Unrecorded
<1>8. TypeOK'
  <2>1. scan' \in [left : SUBSET Ids, held : SUBSET Ids]
    BY <1>1, <1>3, <1>7 DEF TypeOK
  <2>2. queued' \in Ids \cup {None} /\ turn' \in {"retain", "pump"}
    BY <1>1, <1>3, <1>4 DEF TypeOK
  <2> QED
    BY <1>1, <1>2, <1>6, <2>1, <2>2 DEF TypeOK
<1>9. ActiveInv' /\ LifeInv'
  BY <1>2, <1>3, <1>6 DEF ActiveInv, LifeInv
<1>10. WorkInv'
  <2>1. \A b \in scan'.left : Retirable(b)'
    <3>1. \A b \in Scheduled(Succeeded) : ops[b].state \in {"succeeded", "pruned"} /\ ops[b].scheduled
      BY DEF Scheduled, Succeeded, In
    <3> QED
      BY <1>1, <1>2, <1>3, <3>1 DEF RestInv, WorkInv, Retirable
  <2> QED
    BY <1>3, <1>6, <2>1 DEF WorkInv, Idle
<1>11. TransferInv'
  <2>1. ~Transferring'
    BY <1>3, <1>6 DEF Transferring, Idle
  <2> QED
    BY <1>1, <1>2, <1>4, <2>1 DEF RestInv, TransferInv, Transferring
<1> QED
  BY <1>5, <1>8, <1>9, <1>10, <1>11 DEF IInv

LEMMA RetainStep == ASSUME IInv, Retain PROVE IInv'
<1>1. TypeOK /\ LedgerInv /\ KeptInv /\ ReceiptsInv /\ RestInv
  BY DEF IInv, RestInv
<1>2. /\ turn = "retain" /\ life # "down" /\ active.kind = "backup" /\ active # Idle
      /\ UNCHANGED <<remote, receipts, copy, requests, outside, queued, checking, maintenance, life>>
  <2>1. /\ turn = "retain"
        /\ UNCHANGED <<remote, receipts, copy, requests, outside, queued, checking, maintenance, life>>
    BY DEF Retain
  <2> QED
    BY <1>1, <2>1 DEF RestInv, ActiveInv, LifeInv, Idle
<1>3. CASE RetentionEnds
  BY <1>2, <1>3, RetentionEndsStep
<1>4. ASSUME NEW b \in scan.left,
             scan' = [scan EXCEPT !.left = {c \in scan.left : c < b}],
             active' = [active EXCEPT !.id = b, !.stage = "check"], turn' = "free",
             UNCHANGED <<ops, saved, broken, events>>
      PROVE  IInv'
  <2>1. b \in Ids /\ Retirable(b) /\ snapshots' = snapshots /\ uploads' = uploads /\ orphans' = orphans
    BY <1>1, <1>2 DEF RestInv, WorkInv, TypeOK, outside
  <2>2. /\ active' \in [kind : {"none", "backup", "transfer", "inquiry"}, id : Ids \cup {None},
                        stage : {"idle", "copying", "retain", "check", "verify", "inventory", "upload"}]
        /\ active'.kind = "backup" /\ active'.id = b /\ active'.stage = "check"
    BY <1>1, <1>2, <1>4, <2>1 DEF TypeOK
  <2>3. scan' \in [left : SUBSET Ids, held : SUBSET Ids] /\ scan'.left \subseteq scan.left
    BY <1>1, <1>4 DEF TypeOK
  <2>4. LedgerInv' /\ KeptInv' /\ ReceiptsInv'
    BY <1>1, <1>2, <1>4, <2>1, StillerStep DEF Halted
  <2>5. TypeOK'
    BY <1>1, <1>2, <1>4, <2>1, <2>2, <2>3 DEF TypeOK
  <2>6. ActiveInv' /\ LifeInv'
    BY <1>2, <1>4, <2>1, <2>2 DEF ActiveInv, LifeInv
  <2>7. WorkInv'
    BY <1>1, <1>4, <2>1, <2>2, <2>3 DEF RestInv, WorkInv, Retirable
  <2>8. TransferInv'
    BY <1>1, <1>2, <2>2 DEF RestInv, TransferInv, Transferring
  <2> QED
    BY <2>4, <2>5, <2>6, <2>7, <2>8 DEF IInv
<1> QED
  BY <1>3, <1>4 DEF Retain

LEMMA CheckedStep == ASSUME IInv, Checked PROVE IInv'
<1>1. TypeOK /\ LedgerInv /\ KeptInv /\ ReceiptsInv /\ RestInv
  BY DEF IInv, RestInv
<1>2. /\ turn = "free" /\ life # "down" /\ active.kind = "backup" /\ active.stage = "check"
      /\ active.id \in Ids /\ active # Idle /\ Retirable(active.id)
      /\ UNCHANGED <<remote, receipts, copy, requests, outside, queued, checking, maintenance, life>>
  BY <1>1 DEF RestInv, ActiveInv, WorkInv, LifeInv, Checked, Quiet, Idle
<1>3. CASE RetentionEnds
  BY <1>2, <1>3, RetentionEndsStep
<1>4. CASE /\ copy[active.id] = "whole"
           /\ active' = [active EXCEPT !.stage = "retain"]
           /\ turn' = IF active.id \in Protected THEN "retain" ELSE "remove"
           /\ UNCHANGED <<ops, scan, saved, broken, events>>
  <2>1. snapshots' = snapshots /\ uploads' = uploads /\ orphans' = orphans
    BY <1>2 DEF outside
  <2>2. /\ active' \in [kind : {"none", "backup", "transfer", "inquiry"}, id : Ids \cup {None},
                        stage : {"idle", "copying", "retain", "check", "verify", "inventory", "upload"}]
        /\ active'.kind = "backup" /\ active'.id = active.id /\ active'.stage = "retain"
    BY <1>1, <1>2, <1>4 DEF TypeOK
  <2>3. LedgerInv' /\ KeptInv' /\ ReceiptsInv'
    BY <1>1, <1>2, <1>4, <2>1, StillerStep DEF Halted
  <2>4. TypeOK'
    BY <1>1, <1>2, <1>4, <2>1, <2>2 DEF TypeOK
  <2>5. ActiveInv' /\ LifeInv'
    BY <1>2, <1>4, <2>2 DEF ActiveInv, LifeInv
  <2>6. WorkInv'
    <3>1. ops[active.id].state = "succeeded"
      BY <1>1, <1>2, <1>4 DEF Retirable, LedgerInv
    <3>2. Protected' = Protected /\ Succeeded' = Succeeded
      BY <1>2, <1>4 DEF Protected, Succeeded, In, Unconfirmed, Unrecorded, HasReceipt, Scheduled, Latest
    <3>3. active.id \in Succeeded
      BY <1>2, <3>1 DEF Succeeded, In
    <3>4. \A b \in Ids : Retirable(b) <=> Retirable(b)'
      BY <1>4 DEF Retirable
    <3>5. turn' = "remove" => Retirable(active.id)' /\ active'.id \in Succeeded' \ Protected'
      BY <1>2, <1>4, <2>2, <3>2, <3>3 DEF Retirable
    <3>6. \A b \in scan'.left : Retirable(b)'
      BY <1>1, <1>4 DEF RestInv, WorkInv, Retirable
    <3> QED
      BY <1>4, <2>2, <3>5, <3>6 DEF WorkInv
  <2>7. TransferInv'
    BY <1>1, <1>2, <2>2 DEF RestInv, TransferInv, Transferring
  <2> QED
    BY <2>3, <2>4, <2>5, <2>6, <2>7 DEF IInv
<1> QED
  BY <1>3, <1>4 DEF Checked

\* What retention removes is not needed by either ledger with either receipts.
LEMMA RemovedIsNotNeeded ==
  ASSUME TypeOK, LedgerInv, ReceiptsInv, active # Idle, NEW a \in Ids,
         a \in Succeeded \ Protected, ops[a].scheduled,
         NEW O \in {ops, saved.ops}, NEW R \in {receipts, saved.receipts}
  PROVE  a \notin Needed(O, R)
<1>1. /\ O[a].scheduled /\ O[a].remote = ops[a].remote
      /\ \A c \in Ids : ops[c].state = "succeeded" =>
           O[c].state = "succeeded" /\ O[c].scheduled = ops[c].scheduled
  <2>1. CASE O = ops
    BY <2>1
  <2>2. CASE O = saved.ops
    <3>1. \A c \in Ids : ops[c].state = "succeeded" =>
            /\ saved.ops[c].state = "succeeded" /\ saved.ops[c].scheduled = ops[c].scheduled
            /\ saved.ops[c].remote = ops[c].remote
      BY DEF LedgerInv, Tracks
    <3>2. ops[a].state = "succeeded"
      BY DEF Succeeded, In
    <3> QED
      BY <2>2, <3>1, <3>2
  <2> QED
    BY <2>1, <2>2
<1>2. ops[a].remote => R[a].state = "confirmed"
  <2> SUFFICES ASSUME ops[a].remote PROVE R[a].state = "confirmed"
    OBVIOUS
  <2>1. receipts[a].state \in ReceiptStates
    BY DEF TypeOK, TransferLedger
  <2>2. receipts[a].state = "confirmed"
    BY <2>1 DEF Protected, Unconfirmed, Unrecorded, HasReceipt, ReceiptStates
  <2>3. saved.receipts[a].state = "confirmed"
    BY <2>2 DEF ReceiptsInv
  <2> QED
    BY <2>2, <2>3
<1>3. /\ Succeeded \subseteq Ids /\ Scheduled(Succeeded) \subseteq Ids /\ a \in Scheduled(Succeeded)
      /\ Done(O) \subseteq Ids /\ DoneScheduled(O) \subseteq Ids
      /\ Succeeded \subseteq Done(O) /\ Scheduled(Succeeded) \subseteq DoneScheduled(O)
  BY <1>1 DEF Succeeded, In, Scheduled, Done, DoneScheduled
<1>4. a \notin Latest(Succeeded) /\ a \notin Latest(Scheduled(Succeeded))
  BY DEF Protected
<1>5. PICK c \in Succeeded : ~(c <= a)
  BY <1>3, <1>4, NewestIs
<1>6. PICK d \in Scheduled(Succeeded) : ~(d <= a)
  BY <1>3, <1>4, NewestIs
<1>7. a \notin Latest(Done(O))
  BY <1>3, <1>5, NewestIs
<1>8. a \notin Latest(DoneScheduled(O))
  BY <1>3, <1>6, NewestIs
<1> QED
  BY <1>1, <1>2, <1>7, <1>8 DEF Needed

LEMMA RemoveStep == ASSUME IInv, Remove PROVE IInv'
<1> DEFINE a == active.id
<1>1. TypeOK /\ LedgerInv /\ KeptInv /\ ReceiptsInv /\ RestInv
  BY DEF IInv, RestInv
<1>2. /\ turn = "remove" /\ life # "down" /\ active.kind = "backup" /\ active.stage = "retain"
      /\ a \in Ids /\ active # Idle /\ Retirable(a) /\ a \in Succeeded \ Protected
      /\ UNCHANGED <<remote, receipts, requests, snapshots, orphans, uploads, queued, checking,
                     maintenance, life>>
  BY <1>1 DEF RestInv, ActiveInv, WorkInv, LifeInv, Remove, Idle, outside
<1>3. /\ copy' \in [Ids -> {"absent", "whole", "torn"}] /\ ops' = ops
      /\ \A b \in Ids : b # a => copy'[b] = copy[b]
  BY <1>1 DEF Remove, TypeOK, RetentionEnds
<1>4. \/ /\ UNCHANGED <<saved, active, scan, broken, events>>
         /\ turn' \in {"remove", "retain"}
      \/ /\ \E ok \in BOOLEAN : Writes(ops, saved.receipts, ok) /\ broken' = [broken EXCEPT !.ops = @ \/ ~ok]
         /\ active' = Idle /\ scan' = NoScan /\ turn' = "pump"
  BY DEF Remove, RetentionEnds
<1>5. /\ saved' \in {saved, [ops |-> ops, receipts |-> saved.receipts]}
      /\ events' \in {events, events + 1} /\ events' \in 0 .. MaxEvents
      /\ broken' \in [ops : BOOLEAN, receipts : BOOLEAN] /\ (Halted => Halted')
  <2>1. ops \in Ledger /\ saved.receipts \in TransferLedger /\ ~Halted
    BY <1>1, <1>2, ReceiptTypes DEF TypeOK, Halted
  <2>2. CASE UNCHANGED <<saved, broken, events>>
    BY <1>1, <2>1, <2>2 DEF TypeOK
  <2>3. ASSUME NEW ok \in BOOLEAN, Writes(ops, saved.receipts, ok), broken' = [broken EXCEPT !.ops = @ \/ ~ok]
        PROVE  /\ saved' \in {saved, [ops |-> ops, receipts |-> saved.receipts]}
               /\ events' \in {events, events + 1} /\ events' \in 0 .. MaxEvents
               /\ broken' \in [ops : BOOLEAN, receipts : BOOLEAN]
    <3>1. broken' \in [ops : BOOLEAN, receipts : BOOLEAN]
      BY <1>1, <2>3 DEF TypeOK
    <3> QED
      BY <1>1, <2>1, <2>3, <3>1, Written
  <2> QED
    BY <1>4, <2>1, <2>2, <2>3
<1>6. /\ saved' \in [ops : Ledger, receipts : TransferLedger] /\ saved'.receipts = saved.receipts
      /\ saved'.ops \in {ops, saved.ops}
  BY <1>1, <1>5 DEF TypeOK
<1>7. LedgerInv'
  <2>1. ops[a].state # "pruned"
    BY <1>2 DEF Succeeded, In
  <2>2. \A b \in Ids : Tracks(ops[b], saved'.ops[b])
    BY <1>1, <1>6, TracksItself DEF LedgerInv
  <2> HIDE DEF a
  <2> QED
    BY <1>1, <1>3, <2>1, <2>2 DEF LedgerInv
<1>8. KeptInv'
  <2>1. \A O \in {ops, saved.ops}, R \in {receipts, saved.receipts} : a \notin Needed(O, R)
    BY <1>1, <1>2, RemovedIsNotNeeded DEF Retirable
  <2>2. \A O \in {ops, saved.ops}, R \in {receipts, saved.receipts} : Needed(O, R) \subseteq Ids
    <3>1. \A O : Done(O) \subseteq Ids /\ DoneScheduled(O) \subseteq Ids
      BY DEF Done, DoneScheduled
    <3>2. \A O : Latest(Done(O)) \subseteq Ids /\ Latest(DoneScheduled(O)) \subseteq Ids
      BY <3>1, NewestIs
    <3> QED
      BY <3>1, <3>2 DEF Needed
  <2>3. a \notin requests /\ requests \subseteq Ids
    BY <1>1, <1>2 DEF Protected, TypeOK
  <2>4. \A b \in requests' : copy'[b] = "whole"
    BY <1>1, <1>2, <1>3, <2>3 DEF KeptInv
  <2>5. \A O \in {ops, saved.ops}, R \in {receipts, saved.receipts} :
          \A b \in Needed(O, R) : copy'[b] = "whole"
    <3> HIDE DEF a
    <3> QED
      BY <1>1, <1>3, <2>1, <2>2 DEF KeptInv
  <2> QED
    BY <1>2, <1>3, <1>6, <2>4, <2>5, KeptNext
<1>9. ReceiptsInv'
  <2>1. snapshots \in [Ids -> Nat] /\ events \in Nat
    BY <1>1, ReceiptTypes
  <2>2. \A b \in Ids : Forgotten(b) => Forgotten(b)'
    BY <1>3, <1>6 DEF Forgotten
  <2>3. \A b \in Ids : snapshots'[b] >= snapshots[b]
    BY <1>2, <2>1
  <2> QED
    BY <1>1, <1>2, <1>5, <1>6, <2>1, <2>2, <2>3, ReceiptsStay
<1>10. CASE UNCHANGED <<active, scan>> /\ turn' \in {"remove", "retain"} /\ saved' = saved
  <2>1. TypeOK'
    BY <1>1, <1>2, <1>3, <1>5, <1>6, <1>10 DEF TypeOK
  <2>2. ActiveInv' /\ LifeInv'
    BY <1>2, <1>10 DEF ActiveInv, LifeInv
  <2>3. Protected' = Protected /\ Succeeded' = Succeeded
    BY <1>2, <1>3 DEF Protected, Succeeded, In, Unconfirmed, Unrecorded, HasReceipt, Scheduled, Latest
  <2>4. Retirable(active.id)' /\ \A b \in scan'.left : Retirable(b)'
    BY <1>1, <1>2, <1>3, <1>10 DEF RestInv, WorkInv, Retirable
  <2>5. WorkInv'
    BY <1>2, <1>10, <2>3, <2>4 DEF WorkInv
  <2>6. TransferInv'
    BY <1>1, <1>2, <1>10 DEF RestInv, TransferInv, Transferring
  <2> QED
    BY <1>7, <1>8, <1>9, <2>1, <2>2, <2>5, <2>6 DEF IInv
<1>11. CASE active' = Idle /\ scan' = NoScan /\ turn' = "pump"
  <2>1. Idle \in [kind : {"none", "backup", "transfer", "inquiry"}, id : Ids \cup {None},
                  stage : {"idle", "copying", "retain", "check", "verify", "inventory", "upload"}]
        /\ NoScan \in [left : SUBSET Ids, held : SUBSET Ids]
    BY DEF Idle, NoScan
  <2>2. TypeOK'
    BY <1>1, <1>2, <1>3, <1>5, <1>6, <1>11, <2>1 DEF TypeOK
  <2>3. ActiveInv' /\ LifeInv'
    BY <1>2, <1>11 DEF ActiveInv, LifeInv
  <2>4. WorkInv'
    BY <1>11 DEF WorkInv, NoScan, Idle
  <2>5. TransferInv'
    BY <1>1, <1>2, <1>11 DEF RestInv, TransferInv, Transferring, Idle
  <2> QED
    BY <1>7, <1>8, <1>9, <2>2, <2>3, <2>4, <2>5 DEF IInv
<1> QED
  BY <1>4, <1>10, <1>11

LEMMA VerifyTransferStep == ASSUME IInv, VerifyTransfer PROVE IInv'
<1>1. TypeOK /\ LedgerInv /\ KeptInv /\ ReceiptsInv /\ RestInv
  BY DEF IInv, RestInv
<1>2. /\ turn = "free" /\ life # "down" /\ Transferring /\ active.stage = "verify"
      /\ active.id \in Ids /\ active # Idle /\ active' = [active EXCEPT !.stage = "inventory"]
      /\ UNCHANGED <<remote, ops, receipts, saved, copy, requests, snapshots, orphans, uploads, scan,
                     turn, queued, checking, broken, maintenance, life, events>>
  BY <1>1 DEF RestInv, ActiveInv, LifeInv, VerifyTransfer, Quiet, Idle, durable, outside, process
<1>3. /\ active' \in [kind : {"none", "backup", "transfer", "inquiry"}, id : Ids \cup {None},
                      stage : {"idle", "copying", "retain", "check", "verify", "inventory", "upload"}]
      /\ active'.kind = active.kind /\ active'.id = active.id /\ active'.stage = "inventory"
  BY <1>1, <1>2 DEF TypeOK
<1>4. LedgerInv' /\ KeptInv' /\ ReceiptsInv'
  BY <1>1, <1>2, StillerStep DEF Halted
<1>5. TypeOK'
  BY <1>1, <1>2, <1>3 DEF TypeOK
<1>6. ActiveInv' /\ LifeInv'
  BY <1>2, <1>3 DEF ActiveInv, LifeInv, Transferring
<1>7. WorkInv'
  BY <1>1, <1>2, <1>3 DEF RestInv, WorkInv, Retirable
<1>8. TransferInv'
  BY <1>1, <1>2, <1>3 DEF RestInv, TransferInv, Transferring, Current, Budget
<1> QED
  BY <1>4, <1>5, <1>6, <1>7, <1>8 DEF IInv

LEMMA RemoteTickStep == ASSUME IInv, RemoteTick PROVE IInv'
<1>1. TypeOK /\ LedgerInv /\ KeptInv /\ ReceiptsInv /\ RestInv
  BY DEF IInv, RestInv
<1>2. /\ turn = "free" /\ life # "down" /\ ~Transferring
      /\ turn' = IF active = Idle THEN "pump" ELSE "free"
      /\ UNCHANGED <<remote, ops, receipts, saved, copy, requests, snapshots, orphans, uploads, active,
                     scan, checking, broken, maintenance, life, events>>
  BY DEF RemoteTick, Quiet, durable, outside, process
<1>3. queued' \in Ids /\ receipts[queued'].state = "pending"
  BY TicksPending DEF RemoteTick
<1>4. LedgerInv' /\ KeptInv' /\ ReceiptsInv'
  BY <1>1, <1>2, StillerStep DEF Halted
<1>5. TypeOK'
  BY <1>1, <1>2, <1>3 DEF TypeOK
<1>6. ActiveInv' /\ LifeInv'
  BY <1>1, <1>2 DEF RestInv, ActiveInv, LifeInv
<1>7. WorkInv'
  BY <1>1, <1>2 DEF RestInv, WorkInv, Retirable, Idle
<1>8. TransferInv'
  BY <1>1, <1>2, <1>3 DEF RestInv, TransferInv, Transferring
<1> QED
  BY <1>4, <1>5, <1>6, <1>7, <1>8 DEF IInv

\* Nothing but restores and uploads outside of the executor.
LEMMA AsideStep ==
  ASSUME IInv,
         UNCHANGED <<remote, ops, receipts, saved, copy, uploads, active, scan, turn, queued, broken, life>>,
         turn = "remove" => requests' = requests, requests' \subseteq Ids, orphans' \subseteq Ids, checking' \in Ids \cup {None},
         maintenance' \in BOOLEAN,
         \A b \in requests' : copy[b] = "whole", snapshots' \in [Ids -> Nat],
         \A b \in Ids : snapshots'[b] >= snapshots[b],
         events' \in {events, events + 1}, events' \in 0 .. MaxEvents
  PROVE  IInv'
<1>1. TypeOK /\ LedgerInv /\ KeptInv /\ ReceiptsInv /\ RestInv
  BY DEF IInv, RestInv
<1>2. LedgerInv' /\ KeptInv' /\ ReceiptsInv'
  BY <1>1, StillStep DEF Halted
<1>3. TypeOK'
  BY <1>1 DEF TypeOK
<1>4. ActiveInv' /\ LifeInv'
  BY <1>1 DEF RestInv, ActiveInv, LifeInv
<1>5. WorkInv'
  <2>1. Succeeded' = Succeeded /\ (requests' = requests => Protected' = Protected)
    BY DEF Protected, Succeeded, In, Unconfirmed, Unrecorded, HasReceipt, Scheduled, Latest
  <2> QED
    BY <1>1, <2>1 DEF RestInv, WorkInv, Retirable
<1>6. TransferInv'
  BY <1>1 DEF RestInv, TransferInv, Transferring, Current, Budget
<1> QED
  BY <1>2, <1>3, <1>4, <1>5, <1>6 DEF IInv

LEMMA OrphanEndsStep == ASSUME IInv, NEW b \in Ids, OrphanEnds(b) PROVE IInv'
<1>1. TypeOK /\ KeptInv
  BY DEF IInv
<1>2. /\ UNCHANGED <<remote, ops, receipts, saved, copy, requests, uploads, active, scan, turn, queued,
                     checking, broken, maintenance, life, events>>
      /\ orphans' \subseteq Ids
  BY <1>1 DEF OrphanEnds, TypeOK, durable, executor, process
<1>3. snapshots' \in [Ids -> Nat] /\ \A c \in Ids : snapshots'[c] >= snapshots[c]
  BY <1>1 DEF OrphanEnds, TypeOK
<1> QED
  BY <1>1, <1>2, <1>3, AsideStep DEF TypeOK, KeptInv

LEMMA RestoreSteps ==
  ASSUME IInv, Admitted \/ \E b \in Ids : AdmitRestore(b)
  PROVE  IInv'
<1>1. TypeOK /\ KeptInv
  BY DEF IInv
<1>2. /\ UNCHANGED <<remote, ops, receipts, saved, copy, snapshots, orphans, uploads, active, scan, turn,
                     queued, broken, life>>
      /\ turn = "free"
  BY DEF Admitted, AdmitRestore, Quiet, durable, outside, executor
<1>3. \A c \in Ids : snapshots'[c] >= snapshots[c]
  BY <1>1, <1>2 DEF TypeOK
<1>4. CASE Admitted
  <2>1. checking' \in Ids \cup {None} /\ maintenance' \in BOOLEAN /\ events' = events
    BY <1>1, <1>4 DEF Admitted, TypeOK
  <2>2. requests' \subseteq Ids /\ \A b \in requests' : copy[b] = "whole"
    BY <1>1, <1>4 DEF Admitted, TypeOK, KeptInv
  <2> QED
    BY <1>1, <1>2, <1>3, <2>1, <2>2, AsideStep DEF TypeOK
<1>5. ASSUME NEW b \in Ids, AdmitRestore(b) PROVE IInv'
  <2>1. checking' \in Ids \cup {None} /\ maintenance' \in BOOLEAN /\ requests' = requests
    BY <1>1, <1>5 DEF AdmitRestore, TypeOK, durable
  <2>2. events' = events + 1 /\ events' \in 0 .. MaxEvents
    BY <1>1, <1>5, Constants DEF AdmitRestore, Happens, TypeOK
  <2> QED
    BY <1>1, <1>2, <1>3, <2>1, <2>2, AsideStep DEF TypeOK, KeptInv
<1> QED
  BY <1>4, <1>5

-----------------------------------------------------------------------------
(* Transfers                                                                 *)

ReceiptRecords == [state : ReceiptStates, attempts : 0 .. AttemptLimit,
                   passes : 0 .. PassLimit, round : 0 .. MaxEvents]
Activities == [kind : {"none", "backup", "transfer", "inquiry"}, id : Ids \cup {None},
               stage : {"idle", "copying", "retain", "check", "verify", "inventory", "upload"}]

\* Receipts that a step leaves alone stay in order.
LEMMA ReceiptsRemain ==
  ASSUME TypeOK, ReceiptsInv, uploads' = uploads, snapshots' \in [Ids -> Nat],
         \A b \in Ids : snapshots'[b] >= snapshots[b],
         events' \in {events, events + 1}, \A b \in Ids : Forgotten(b) => Forgotten(b)'
  PROVE  \A b \in Ids : \A q : q = receipts[b] \/ q = saved.receipts[b] => ReceiptOK(b, q)'
<1> SUFFICES ASSUME NEW b \in Ids, NEW q, q = receipts[b] \/ q = saved.receipts[b]
             PROVE  ReceiptOK(b, q)'
  OBVIOUS
<1>1. /\ q.round \in Nat /\ ReceiptOK(b, q) /\ snapshots \in [Ids -> Nat] /\ events \in Nat
      /\ snapshots'[b] >= snapshots[b] /\ (Forgotten(b) => Forgotten(b)')
  BY ReceiptTypes DEF ReceiptsInv
<1> QED
  BY <1>1, ReceiptStays

LEMMA TransferEndsStep ==
  ASSUME IInv, NEW r \in ReceiptRecords, TransferEnds(r), Transferring, active.id \in Ids, life # "down",
         Current.state \in {"pending", "running"}, r.state \in {"pending", "confirmed", "failed"},
         r.round = Current.round, uploads[active.id] <= Budget(r),
         r.state = "confirmed" => snapshots'[active.id] > 0,
         snapshots' \in [Ids -> Nat], \A b \in Ids : snapshots'[b] >= snapshots[b],
         UNCHANGED <<remote, ops, copy, requests, orphans, uploads, scan, checking, maintenance, life>>
  PROVE  IInv'
<1>1. TypeOK /\ LedgerInv /\ KeptInv /\ ReceiptsInv /\ RestInv
  BY DEF IInv, RestInv
<1> PICK a \in Ids : a = active.id
  OBVIOUS
<1> PICK rm : rm = [receipts EXCEPT ![a] = r]
  OBVIOUS
<1>2. PICK ok \in BOOLEAN :
        LET down == [ops |-> broken.ops \/ ~ok, receipts |-> broken.receipts \/ ~ok]
        IN  /\ SavesReceipts(rm, ok) /\ broken' = down
            /\ active' = Idle /\ turn' = "pump" /\ queued' \in Ticks(rm, down)
  BY DEF TransferEnds
<1>3. /\ receipts' = rm /\ Writes(saved.ops, rm, ok) /\ active' = Idle /\ turn' = "pump"
      /\ \E down : queued' \in Ticks(rm, down)
      /\ broken' = [ops |-> broken.ops \/ ~ok, receipts |-> broken.receipts \/ ~ok]
  BY <1>2 DEF SavesReceipts
<1>4. /\ rm \in TransferLedger /\ rm[a] = r /\ \A b \in Ids : b # a => rm[b] = receipts[b]
  BY <1>1 DEF TypeOK, TransferLedger, ReceiptRecords
<1>5. queued' = None \/ (queued' \in Ids /\ rm[queued'].state = "pending")
  BY <1>3, TicksPending
<1>6. /\ saved' \in {saved, [ops |-> saved.ops, receipts |-> rm]}
      /\ ok => saved' = [ops |-> saved.ops, receipts |-> rm]
      /\ events' \in {events, events + 1} /\ events' \in 0 .. MaxEvents
  <2>1. saved.ops \in Ledger
    BY <1>1, ReceiptTypes
  <2>2. \A os \in Ledger : Writes(os, rm, ok) =>
          /\ saved' \in {saved, [ops |-> os, receipts |-> rm]}
          /\ ok => saved' = [ops |-> os, receipts |-> rm]
          /\ events' \in {events, events + 1} /\ events' \in 0 .. MaxEvents
    BY <1>1, <1>4, Written
  <2> QED
    BY <1>3, <2>1, <2>2
<1>7. saved'.receipts = rm \/ Halted'
  <2>1. CASE ok
    <3>1. saved'.receipts = rm
      BY <1>6, <2>1
    <3> QED
      BY <3>1
  <2>2. CASE ~ok
    <3>1. broken'.ops = (broken.ops \/ ~ok)
      BY <1>3
    <3>2. broken'.ops
      BY <2>2, <3>1
    <3> QED
      BY <1>3, <3>2 DEF Halted
  <2> QED
    BY <2>1, <2>2
<1>8. \A b \in Ids : ReceiptOK(b, rm[b])'
  <2>1. saved'.ops = saved.ops
    BY <1>6
  <2>2. \A b \in Ids : Forgotten(b) => Forgotten(b)'
    BY <2>1 DEF Forgotten
  <2>3. \A b \in Ids : b # a => ReceiptOK(b, rm[b])'
    BY <1>1, <1>4, <1>6, <2>2, ReceiptsRemain
  <2>4. ReceiptOK(a, r)'
    <3>1. Current.round <= events
      BY <1>1 DEF ReceiptsInv, ReceiptOK, Current
    <3>2. r.round <= events'
      BY <1>1, <1>6, <3>1, ReceiptTypes DEF Current
    <3>3. uploads'[a] <= Budget(r) /\ r.state # "none"
      OBVIOUS
    <3>4. \A c : c = a => ReceiptOK(c, r)'
      BY <3>2, <3>3 DEF ReceiptOK, Budget
    <3> QED
      BY <1>4, <3>2, <3>3 DEF ReceiptOK, Budget
  <2>5. ASSUME NEW b \in Ids, b = a PROVE ReceiptOK(b, rm[b])'
    BY <1>4, <2>4, <2>5
  <2> QED
    BY <2>3, <2>5
<1>9. \A b \in Ids : receipts[b].state = "confirmed" => rm[b].state = "confirmed" \/ Forgotten(b)
  BY <1>4 DEF Current
<1>10. /\ LedgerInv' /\ KeptInv' /\ ReceiptsInv'
       /\ saved' \in [ops : Ledger, receipts : TransferLedger] /\ saved'.ops = saved.ops
  BY <1>1, <1>3, <1>4, <1>6, <1>7, <1>8, <1>9, ReceiptStep
<1>11. TypeOK'
  <2>1. Idle \in Activities /\ broken' \in [ops : BOOLEAN, receipts : BOOLEAN]
    BY <1>1, <1>3 DEF Idle, Activities, TypeOK
  <2>2. queued' \in Ids \cup {None}
    BY <1>5
  <2> QED
    BY <1>1, <1>3, <1>4, <1>6, <1>10, <2>1, <2>2 DEF TypeOK, Activities
<1>12. ActiveInv' /\ LifeInv'
  BY <1>3 DEF ActiveInv, LifeInv
<1>13. WorkInv'
  BY <1>1, <1>3 DEF RestInv, WorkInv, Retirable, Idle
<1>14. TransferInv'
  BY <1>3, <1>5 DEF TransferInv, Transferring, Idle
<1> QED
  BY <1>10, <1>11, <1>12, <1>13, <1>14 DEF IInv

LEMMA TransferFailsStep ==
  ASSUME IInv, TransferFails, Transferring, life # "down", snapshots' \in [Ids -> Nat],
         \A b \in Ids : snapshots'[b] >= snapshots[b],
         UNCHANGED <<remote, ops, copy, requests, orphans, uploads, scan, checking, maintenance, life>>
  PROVE  IInv'
<1>1. TypeOK /\ ReceiptsInv /\ RestInv
  BY DEF IInv, RestInv
<1>2. active.id \in Ids /\ Current.state \in {"pending", "running"}
  BY <1>1 DEF RestInv, ActiveInv, TransferInv, Transferring, Idle
<1>3. Current \in ReceiptRecords /\ uploads[active.id] <= Budget(Current)
  BY <1>1, <1>2 DEF TypeOK, TransferLedger, Current, ReceiptRecords, ReceiptsInv, ReceiptOK
<1>4. PICK r : r = [Current EXCEPT !.state = Retried(Current)]
  OBVIOUS
<1>5. TransferEnds(r)
  BY <1>4 DEF TransferFails
<1>6. /\ r \in ReceiptRecords /\ r.state \in {"pending", "failed"} /\ r.round = Current.round
      /\ r.attempts = Current.attempts
  <2>1. Retried(Current) \in {"pending", "failed"} /\ {"pending", "failed"} \subseteq ReceiptStates
    BY DEF Retried, ReceiptStates
  <2> QED
    BY <1>3, <1>4, <2>1 DEF ReceiptRecords
<1>7. uploads[active.id] <= Budget(r)
  BY <1>3, <1>6 DEF Budget
<1> QED
  BY <1>2, <1>5, <1>6, <1>7, TransferEndsStep

LEMMA ConfirmedStep ==
  ASSUME IInv, Confirmed, Transferring, active.stage \in {"inventory", "upload"},
         snapshots' \in [Ids -> Nat], \A b \in Ids : snapshots'[b] >= snapshots[b],
         snapshots'[active.id] > 0,
         UNCHANGED <<remote, ops, copy, requests, orphans, uploads, scan, checking, maintenance, life>>
  PROVE  IInv'
<1>1. TypeOK /\ ReceiptsInv /\ RestInv
  BY DEF IInv, RestInv
<1>2. active.id \in Ids /\ Current.state \in {"pending", "running"}
  BY <1>1 DEF RestInv, ActiveInv, TransferInv, Transferring, Idle
<1>3. Current \in ReceiptRecords /\ uploads[active.id] <= Budget(Current)
  BY <1>1, <1>2 DEF TypeOK, TransferLedger, Current, ReceiptRecords, ReceiptsInv, ReceiptOK
<1>4. PICK r : r = [Current EXCEPT !.state = "confirmed"]
  OBVIOUS
<1>5. TransferEnds(r) /\ life # "down"
  BY <1>4 DEF Confirmed
<1>6. /\ r \in ReceiptRecords /\ r.state = "confirmed" /\ r.round = Current.round
      /\ r.attempts = Current.attempts
  BY <1>3, <1>4 DEF ReceiptRecords, ReceiptStates
<1>7. uploads[active.id] <= Budget(r)
  BY <1>3, <1>6 DEF Budget
<1> QED
  BY <1>2, <1>5, <1>6, <1>7, TransferEndsStep

LEMMA InventoryChangedStep ==
  ASSUME IInv, InventoryChanged, Transferring, life # "down", snapshots' \in [Ids -> Nat],
         \A b \in Ids : snapshots'[b] >= snapshots[b],
         UNCHANGED <<remote, ops, copy, requests, orphans, uploads, scan, checking, maintenance, life>>
  PROVE  IInv'
<1>1. TypeOK /\ ReceiptsInv /\ RestInv
  BY DEF IInv, RestInv
<1>2. active.id \in Ids /\ Current.state \in {"pending", "running"}
  BY <1>1 DEF RestInv, ActiveInv, TransferInv, Transferring, Idle
<1>3. Current \in ReceiptRecords /\ uploads[active.id] <= Budget(Current)
  BY <1>1, <1>2 DEF TypeOK, TransferLedger, Current, ReceiptRecords, ReceiptsInv, ReceiptOK
<1>4. PICK r : r = [Current EXCEPT !.state = "failed"]
  OBVIOUS
<1>5. TransferEnds(r)
  BY <1>4 DEF InventoryChanged
<1>6. /\ r \in ReceiptRecords /\ r.state = "failed" /\ r.round = Current.round
      /\ r.attempts = Current.attempts
  BY <1>3, <1>4 DEF ReceiptRecords, ReceiptStates
<1>7. uploads[active.id] <= Budget(r)
  BY <1>3, <1>6 DEF Budget
<1> QED
  BY <1>2, <1>5, <1>6, <1>7, TransferEndsStep

LEMMA TransferStopsStep == ASSUME IInv, TransferStops PROVE IInv'
<1>1. TypeOK /\ RestInv
  BY DEF IInv, RestInv
<1>2. /\ Transferring /\ TransferFails
      /\ UNCHANGED <<remote, ops, copy, requests, orphans, uploads, scan, checking, maintenance, life>>
  BY DEF TransferStops
<1>3. life # "down" /\ active.id \in Ids
  BY <1>1, <1>2 DEF RestInv, LifeInv, ActiveInv, Transferring, Idle
<1>4. \/ snapshots' = snapshots
      \/ snapshots' = [snapshots EXCEPT ![active.id] = @ + 1]
  BY DEF TransferStops
<1>5. snapshots' \in [Ids -> Nat] /\ \A b \in Ids : snapshots'[b] >= snapshots[b]
  BY <1>1, <1>3, <1>4 DEF TypeOK
<1> QED
  BY <1>2, <1>3, <1>5, TransferFailsStep

LEMMA UploadedStep == ASSUME IInv, Uploaded PROVE IInv'
<1>1. TypeOK /\ RestInv
  BY DEF IInv, RestInv
<1>2. /\ active.stage = "upload" /\ life = "up"
      /\ snapshots' = [snapshots EXCEPT ![active.id] = @ + 1]
      /\ UNCHANGED <<remote, ops, copy, requests, orphans, uploads, scan, checking, maintenance, life>>
      /\ Confirmed \/ InventoryChanged
  BY DEF Uploaded
<1>3. Transferring /\ active.id \in Ids
  BY <1>1, <1>2 DEF RestInv, ActiveInv, Transferring, Idle
<1>4. /\ snapshots' \in [Ids -> Nat] /\ \A b \in Ids : snapshots'[b] >= snapshots[b]
      /\ snapshots'[active.id] > 0
  BY <1>1, <1>2, <1>3 DEF TypeOK
<1> QED
  BY <1>2, <1>3, <1>4, ConfirmedStep, InventoryChangedStep

LEMMA InventoryStep == ASSUME IInv, Inventory PROVE IInv'
<1>1. TypeOK /\ LedgerInv /\ KeptInv /\ ReceiptsInv /\ RestInv
  BY DEF IInv, RestInv
<1>2. /\ active.stage = "inventory" /\ turn = "free" /\ life # "down"
      /\ UNCHANGED <<remote, ops, copy, requests, scan, checking, maintenance, life>>
  BY DEF Inventory, Quiet
<1>3. Transferring /\ active.id \in Ids /\ Current.state = "running" /\ saved.receipts = receipts
  BY <1>1, <1>2 DEF RestInv, ActiveInv, TransferInv, Transferring, Idle
<1>4. snapshots \in [Ids -> Nat] /\ \A b \in Ids : snapshots[b] >= snapshots[b]
  BY <1>1 DEF TypeOK
<1>5. CASE snapshots[active.id] = 1 /\ Confirmed /\ UNCHANGED outside
  <2>1. /\ UNCHANGED <<snapshots, orphans, uploads>> /\ Confirmed
        /\ snapshots'[active.id] > 0 /\ \A b \in Ids : snapshots'[b] >= snapshots[b]
    BY <1>4, <1>5 DEF outside
  <2> QED
    BY <1>2, <1>3, <1>4, <2>1, ConfirmedStep
<1>6. CASE InventoryChanged /\ UNCHANGED outside
  <2>1. UNCHANGED <<snapshots, orphans, uploads>> /\ \A b \in Ids : snapshots'[b] >= snapshots[b]
    BY <1>4, <1>6 DEF outside
  <2> QED
    BY <1>2, <1>3, <1>4, <1>6, <2>1, InventoryChangedStep
<1>7. CASE /\ TransferEnds([Current EXCEPT
                !.state = IF Current.passes < PassLimit THEN "pending" ELSE "failed",
                !.attempts = IF active.kind = "inquiry" THEN @ ELSE @ - 1])
           /\ UNCHANGED outside
  <2>1. UNCHANGED <<snapshots, orphans, uploads>> /\ \A b \in Ids : snapshots'[b] >= snapshots[b]
    BY <1>4, <1>7 DEF outside
  <2>2. /\ Current \in ReceiptRecords /\ uploads[active.id] <= Budget(Current)
        /\ uploads \in [Ids -> Nat]
    BY <1>1, <1>3 DEF TypeOK, TransferLedger, Current, ReceiptRecords, ReceiptsInv, ReceiptOK
  <2> PICK x : x = IF Current.passes < PassLimit THEN "pending" ELSE "failed"
    OBVIOUS
  <2> PICK n : n = IF active.kind = "inquiry" THEN Current.attempts ELSE Current.attempts - 1
    OBVIOUS
  <2> PICK r : r = [Current EXCEPT !.state = x, !.attempts = n]
    OBVIOUS
  <2>3. TransferEnds(r)
    BY <1>7
  <2>4. x \in {"pending", "failed"} /\ x \in ReceiptStates
    BY DEF ReceiptStates
  <2>5. Current.attempts \in 0 .. AttemptLimit /\ Current.round \in Nat
    BY <2>2, Constants DEF ReceiptRecords
  <2>6. active.kind # "inquiry" => Current.attempts >= 1 /\ uploads[active.id] < Budget(Current)
    BY <1>1, <1>2, <1>3 DEF RestInv, TransferInv, Transferring
  <2>7. n \in 0 .. AttemptLimit
    BY <2>5, <2>6, Constants
  <2>8. /\ r \in ReceiptRecords /\ r.state = x /\ r.attempts = n /\ r.round = Current.round
    BY <2>2, <2>4, <2>7 DEF ReceiptRecords
  <2>9. uploads[active.id] <= Budget(r)
    <3>1. AttemptLimit * Current.round \in Nat /\ uploads[active.id] \in Nat
      BY <1>3, <2>2, <2>5, Constants
    <3>2. CASE active.kind = "inquiry"
      BY <2>2, <2>8, <3>2 DEF Budget
    <3>3. CASE active.kind # "inquiry"
      BY <2>5, <2>6, <2>8, <3>1, <3>3 DEF Budget
    <3> QED
      BY <3>2, <3>3
  <2> QED
    BY <1>2, <1>3, <1>4, <2>1, <2>3, <2>4, <2>8, <2>9, TransferEndsStep
<1>8. CASE /\ active.kind = "transfer" /\ life = "up"
           /\ uploads' = [uploads EXCEPT ![active.id] = @ + 1]
           /\ active' = [active EXCEPT !.stage = "upload"]
           /\ UNCHANGED <<snapshots, orphans, receipts, saved, broken, turn, queued, events>>
  <2> PICK a \in Ids : a = active.id
    BY <1>3
  <2>1. /\ active' \in Activities
        /\ active'.kind = "transfer" /\ active'.id = a /\ active'.stage = "upload"
    BY <1>1, <1>8 DEF TypeOK, Activities
  <2>2. /\ uploads' \in [Ids -> Nat] /\ uploads'[a] = uploads[a] + 1
        /\ \A b \in Ids : b # a => uploads'[b] = uploads[b]
    BY <1>1, <1>8 DEF TypeOK
  <2>3. LedgerInv' /\ KeptInv'
    <3>1. LedgerInv'
      BY <1>1, <1>2, <1>8 DEF LedgerInv
    <3> QED
      BY <1>1, <1>2, <1>8, <3>1, KeptNext DEF KeptInv
  <2>4. ReceiptsInv'
    <3>1. \A b \in Ids : ReceiptOK(b, receipts[b])'
      <4>1. uploads[a] < Budget(receipts[a]) /\ receipts[a].state = "running"
        BY <1>1, <1>2, <1>3, <1>8 DEF RestInv, TransferInv, Current
      <4>2. receipts[a] \in ReceiptRecords /\ uploads \in [Ids -> Nat]
        BY <1>1 DEF TypeOK, TransferLedger, ReceiptRecords
      <4>3. Budget(receipts[a]) \in Int
        BY <4>2, Constants DEF Budget, ReceiptRecords
      <4>4. uploads'[a] <= Budget(receipts[a])
        BY <2>2, <4>1, <4>2, <4>3
      <4>5. ASSUME NEW b \in Ids, b = a PROVE ReceiptOK(b, receipts[b])'
        BY <1>1, <1>8, <4>1, <4>4, <4>5 DEF ReceiptsInv, ReceiptOK, Budget
      <4>6. ASSUME NEW b \in Ids, b # a PROVE ReceiptOK(b, receipts[b])'
        BY <1>1, <1>2, <1>8, <2>2, <4>6 DEF ReceiptsInv, ReceiptOK, Budget, Forgotten, NoReceipt
      <4> QED
        BY <4>5, <4>6
    <3>2. \A b \in Ids : ReceiptOK(b, saved.receipts[b])'
      <4>1. receipts' = receipts /\ saved'.receipts = receipts
        BY <1>3, <1>8
      <4>2. \A b \in Ids : saved.receipts[b]' = receipts[b]'
        BY <4>1
      <4> QED
        BY <3>1, <4>2 DEF ReceiptOK
    <3>3. Stored'
      BY <1>3, <1>8 DEF Stored
    <3> QED
      BY <3>1, <3>2, <3>3 DEF ReceiptsInv, Stored
  <2>5. TypeOK'
    BY <1>1, <1>2, <1>8, <2>1, <2>2 DEF TypeOK, Activities
  <2>6. ActiveInv' /\ LifeInv'
    BY <1>2, <1>8, <2>1 DEF ActiveInv, LifeInv
  <2>7. WorkInv'
    BY <1>1, <1>2, <1>8, <2>1 DEF RestInv, WorkInv, Retirable
  <2>8. TransferInv'
    BY <1>1, <1>2, <1>3, <1>8, <2>1 DEF RestInv, TransferInv, Transferring, Current
  <2> QED
    BY <2>3, <2>4, <2>5, <2>6, <2>7, <2>8 DEF IInv
<1> QED
  BY <1>5, <1>6, <1>7, <1>8 DEF Inventory

LEMMA ChargedStep ==
  ASSUME IInv, NEW r \in ReceiptRecords, NEW a \in Ids, NEW kind \in {"transfer", "inquiry"},
         NEW ok \in BOOLEAN,
         a = active.id, active.kind = "transfer", turn = "begin", life # "down",
         r.state = "running", r.round = Current.round,
         r.attempts = (IF kind = "inquiry" THEN Current.attempts ELSE Current.attempts + 1),
         SavesReceipts([receipts EXCEPT ![a] = r], ok),
         broken' = [broken EXCEPT !.receipts = @ \/ ~ok],
         turn' \in {"free", "stop"}, turn' = "free" => ok,
         active' = [active EXCEPT !.kind = kind, !.stage = "verify"], queued' = queued,
         UNCHANGED <<remote, ops, copy, requests, snapshots, orphans, uploads, scan, checking,
                     maintenance, life>>
  PROVE  IInv'
<1>1. TypeOK /\ LedgerInv /\ KeptInv /\ ReceiptsInv /\ RestInv
  BY DEF IInv, RestInv
<1> PICK rm : rm = [receipts EXCEPT ![a] = r]
  OBVIOUS
<1>2. /\ rm \in TransferLedger /\ rm[a] = r /\ \A b \in Ids : b # a => rm[b] = receipts[b]
      /\ receipts' = rm /\ Writes(saved.ops, rm, ok)
  BY <1>1 DEF TypeOK, TransferLedger, ReceiptRecords, SavesReceipts
<1>3. /\ saved' \in {saved, [ops |-> saved.ops, receipts |-> rm]}
      /\ ok => saved' = [ops |-> saved.ops, receipts |-> rm]
      /\ events' \in {events, events + 1} /\ events' \in 0 .. MaxEvents
  <2>1. saved.ops \in Ledger
    BY <1>1, ReceiptTypes
  <2>2. \A os \in Ledger : Writes(os, rm, ok) =>
          /\ saved' \in {saved, [ops |-> os, receipts |-> rm]}
          /\ ok => saved' = [ops |-> os, receipts |-> rm]
          /\ events' \in {events, events + 1} /\ events' \in 0 .. MaxEvents
    BY <1>1, <1>2, Written
  <2> QED
    BY <1>2, <2>1, <2>2
<1>4. /\ active' \in Activities /\ active'.kind = kind /\ active'.stage = "verify" /\ active'.id = a
  BY <1>1 DEF TypeOK, Activities
<1>5. /\ Current.state = "pending" /\ uploads[a] \in Nat /\ uploads[a] <= Budget(Current)
      /\ Current.attempts \in Nat /\ AttemptLimit * Current.round \in Nat /\ Current.round <= events
      /\ queued = None
  <2>1. Transferring
    BY DEF Transferring
  <2>2. Current \in ReceiptRecords
    BY <1>1 DEF TypeOK, TransferLedger, ReceiptRecords, Current
  <2>3. Current.attempts \in Nat /\ Current.round \in Nat
    BY <2>2, Constants DEF ReceiptRecords
  <2>4. ReceiptOK(a, Current) /\ uploads[a] \in Nat
    BY <1>1 DEF ReceiptsInv, TypeOK, Current
  <2>5. Current.state = "pending" /\ queued = None
    BY <1>1, <2>1 DEF RestInv, TransferInv
  <2>6. AttemptLimit * Current.round \in Nat
    BY <2>3, Constants
  <2> QED
    BY <2>3, <2>4, <2>5, <2>6 DEF ReceiptOK
<1>6. /\ uploads[a] <= Budget(r)
      /\ kind = "transfer" => r.attempts >= 1 /\ uploads[a] < Budget(r)
  BY <1>5 DEF Budget
<1>7. \A b \in Ids : ReceiptOK(b, rm[b])'
  <2>1. \A b \in Ids : Forgotten(b) => Forgotten(b)'
    BY <1>3 DEF Forgotten
  <2>2. snapshots \in [Ids -> Nat] /\ \A b \in Ids : snapshots'[b] >= snapshots[b]
    BY <1>1 DEF TypeOK
  <2>3. \A b \in Ids : b # a => ReceiptOK(b, rm[b])'
    BY <1>1, <1>2, <1>3, <2>1, <2>2, ReceiptsRemain
  <2>4. r.round <= events'
    BY <1>1, <1>3, <1>5, ReceiptTypes DEF Current
  <2>5. \A c : c = a => ReceiptOK(c, r)'
    BY <1>6, <2>4 DEF ReceiptOK, Budget
  <2>6. ASSUME NEW b \in Ids, b = a PROVE ReceiptOK(b, rm[b])'
    BY <1>2, <2>5, <2>6
  <2> QED
    BY <2>3, <2>6
<1>8. /\ LedgerInv' /\ KeptInv' /\ ReceiptsInv'
      /\ saved' \in [ops : Ledger, receipts : TransferLedger] /\ saved'.ops = saved.ops
  <2>1. \A b \in Ids : receipts[b].state = "confirmed" => rm[b].state = "confirmed" \/ Forgotten(b)
    BY <1>2, <1>5 DEF Current
  <2>2. \A b \in Ids : rm[b].state = "confirmed" => receipts[b].state = "confirmed"
    BY <1>2
  <2>3. Halted => Halted'
    BY DEF Halted, Idle
  <2>4. snapshots' \in [Ids -> Nat] /\ \A b \in Ids : snapshots'[b] >= snapshots[b]
    BY <1>1 DEF TypeOK
  <2> QED
    BY <1>1, <1>2, <1>3, <1>7, <2>1, <2>2, <2>3, <2>4, ReceiptStep
<1>9. TypeOK'
  <2>1. broken' \in [ops : BOOLEAN, receipts : BOOLEAN]
    BY <1>1 DEF TypeOK
  <2> QED
    BY <1>1, <1>2, <1>3, <1>4, <1>8, <2>1 DEF TypeOK, Activities
<1>10. ActiveInv' /\ LifeInv'
  BY <1>4 DEF ActiveInv, LifeInv
<1>11. WorkInv'
  BY <1>1, <1>4 DEF RestInv, WorkInv, Retirable
<1>12. TransferInv'
  <2>1. Current' = r
    BY <1>2, <1>4 DEF Current
  <2>2. turn' = "free" => saved'.receipts = receipts'
    BY <1>2, <1>3
  <2> QED
    BY <1>4, <1>5, <1>6, <2>1, <2>2 DEF TransferInv, Transferring, Budget
<1> QED
  BY <1>8, <1>9, <1>10, <1>11, <1>12 DEF IInv

LEMMA BeginTransferStep == ASSUME IInv, BeginTransfer PROVE IInv'
<1>1. TypeOK /\ LedgerInv /\ KeptInv /\ ReceiptsInv /\ RestInv
  BY DEF IInv, RestInv
<1>2. /\ turn = "begin" /\ active.kind = "transfer"
      /\ UNCHANGED <<remote, ops, copy, requests, outside, scan, checking, maintenance, life>>
  BY DEF BeginTransfer
<1>3. /\ life # "down" /\ active.id \in Ids /\ Transferring /\ active # Idle
      /\ UNCHANGED <<snapshots, orphans, uploads>>
  BY <1>1, <1>2 DEF RestInv, LifeInv, ActiveInv, Transferring, Idle, outside
<1>4. snapshots' \in [Ids -> Nat] /\ \A b \in Ids : snapshots'[b] >= snapshots[b]
  BY <1>1, <1>3 DEF TypeOK
<1> DEFINE inquiry == Current.attempts >= AttemptLimit
           charged == [Current EXCEPT !.state = "running", !.passes = @ + 1,
                                      !.attempts = IF inquiry THEN @ ELSE @ + 1]
<1>5. CASE /\ active' = Idle /\ turn' = "pump" /\ queued' \in Ticks(receipts, broken)
           /\ UNCHANGED <<receipts, saved, broken, events>>
  <2>1. queued' = None \/ (queued' \in Ids /\ receipts[queued'].state = "pending")
    BY <1>5, TicksPending
  <2>2. LedgerInv' /\ KeptInv' /\ ReceiptsInv'
    BY <1>1, <1>2, <1>3, <1>5, StillerStep DEF Halted
  <2>3. TypeOK'
    BY <1>1, <1>2, <1>3, <1>5, <2>1 DEF TypeOK, Idle
  <2>4. ActiveInv' /\ LifeInv'
    BY <1>2, <1>3, <1>5 DEF ActiveInv, LifeInv
  <2>5. WorkInv'
    BY <1>1, <1>2, <1>5 DEF RestInv, WorkInv, Retirable, Idle
  <2>6. TransferInv'
    BY <1>5, <2>1 DEF TransferInv, Transferring, Idle
  <2> QED
    BY <2>2, <2>3, <2>4, <2>5, <2>6 DEF IInv
<1>6. CASE TransferFails
  BY <1>2, <1>3, <1>4, <1>6, TransferFailsStep
<1>7. ASSUME Current.passes < PassLimit, NEW ok \in BOOLEAN,
             SavesReceipts([receipts EXCEPT ![active.id] = charged], ok),
             broken' = [broken EXCEPT !.receipts = @ \/ ~ok],
             turn' = (IF ok /\ ~Verifying THEN "free" ELSE "stop"),
             active' = [active EXCEPT !.kind = IF inquiry THEN "inquiry" ELSE "transfer", !.stage = "verify"],
             queued' = queued
      PROVE  IInv'
  <2>1. Current \in ReceiptRecords
    BY <1>1, <1>3 DEF TypeOK, TransferLedger, ReceiptRecords, Current
  <2> PICK a \in Ids : a = active.id
    BY <1>3
  <2> PICK kind \in {"transfer", "inquiry"} : kind = IF inquiry THEN "inquiry" ELSE "transfer"
    OBVIOUS
  <2> PICK n : n = IF inquiry THEN Current.attempts ELSE Current.attempts + 1
    OBVIOUS
  <2> PICK p : p = Current.passes + 1
    OBVIOUS
  <2> PICK r : r = [Current EXCEPT !.state = "running", !.passes = p, !.attempts = n]
    OBVIOUS
  <2>2. Current.attempts \in 0 .. AttemptLimit /\ Current.passes \in 0 .. PassLimit
    BY <2>1 DEF ReceiptRecords
  <2>3. n \in 0 .. AttemptLimit /\ p \in 0 .. PassLimit
    BY <1>7, <2>2, Constants
  <2>4. /\ r \in ReceiptRecords /\ r.state = "running" /\ r.attempts = n /\ r.round = Current.round
    BY <2>1, <2>3 DEF ReceiptRecords, ReceiptStates
  <2>5. charged = r
    OBVIOUS
  <2>6. n = (IF kind = "inquiry" THEN Current.attempts ELSE Current.attempts + 1)
    OBVIOUS
  <2>7. active' = [active EXCEPT !.kind = kind, !.stage = "verify"]
    BY <1>7
  <2>8. SavesReceipts([receipts EXCEPT ![a] = r], ok)
    BY <1>7, <2>5
  <2>9. turn' \in {"free", "stop"} /\ (turn' = "free" => ok)
    BY <1>7
  <2>10. r.attempts = (IF kind = "inquiry" THEN Current.attempts ELSE Current.attempts + 1)
    BY <2>4, <2>6
  <2>11. broken' = [broken EXCEPT !.receipts = @ \/ ~ok] /\ queued' = queued
    BY <1>7
  <2>12. UNCHANGED <<remote, ops, copy, requests, snapshots, orphans, uploads, scan, checking,
                     maintenance, life>>
    BY <1>2, <1>3
  <2> HIDE DEF inquiry, charged
  <2> QED
    BY <1>2, <1>3, <2>4, <2>7, <2>8, <2>9, <2>10, <2>11, <2>12, ChargedStep
<1>8. \/ /\ active' = Idle /\ turn' = "pump" /\ queued' \in Ticks(receipts, broken)
         /\ UNCHANGED <<receipts, saved, broken, events>>
      \/ TransferFails
      \/ /\ Current.passes < PassLimit
         /\ \E ok \in BOOLEAN :
              /\ SavesReceipts([receipts EXCEPT ![active.id] = charged], ok)
              /\ broken' = [broken EXCEPT !.receipts = @ \/ ~ok]
              /\ turn' = IF ok /\ ~Verifying THEN "free" ELSE "stop"
         /\ active' = [active EXCEPT !.kind = IF inquiry THEN "inquiry" ELSE "transfer", !.stage = "verify"]
         /\ UNCHANGED queued
  BY DEF BeginTransfer
<1> HIDE DEF inquiry, charged
<1> QED
  BY <1>5, <1>6, <1>7, <1>8

LEMMA ReconcileOneStep == ASSUME IInv, ReconcileOne PROVE IInv'
<1>1. TypeOK /\ LedgerInv /\ KeptInv /\ ReceiptsInv /\ RestInv
  BY DEF IInv, RestInv
<1>2. /\ turn = "reconcile" /\ saved.ops = ops /\ ~Transferring
      /\ UNCHANGED <<remote, ops, copy, requests, snapshots, orphans, uploads, active, scan, turn, queued,
                     checking, maintenance, life>>
  BY <1>1 DEF RestInv, WorkInv, ActiveInv, Transferring, ReconcileOne, Idle, outside, executor
<1>3. PICK m \in Ids : m = Min(Unrecorded) /\ ops[m].state = "succeeded" /\ receipts[m].state = "none"
  <2>1. Unrecorded \subseteq Ids /\ Unrecorded # {}
    BY DEF ReconcileOne, Recordable, Unrecorded, Succeeded, In
  <2>2. Min(Unrecorded) \in Unrecorded
    BY <2>1, OldestIs
  <2> QED
    BY <2>1, <2>2 DEF Unrecorded, Succeeded, In, HasReceipt
<1> PICK rm : rm = [Compacted EXCEPT ![m].state = "pending"]
  OBVIOUS
<1>4. PICK ok \in BOOLEAN : SavesReceipts(rm, ok) /\ broken' = [broken EXCEPT !.receipts = @ \/ ~ok]
  BY <1>3 DEF ReconcileOne
<1>5. NoReceipt \in ReceiptRecords /\ NoReceipt.state = "none" /\ NoReceipt.round = 0 /\ NoReceipt.attempts = 0
  BY Constants DEF NoReceipt, ReceiptRecords, ReceiptStates
<1>6. receipts \in [Ids -> ReceiptRecords]
  BY <1>1 DEF TypeOK, TransferLedger, ReceiptRecords
<1>7. /\ Compacted \in [Ids -> ReceiptRecords] /\ Compacted[m] = receipts[m]
      /\ \A b \in Ids : \/ Compacted[b] = receipts[b]
                        \/ Compacted[b] = NoReceipt /\ receipts[b].state = "confirmed" /\ Forgotten(b)
  BY <1>2, <1>3, <1>5, <1>6 DEF Compacted, Forgotten
<1>8. receipts[m] = NoReceipt /\ uploads[m] = 0
  <2>1. ~Forgotten(m)
    BY <1>3 DEF Forgotten
  <2> QED
    BY <1>1, <1>3, <2>1 DEF ReceiptsInv, ReceiptOK
<1>9. /\ rm \in [Ids -> ReceiptRecords]
      /\ rm[m].state = "pending" /\ rm[m].round = 0 /\ rm[m].attempts = 0
      /\ \A b \in Ids : b # m => rm[b] = Compacted[b]
  <2> PICK q : q = [NoReceipt EXCEPT !.state = "pending"]
    OBVIOUS
  <2>1. q \in ReceiptRecords /\ q.state = "pending" /\ q.round = 0 /\ q.attempts = 0
    BY <1>5 DEF ReceiptRecords, ReceiptStates
  <2>2. rm = [Compacted EXCEPT ![m] = q]
    BY <1>7, <1>8
  <2> QED
    BY <1>7, <2>1, <2>2
<1>10. rm \in TransferLedger /\ receipts' = rm /\ Writes(saved.ops, rm, ok)
  BY <1>4, <1>9 DEF TransferLedger, ReceiptRecords, SavesReceipts
<1>11. /\ saved' \in {saved, [ops |-> saved.ops, receipts |-> rm]}
       /\ events' \in {events, events + 1} /\ events' \in 0 .. MaxEvents
  <2>1. saved.ops \in Ledger
    BY <1>1, ReceiptTypes
  <2>2. \A os \in Ledger : Writes(os, rm, ok) =>
          /\ saved' \in {saved, [ops |-> os, receipts |-> rm]}
          /\ events' \in {events, events + 1} /\ events' \in 0 .. MaxEvents
    BY <1>1, <1>10, Written
  <2> QED
    BY <1>10, <2>1, <2>2
<1>12. \A b \in Ids : ReceiptOK(b, rm[b])'
  <2>1. \A b \in Ids : Forgotten(b) => Forgotten(b)'
    BY <1>2, <1>11 DEF Forgotten
  <2>2. snapshots \in [Ids -> Nat] /\ (\A b \in Ids : snapshots'[b] >= snapshots[b]) /\ events' \in Nat
    BY <1>1, <1>2, <1>11, ReceiptTypes DEF TypeOK
  <2>3. \A b \in Ids : \A q : q = receipts[b] => ReceiptOK(b, q)'
    BY <1>1, <1>2, <1>11, <2>1, <2>2, ReceiptsRemain
  <2>4. \A b \in Ids : Forgotten(b)' => ReceiptOK(b, NoReceipt)'
    BY <1>5, <2>2 DEF ReceiptOK, NoReceipt
  <2>5. \A b \in Ids : \A q : q = NoReceipt /\ Forgotten(b)' => ReceiptOK(b, q)'
    BY <2>4 DEF NoReceipt
  <2>6. ASSUME NEW b \in Ids, b # m PROVE ReceiptOK(b, rm[b])'
    BY <1>7, <1>9, <2>1, <2>3, <2>5, <2>6
  <2>7. \A q : q.state = "pending" /\ q.round = 0 /\ q.attempts = 0 => ReceiptOK(m, q)'
    BY <1>2, <1>8, <2>2, Constants DEF ReceiptOK, Budget
  <2>8. ASSUME NEW b \in Ids, b = m PROVE ReceiptOK(b, rm[b])'
    BY <1>9, <2>7, <2>8
  <2> QED
    BY <2>6, <2>8
<1>13. /\ LedgerInv' /\ KeptInv' /\ ReceiptsInv'
       /\ saved' \in [ops : Ledger, receipts : TransferLedger] /\ saved'.ops = saved.ops
  <2>1. \A b \in Ids : receipts[b].state = "confirmed" => rm[b].state = "confirmed" \/ Forgotten(b)
    BY <1>3, <1>7, <1>9
  <2>2. \A b \in Ids : rm[b].state = "confirmed" => receipts[b].state = "confirmed"
    BY <1>5, <1>7, <1>9
  <2>3. Halted => Halted'
    BY <1>1, <1>2, <1>4 DEF Halted, TypeOK
  <2>4. snapshots' \in [Ids -> Nat] /\ \A b \in Ids : snapshots'[b] >= snapshots[b]
    BY <1>1, <1>2 DEF TypeOK
  <2> QED
    BY <1>1, <1>2, <1>10, <1>11, <1>12, <2>1, <2>2, <2>3, <2>4, ReceiptStep
<1>14. TypeOK'
  <2>1. broken' \in [ops : BOOLEAN, receipts : BOOLEAN]
    BY <1>1, <1>4 DEF TypeOK
  <2> QED
    BY <1>1, <1>2, <1>10, <1>11, <1>13, <2>1 DEF TypeOK
<1>15. ActiveInv'
  BY <1>1, <1>2 DEF RestInv, ActiveInv
<1>16. LifeInv'
  BY <1>1, <1>2 DEF RestInv, LifeInv
<1>17. WorkInv'
  BY <1>1, <1>2, <1>13 DEF RestInv, WorkInv, Retirable
<1>18. TransferInv'
  <2>1. queued # None => queued \in Ids /\ receipts[queued].state = "pending"
    BY <1>1 DEF RestInv, TransferInv, TypeOK
  <2>2. queued # None => rm[queued].state = "pending"
    BY <1>7, <1>9, <2>1
  <2> QED
    BY <1>2, <1>10, <2>2 DEF TransferInv, Transferring
<1> QED
  BY <1>13, <1>14, <1>15, <1>16, <1>17, <1>18 DEF IInv

LEMMA RetryStep == ASSUME IInv, NEW m \in Ids, Retry(m) PROVE IInv'
<1>1. TypeOK /\ LedgerInv /\ KeptInv /\ ReceiptsInv /\ RestInv
  BY DEF IInv, RestInv
<1> PICK n : n = receipts[m].round + 1
  OBVIOUS
<1> PICK r : r = [state |-> "pending", attempts |-> 0, passes |-> 0, round |-> n]
  OBVIOUS
<1> PICK rm : rm = [receipts EXCEPT ![m] = r]
  OBVIOUS
<1>2. /\ turn = "free" /\ life = "up" /\ ~Transferring /\ events < MaxEvents /\ events' = events + 1
      /\ receipts[m].state \in {"pending", "failed"}
      /\ UNCHANGED <<remote, ops, copy, requests, snapshots, orphans, uploads, active, scan,
                     checking, maintenance, life>>
  BY DEF Retry, Quiet, Happens, outside
<1>3. PICK ok \in BOOLEAN :
        /\ receipts' = rm /\ saved' \in Outcomes(saved.ops, rm, ok)
        /\ broken' = [broken EXCEPT !.receipts = @ \/ ~ok]
        /\ queued' \in Ticks(rm, broken')
        /\ turn' = IF active = Idle THEN "pump" ELSE "free"
  BY DEF Retry
<1>4. receipts \in [Ids -> ReceiptRecords] /\ events \in 0 .. MaxEvents
  BY <1>1 DEF TypeOK, TransferLedger, ReceiptRecords
<1>5. receipts[m].round \in Nat /\ receipts[m].round <= events /\ receipts[m].attempts \in 0 .. AttemptLimit
  BY <1>1, <1>4, Constants DEF ReceiptsInv, ReceiptOK, ReceiptRecords
<1>6. r \in ReceiptRecords /\ r.state = "pending" /\ r.round = n /\ r.attempts = 0
  <2>1. n \in 0 .. MaxEvents
    BY <1>2, <1>4, <1>5, Constants
  <2> QED
    BY <2>1, Constants DEF ReceiptRecords, ReceiptStates
<1>7. rm \in TransferLedger /\ rm[m] = r /\ \A b \in Ids : b # m => rm[b] = receipts[b]
  BY <1>4, <1>6 DEF TransferLedger, ReceiptRecords
<1>8. saved' \in {saved, [ops |-> saved.ops, receipts |-> rm]}
  BY <1>3 DEF Outcomes
<1>9. queued' = None \/ (queued' \in Ids /\ rm[queued'].state = "pending")
  <2>1. \A down : queued' \in Ticks(rm, down) => queued' = None \/ (queued' \in Ids /\ rm[queued'].state = "pending")
    BY TicksPending
  <2> QED
    BY <1>3, <2>1
<1>10. uploads[m] <= Budget(r)
  <2>1. uploads[m] <= Budget(receipts[m]) /\ uploads[m] \in Nat
    <3>1. ReceiptOK(m, receipts[m]) /\ receipts[m].state # "none"
      BY <1>1, <1>2 DEF ReceiptsInv
    <3>2. uploads[m] \in Nat
      BY <1>1 DEF TypeOK
    <3> QED
      BY <3>1, <3>2 DEF ReceiptOK
  <2>2. uploads[m] <= AttemptLimit * receipts[m].round + receipts[m].attempts
    BY <2>1 DEF Budget
  <2>3. uploads[m] <= AttemptLimit * (receipts[m].round + 1)
    BY <1>5, <2>1, <2>2, Constants, Spent
  <2>4. Budget(r) = AttemptLimit * (receipts[m].round + 1) + 0
    BY <1>6 DEF Budget
  <2>5. AttemptLimit * (receipts[m].round + 1) \in Nat
    BY <1>5, Constants
  <2> QED
    BY <2>3, <2>4, <2>5
<1>11. \A b \in Ids : ReceiptOK(b, rm[b])'
  <2>1. \A b \in Ids : Forgotten(b) => Forgotten(b)'
    BY <1>2, <1>8 DEF Forgotten
  <2>2. snapshots \in [Ids -> Nat] /\ \A b \in Ids : snapshots'[b] >= snapshots[b]
    BY <1>1, <1>2 DEF TypeOK
  <2>3. \A b \in Ids : b # m => ReceiptOK(b, rm[b])'
    BY <1>1, <1>2, <1>7, <2>1, <2>2, ReceiptsRemain
  <2>4. r.round <= events' /\ uploads'[m] <= Budget(r)
    BY <1>2, <1>4, <1>5, <1>6, <1>10
  <2>5. \A c : c = m => ReceiptOK(c, r)'
    BY <1>6, <2>4 DEF ReceiptOK, Budget
  <2>6. ASSUME NEW b \in Ids, b = m PROVE ReceiptOK(b, rm[b])'
    BY <1>7, <2>5, <2>6
  <2> QED
    BY <2>3, <2>6
<1>12. /\ LedgerInv' /\ KeptInv' /\ ReceiptsInv'
       /\ saved' \in [ops : Ledger, receipts : TransferLedger] /\ saved'.ops = saved.ops
  <2>1. \A b \in Ids : receipts[b].state = "confirmed" => rm[b].state = "confirmed" \/ Forgotten(b)
    BY <1>2, <1>7
  <2>2. \A b \in Ids : rm[b].state = "confirmed" => receipts[b].state = "confirmed"
    BY <1>6, <1>7
  <2>3. Halted => Halted'
    BY <1>1, <1>2, <1>3 DEF Halted, TypeOK
  <2>4. snapshots' \in [Ids -> Nat] /\ \A b \in Ids : snapshots'[b] >= snapshots[b]
    BY <1>1, <1>2 DEF TypeOK
  <2> QED
    BY <1>1, <1>2, <1>3, <1>7, <1>8, <1>11, <2>1, <2>2, <2>3, <2>4, ReceiptStep
<1>13. TypeOK'
  <2>1. broken' \in [ops : BOOLEAN, receipts : BOOLEAN]
    BY <1>1, <1>3 DEF TypeOK
  <2>2. events' \in 0 .. MaxEvents
    BY <1>2, <1>4, Constants
  <2>3. queued' \in Ids \cup {None} /\ turn' \in {"free", "pump"}
    BY <1>3, <1>9
  <2> QED
    BY <1>1, <1>2, <1>3, <1>7, <1>12, <2>1, <2>2, <2>3 DEF TypeOK
<1>14. ActiveInv' /\ LifeInv'
  BY <1>1, <1>2, <1>3 DEF RestInv, ActiveInv, LifeInv
<1>15. WorkInv'
  BY <1>1, <1>2, <1>3 DEF RestInv, WorkInv, Retirable, Idle
<1>16. TransferInv'
  BY <1>2, <1>3, <1>9 DEF TransferInv, Transferring
<1> QED
  BY <1>12, <1>13, <1>14, <1>15, <1>16 DEF IInv

-----------------------------------------------------------------------------
(* The life of the controller                                                *)

\* What a controller finds that starts after a crash or an exit: its disk.
LEMMA GoneStep ==
  ASSUME IInv, Gone, UNCHANGED <<remote, saved, copy, requests, snapshots, uploads>>,
         orphans' \subseteq Ids, events' \in {events, events + 1}, events' \in 0 .. MaxEvents
  PROVE  IInv'
<1>1. TypeOK /\ LedgerInv /\ KeptInv /\ ReceiptsInv /\ RestInv
  BY DEF IInv, RestInv
<1>2. /\ life' = "down" /\ maintenance' = FALSE /\ broken' = NotBroken
      /\ ops' = saved.ops /\ receipts' = saved.receipts
      /\ active' = Idle /\ scan' = NoScan /\ turn' = "free" /\ queued' = None /\ checking' = None
  BY DEF Gone
<1>3. LedgerInv'
  <2>1. \A b \in Ids : Tracks(saved.ops[b], saved.ops[b])
    BY TracksItself
  <2>2. \A b \in Ids : saved.ops[b].state = "pruned" => copy[b] = "absent"
    BY <1>1 DEF LedgerInv, Tracks
  <2> QED
    BY <1>2, <2>1, <2>2 DEF LedgerInv
<1>4. KeptInv'
  BY <1>1, <1>2, KeptNext DEF KeptInv
<1>5. ReceiptsInv'
  <2>1. \A b \in Ids : Forgotten(b) => Forgotten(b)'
    BY <1>2 DEF Forgotten
  <2>2. snapshots \in [Ids -> Nat] /\ \A b \in Ids : snapshots'[b] >= snapshots[b]
    BY <1>1 DEF TypeOK
  <2>3. \A b \in Ids : \A q : q = saved.receipts[b] => ReceiptOK(b, q)'
    BY <1>1, <2>1, <2>2, ReceiptsRemain
  <2>4. \A b \in Ids : receipts[b]' = saved.receipts[b] /\ saved.receipts[b]' = saved.receipts[b]
    BY <1>2
  <2>5. \A b \in Ids : ReceiptOK(b, receipts[b])' /\ ReceiptOK(b, saved.receipts[b])'
    <3> SUFFICES ASSUME NEW b \in Ids PROVE ReceiptOK(b, receipts[b])' /\ ReceiptOK(b, saved.receipts[b])'
      OBVIOUS
    <3>1. \A q : q = receipts[b]' => ReceiptOK(b, q)'
      BY <2>3, <2>4
    <3>2. \A q : q = saved.receipts[b]' => ReceiptOK(b, q)'
      BY <2>3, <2>4
    <3> QED
      BY <3>1, <3>2
  <2> QED
    BY <1>2, <2>5 DEF ReceiptsInv
<1>6. TypeOK'
  BY <1>1, <1>2, ReceiptTypes DEF TypeOK, Idle, NoScan, NotBroken
<1>7. ActiveInv' /\ LifeInv' /\ WorkInv' /\ TransferInv'
  BY <1>2 DEF ActiveInv, LifeInv, WorkInv, TransferInv, Transferring, Idle, NoScan
<1> QED
  BY <1>3, <1>4, <1>5, <1>6, <1>7 DEF IInv

LEMMA ExitStep == ASSUME IInv, Exit PROVE IInv'
<1>1. /\ Gone /\ UNCHANGED <<remote, saved, copy, requests, snapshots, orphans, uploads, events>>
      /\ TypeOK
  BY DEF Exit, IInv, durable, outside
<1> QED
  BY <1>1, GoneStep DEF TypeOK

LEMMA CrashStep == ASSUME IInv, Crash PROVE IInv'
<1>1. Gone /\ UNCHANGED <<remote, saved, copy, requests, snapshots, uploads>>
  BY DEF Crash, durable
<1>2. orphans' \subseteq Ids
  BY DEF Crash, IInv, TypeOK, ActiveInv, Idle
<1>3. events' = events + 1 /\ events' \in 0 .. MaxEvents
  BY Constants DEF Crash, Happens, IInv, TypeOK
<1> QED
  BY <1>1, <1>2, <1>3, GoneStep

LEMMA RecoveredMoves ==
  ASSUME TypeOK, LedgerInv
  PROVE  /\ Recovered \in Ledger /\ Moved(ops, Recovered)
         /\ \A b \in Ids : ops[b].state = "pruned" <=> Recovered[b].state = "pruned"
<1>1. ASSUME NEW c \in Ids
      PROVE  /\ Recovered[c] \in [state : OpStates, scheduled : BOOLEAN, remote : BOOLEAN]
             /\ OpMoved(ops[c], Recovered[c], copy[c])
             /\ ops[c].state = "pruned" <=> Recovered[c].state = "pruned"
  <2>1. ops[c] \in [state : OpStates, scheduled : BOOLEAN, remote : BOOLEAN]
    BY DEF TypeOK, Ledger
  <2>2. CASE ops[c].state \in {"queued", "running"}
    <3> PICK x : x = IF copy[c] = "whole" THEN "succeeded" ELSE "interrupted"
      OBVIOUS
    <3> PICK p : p = [ops[c] EXCEPT !.state = x]
      OBVIOUS
    <3>1. Recovered[c] = p
      BY <2>2 DEF Recovered
    <3>2. x \in {"succeeded", "interrupted"} /\ x \in OpStates
      BY DEF OpStates
    <3>3. /\ p \in [state : OpStates, scheduled : BOOLEAN, remote : BOOLEAN]
          /\ p.state = x /\ p.scheduled = ops[c].scheduled /\ p.remote = ops[c].remote
      BY <2>1, <3>2
    <3> QED
      BY <2>2, <3>1, <3>2, <3>3 DEF OpMoved
  <2>3. CASE ops[c].state \notin {"queued", "running"}
    <3>1. Recovered[c] = ops[c]
      BY <2>3 DEF Recovered
    <3> QED
      BY <2>1, <3>1 DEF OpMoved, LedgerInv
  <2> QED
    BY <2>2, <2>3
<1>2. Recovered = [c \in Ids |-> Recovered[c]]
  BY DEF Recovered
<1> QED
  BY <1>1, <1>2 DEF Ledger, Moved

LEMMA ResumedIs ==
  ASSUME TypeOK, NEW enabled \in BOOLEAN
  PROVE  /\ Resumed(enabled) \in TransferLedger
         /\ \A b \in Ids : \/ Resumed(enabled)[b] = receipts[b]
                           \/ /\ receipts[b].state = "running" /\ Resumed(enabled)[b].state = "pending"
                              /\ Resumed(enabled)[b].round = receipts[b].round
                              /\ Resumed(enabled)[b].attempts = receipts[b].attempts
<1> DEFINE R == Resumed(enabled)
<1>1. ASSUME NEW b \in Ids
      PROVE  /\ R[b] \in ReceiptRecords
             /\ \/ R[b] = receipts[b]
                \/ /\ receipts[b].state = "running" /\ R[b].state = "pending"
                   /\ R[b].round = receipts[b].round /\ R[b].attempts = receipts[b].attempts
  <2>1. receipts[b] \in ReceiptRecords
    BY DEF TypeOK, TransferLedger, ReceiptRecords
  <2> PICK p : p = [receipts[b] EXCEPT !.state = "pending"]
    OBVIOUS
  <2>2. /\ p \in ReceiptRecords /\ p.state = "pending" /\ p.round = receipts[b].round
        /\ p.attempts = receipts[b].attempts
    BY <2>1 DEF ReceiptRecords, ReceiptStates
  <2>3. R[b] = (IF enabled /\ receipts[b].state = "running" THEN p ELSE receipts[b])
    BY DEF Resumed
  <2> HIDE DEF R
  <2> QED
    BY <2>1, <2>2, <2>3
<1>2. R = [b \in Ids |-> R[b]]
  BY DEF Resumed
<1> HIDE DEF R
<1>3. R \in TransferLedger
  BY <1>1, <1>2 DEF TransferLedger, ReceiptRecords
<1> QED
  BY <1>1, <1>3 DEF R

\* A start leaves both ledgers as they were, or recovered, on the disk and in
\* memory alike.
LEMMA RestartStep ==
  ASSUME IInv, life = "down", NEW enabled \in BOOLEAN,
         NEW om \in {ops, Recovered}, NEW rm \in {receipts, Resumed(enabled)},
         ops' = om, receipts' = rm, saved' = [ops |-> om, receipts |-> rm],
         remote' \in BOOLEAN, events' \in {events, events + 1}, events' \in 0 .. MaxEvents,
         \/ life' = "up" /\ turn' = "reconcile"
         \/ life' = "down" /\ turn' = turn,
         UNCHANGED <<copy, requests, snapshots, orphans, uploads, active, scan, queued, checking,
                     broken, maintenance>>
  PROVE  IInv'
<1>1. TypeOK /\ LedgerInv /\ KeptInv /\ ReceiptsInv /\ RestInv
  BY DEF IInv, RestInv
<1>2. /\ ops = saved.ops /\ receipts = saved.receipts
      /\ active = Idle /\ turn = "free" /\ queued = None
  BY <1>1 DEF RestInv, LifeInv
<1>3. om \in Ledger /\ \A b \in Ids : OpMoved(ops[b], om[b], copy[b])
  <2>1. CASE om = ops
    BY <1>1, <2>1 DEF TypeOK, LedgerInv, OpMoved
  <2>2. CASE om = Recovered
    BY <1>1, <2>2, RecoveredMoves DEF Moved
  <2> QED
    BY <2>1, <2>2
<1>4. /\ rm \in TransferLedger
      /\ \A b \in Ids : \/ rm[b] = receipts[b]
                        \/ /\ receipts[b].state = "running" /\ rm[b].state = "pending"
                           /\ rm[b].round = receipts[b].round
                           /\ rm[b].attempts = receipts[b].attempts
  <2>1. CASE rm = receipts
    BY <1>1, <2>1 DEF TypeOK
  <2>2. CASE rm = Resumed(enabled)
    BY <1>1, <2>2, ResumedIs
  <2> QED
    BY <2>1, <2>2
<1>5. saved'.ops = om /\ saved'.receipts = rm /\ saved' \in [ops : Ledger, receipts : TransferLedger]
  BY <1>3, <1>4
<1>6. LedgerInv'
  <2>1. \A b \in Ids : Tracks(om[b], om[b])
    BY TracksItself
  <2>2. \A b \in Ids : om[b].state = "pruned" => copy[b] = "absent"
    BY <1>3 DEF OpMoved
  <2> QED
    BY <1>5, <2>1, <2>2 DEF LedgerInv
<1>7. KeptInv'
  <2>1. \A b \in Needed(ops, receipts) : copy[b] = "whole"
    BY <1>1 DEF KeptInv
  <2>2. ops \in Ledger /\ Moved(ops, om)
    BY <1>1, <1>3 DEF TypeOK, Moved
  <2>3. \A b \in Needed(om, receipts) : copy[b] = "whole"
    BY <1>1, <1>3, <2>1, <2>2, MovedKept
  <2>4. \A b \in Done(om) : receipts[b].state = "confirmed" => rm[b].state = "confirmed"
    BY <1>4 DEF Done
  <2>5. \A b \in Needed(om, rm) : copy[b] = "whole"
    BY <2>3, <2>4, ReceiptsKept
  <2>6. \A b \in requests : copy[b] = "whole"
    BY <1>1 DEF KeptInv
  <2> QED
    BY <1>5, <2>5, <2>6, KeptNext
<1>8. \A b \in Ids : ReceiptOK(b, rm[b])'
  <2>1. \A b \in Ids : Forgotten(b) => Forgotten(b)'
    BY <1>2, <1>3, <1>5 DEF Forgotten, OpMoved
  <2>2. snapshots \in [Ids -> Nat] /\ \A b \in Ids : snapshots'[b] >= snapshots[b]
    BY <1>1 DEF TypeOK
  <2>3. \A b \in Ids : \A q : q = receipts[b] => ReceiptOK(b, q)'
    BY <1>1, <2>1, <2>2, ReceiptsRemain
  <2>4. ASSUME NEW b \in Ids, rm[b] # receipts[b] PROVE ReceiptOK(b, rm[b])'
    <3>1. /\ ReceiptOK(b, receipts[b]) /\ receipts[b].state = "running" /\ rm[b].state = "pending"
          /\ rm[b].round = receipts[b].round /\ rm[b].attempts = receipts[b].attempts
      BY <1>1, <1>4, <2>4 DEF ReceiptsInv
    <3>2. uploads'[b] <= Budget(rm[b])
      BY <3>1 DEF ReceiptOK, Budget
    <3>3. rm[b].round <= events'
      <4>1. receipts[b].round \in Nat /\ events \in Nat /\ receipts[b].round <= events
        BY <1>1, <3>1, ReceiptTypes DEF ReceiptOK
      <4> QED
        BY <3>1, <4>1
    <3> QED
      BY <3>1, <3>2, <3>3 DEF ReceiptOK, Budget
  <2>5. ASSUME NEW b \in Ids, rm[b] = receipts[b] PROVE ReceiptOK(b, rm[b])'
    BY <2>3, <2>5
  <2> QED
    BY <2>4, <2>5
<1>9. ReceiptsInv'
  <2>1. receipts' = rm /\ saved'.receipts = rm
    BY <1>5
  <2> SUFFICES ASSUME NEW b \in Ids
               PROVE  ReceiptOK(b, receipts[b])' /\ ReceiptOK(b, saved.receipts[b])'
    BY <2>1 DEF ReceiptsInv
  <2>2. \A q : q = rm[b] => ReceiptOK(b, q)'
    BY <1>8
  <2>3. receipts[b]' = rm[b] /\ saved.receipts[b]' = rm[b]
    BY <2>1
  <2> QED
    BY <2>2, <2>3
<1>10. TypeOK'
  BY <1>1, <1>2, <1>3, <1>4, <1>5 DEF TypeOK
<1>11. ActiveInv' /\ LifeInv'
  BY <1>2, <1>5 DEF ActiveInv, LifeInv
<1>12. WorkInv'
  <2>1. \A b \in scan'.left : Retirable(b)'
    <3> SUFFICES ASSUME NEW b \in scan.left PROVE Retirable(b)'
      OBVIOUS
    <3>1. b \in Ids /\ Retirable(b)
      BY <1>1 DEF TypeOK, RestInv, WorkInv
    <3> QED
      BY <1>3, <3>1 DEF Retirable, OpMoved
  <2> QED
    BY <1>2, <1>5, <2>1 DEF WorkInv, Idle
<1>13. TransferInv'
  BY <1>2 DEF TransferInv, Transferring, Idle
<1> QED
  BY <1>6, <1>7, <1>9, <1>10, <1>11, <1>12, <1>13 DEF IInv

LEMMA BootStep == ASSUME IInv, Boot PROVE IInv'
<1>1. TypeOK /\ LedgerInv /\ KeptInv /\ ReceiptsInv /\ RestInv
  BY DEF IInv, RestInv
<1>2. /\ life = "down" /\ ops = saved.ops /\ receipts = saved.receipts
      /\ saved = [ops |-> saved.ops, receipts |-> saved.receipts]
      /\ remote \in BOOLEAN /\ events \in 0 .. MaxEvents
  BY <1>1, ReceiptTypes DEF Boot, RestInv, LifeInv, TypeOK
<1>3. UNCHANGED <<copy, requests, snapshots, orphans, uploads, active, scan, queued, checking,
                  broken, maintenance>>
  BY DEF Boot, outside
<1>4. PICK enabled \in BOOLEAN :
        \/ /\ remote' = enabled
           /\ ops' = Recovered /\ receipts' = Resumed(enabled)
           /\ saved' = [ops |-> ops', receipts |-> receipts']
           /\ life' = "up" /\ turn' = "reconcile" /\ UNCHANGED events
        \/ /\ Happens
           /\ saved' \in {saved, [saved EXCEPT !.ops = Recovered],
                          [ops |-> Recovered, receipts |-> Resumed(enabled)]}
           /\ ops' = saved'.ops /\ receipts' = saved'.receipts
           /\ UNCHANGED <<remote, life, turn>>
  BY Constants DEF Boot
<1> PICK o1 : o1 = Recovered
  OBVIOUS
<1> PICK r1 : r1 = Resumed(enabled)
  OBVIOUS
<1>5. CASE /\ remote' = enabled /\ ops' = o1 /\ receipts' = r1
           /\ saved' = [ops |-> o1, receipts |-> r1]
           /\ life' = "up" /\ turn' = "reconcile" /\ UNCHANGED events
  BY <1>2, <1>3, <1>5, RestartStep
<1>6. CASE /\ Happens
           /\ saved' \in {saved, [saved EXCEPT !.ops = o1], [ops |-> o1, receipts |-> r1]}
           /\ ops' = saved'.ops /\ receipts' = saved'.receipts
           /\ UNCHANGED <<remote, life, turn>>
  <2>1. events' = events + 1 /\ events' \in 0 .. MaxEvents
    BY <1>2, <1>6, Constants DEF Happens
  <2>2. [saved EXCEPT !.ops = o1] = [ops |-> o1, receipts |-> receipts]
    BY <1>2
  <2>3. PICK om \in {ops, o1}, rm \in {receipts, r1} : saved' = [ops |-> om, receipts |-> rm]
    BY <1>2, <1>6, <2>2
  <2>4. ops' = om /\ receipts' = rm
    BY <1>6, <2>3
  <2> QED
    BY <1>2, <1>3, <1>6, <2>1, <2>3, <2>4, RestartStep
<1> QED
  BY <1>4, <1>5, <1>6

-----------------------------------------------------------------------------
(* Invariance                                                                *)

LEMMA InitInv == Init => IInv
<1> SUFFICES ASSUME Init PROVE IInv
  OBVIOUS
<1>1. /\ remote \in BOOLEAN
      /\ ops = [b \in Ids |-> NoOp] /\ receipts = [b \in Ids |-> NoReceipt]
      /\ saved = [ops |-> ops, receipts |-> receipts]
      /\ copy = [b \in Ids |-> "absent"] /\ requests = {}
      /\ snapshots = [b \in Ids |-> 0] /\ orphans = {} /\ uploads = [b \in Ids |-> 0]
      /\ active = Idle /\ scan = NoScan /\ turn = "free" /\ queued = None /\ checking = None
      /\ broken = NotBroken /\ maintenance = FALSE /\ life = "up" /\ events = 0
  BY Constants DEF Init
<1>2. ops \in Ledger /\ receipts \in TransferLedger
  <2>1. NoOp \in [state : OpStates, scheduled : BOOLEAN, remote : BOOLEAN]
    BY DEF NoOp, OpStates
  <2>2. NoReceipt \in [state : ReceiptStates, attempts : 0 .. AttemptLimit,
                       passes : 0 .. PassLimit, round : 0 .. MaxEvents]
    BY Constants DEF NoReceipt, ReceiptStates
  <2> QED
    BY <1>1, <2>1, <2>2 DEF Ledger, TransferLedger
<1>3. TypeOK
  <2>1. saved \in [ops : Ledger, receipts : TransferLedger]
    BY <1>1, <1>2
  <2>2. snapshots \in [Ids -> Nat] /\ uploads \in [Ids -> Nat] /\ copy \in [Ids -> {"absent", "whole", "torn"}]
    BY <1>1
  <2>3. active \in [kind : {"none", "backup", "transfer", "inquiry"}, id : Ids \cup {None},
                   stage : {"idle", "copying", "retain", "check", "verify", "inventory", "upload"}]
    BY <1>1 DEF Idle
  <2>4. scan \in [left : SUBSET Ids, held : SUBSET Ids] /\ broken \in [ops : BOOLEAN, receipts : BOOLEAN]
    BY <1>1 DEF NoScan, NotBroken
  <2>5. events \in 0 .. MaxEvents
    BY <1>1, Constants
  <2>6. maintenance \in BOOLEAN
    BY <1>1
  <2> QED
    BY <1>1, <1>2, <2>1, <2>2, <2>3, <2>4, <2>5, <2>6 DEF TypeOK
<1>4. ActiveInv /\ LifeInv /\ WorkInv /\ TransferInv
  BY <1>1 DEF ActiveInv, LifeInv, WorkInv, TransferInv, Transferring, Idle, NoScan
<1>5. LedgerInv
  BY <1>1 DEF LedgerInv, Tracks, NoOp
<1>6. KeptInv
  <2>1. Done(ops) = {} /\ DoneScheduled(ops) = {}
    BY <1>1 DEF Done, DoneScheduled, NoOp
  <2>2. \A R : Needed(ops, R) = {}
    BY <2>1 DEF Needed, Latest
  <2>3. saved.ops = ops
    BY <1>1
  <2> QED
    BY <1>1, <2>2, <2>3 DEF KeptInv
<1>7. ReceiptsInv
  <2>1. \A b \in Ids : ReceiptOK(b, NoReceipt)
    BY <1>1 DEF ReceiptOK, NoReceipt
  <2>2. \A b \in Ids : receipts[b] = NoReceipt /\ saved.receipts[b] = NoReceipt
    BY <1>1
  <2> QED
    BY <2>1, <2>2 DEF ReceiptsInv
<1> QED
  BY <1>3, <1>4, <1>5, <1>6, <1>7 DEF IInv

LEMMA StutterStep == ASSUME IInv, UNCHANGED vars PROVE IInv'
<1>1. UNCHANGED <<remote, ops, receipts, saved, copy, requests, snapshots, orphans, uploads, active, scan,
                  turn, queued, checking, broken, maintenance, life, events>>
  BY DEF vars, durable, outside, executor, process
<1>2. TypeOK'
  BY <1>1 DEF IInv, TypeOK
<1>3. LedgerInv' /\ KeptInv' /\ ReceiptsInv'
  BY <1>1, StillerStep DEF IInv, Halted
<1>4. ActiveInv' /\ LifeInv'
  BY <1>1 DEF IInv, ActiveInv, LifeInv
<1>5. (active.id \in Succeeded \ Protected) = (active.id \in Succeeded \ Protected)'
  BY <1>1 DEF Succeeded, Protected, In, Scheduled, Unconfirmed, Unrecorded, HasReceipt, Latest
<1>6. WorkInv'
  BY <1>1, <1>5 DEF IInv, WorkInv, Retirable
<1>7. TransferInv'
  BY <1>1 DEF IInv, TransferInv, Transferring, Current, Budget
<1> QED
  BY <1>2, <1>3, <1>4, <1>6, <1>7 DEF IInv

LEMMA ProcessStep == ASSUME IInv, Process PROVE IInv'
<1>1. CASE Pump \/ Begin \/ Publish \/ CopyFails \/ Record \/ ReconcileOne \/ Reconciled
  BY <1>1, PumpStep, BeginStep, PublishStep, CopyFailsStep, RecordStep, ReconcileOneStep, ReconciledStep
<1>2. CASE Retain \/ Checked \/ Remove
  BY <1>2, RetainStep, CheckedStep, RemoveStep
<1>3. CASE BeginTransfer \/ VerifyTransfer \/ Inventory \/ Uploaded \/ TransferStops \/ RemoteTick
  BY <1>3, BeginTransferStep, VerifyTransferStep, InventoryStep, UploadedStep, TransferStopsStep,
     RemoteTickStep
<1>4. CASE Admitted \/ (maintenance /\ Close) \/ Exit \/ Boot
  BY <1>4, RestoreSteps, CloseStep, ExitStep, BootStep
<1> QED
  BY <1>1, <1>2, <1>3, <1>4 DEF Process

LEMMA StepInv == IInv /\ [Next]_vars => IInv'
<1> SUFFICES ASSUME IInv, [Next]_vars PROVE IInv'
  OBVIOUS
<1>1. CASE Process
  BY <1>1, ProcessStep
<1>2. ASSUME NEW b \in Ids, NEW scheduled \in BOOLEAN, Create(b, scheduled) PROVE IInv'
  BY <1>2, CreateStep
<1>3. ASSUME NEW b \in Ids, Retry(b) PROVE IInv'
  BY <1>3, RetryStep
<1>4. ASSUME NEW b \in Ids, AdmitRestore(b) PROVE IInv'
  BY <1>4, RestoreSteps
<1>5. ASSUME NEW b \in Ids, OrphanEnds(b) PROVE IInv'
  BY <1>5, OrphanEndsStep
<1>6. CASE Close
  BY <1>6, CloseStep
<1>7. CASE Crash
  BY <1>7, CrashStep
<1>8. CASE UNCHANGED vars
  BY <1>8, StutterStep
<1> QED
  BY <1>1, <1>2, <1>3, <1>4, <1>5, <1>6, <1>7, <1>8 DEF Next

(* The invariant holds in every state.                                       *)
THEOREM BackupInvariance == Spec => []IInv
BY InitInv, StepInv, PTL DEF Spec

(* Both ledgers, the copies and the executor keep their types for any number *)
(* of backups and any limits.                                                *)
THEOREM BackupTypes == Spec => []TypeOK
<1>1. IInv => TypeOK
  BY DEF IInv
<1> QED
  BY <1>1, BackupInvariance, PTL

LEMMA KeptHolds == IInv => KeptWhileNeeded
<1> SUFFICES ASSUME IInv, NEW b \in Ids,
                    \/ b \in requests
                    \/ b \in Succeeded /\ ~ops[b].scheduled
                    \/ b \in Succeeded /\ ops[b].remote /\ receipts[b].state # "confirmed"
                    \/ b \in Latest(Succeeded) \cup Latest(Scheduled(Succeeded))
             PROVE  copy[b] = "whole"
  BY DEF KeptWhileNeeded
<1>1. Succeeded = Done(ops)
  BY DEF Succeeded, In, Done
<1>2. Scheduled(Succeeded) = DoneScheduled(ops)
  BY <1>1 DEF Scheduled, DoneScheduled
<1>3. \A c \in Needed(ops, receipts) : copy[c] = "whole"
  BY DEF IInv, KeptInv
<1>4. \A c \in requests : copy[c] = "whole"
  BY DEF IInv, KeptInv
<1> QED
  BY <1>1, <1>2, <1>3, <1>4 DEF Needed

(* Whatever crashes, fails to be written or races with a restore, a copy that *)
(* a restore request names, that was made by hand, that is not confirmed to   *)
(* be in its repository, or that is the latest, stays whole.                  *)
THEOREM NeededCopiesStay == Spec => []KeptWhileNeeded
BY KeptHolds, BackupInvariance, PTL

LEMMA ConfirmedHolds == IInv => ConfirmedIsStored
BY DEF IInv, ReceiptsInv, ReceiptOK, ConfirmedIsStored

(* No lost answer, orphaned upload or restart confirms a transfer whose       *)
(* snapshot the repository does not hold.                                     *)
THEOREM ConfirmationsAreTrue == Spec => []ConfirmedIsStored
BY ConfirmedHolds, BackupInvariance, PTL

LEMMA BudgetHolds == IInv => BudgetKept
<1> SUFFICES ASSUME IInv, NEW b \in Ids, HasReceipt(b)
             PROVE  uploads[b] <= AttemptLimit * (receipts[b].round + 1)
  BY DEF BudgetKept
<1>1. receipts[b].attempts \in 0 .. AttemptLimit /\ receipts[b].round \in Nat /\ uploads[b] \in Nat
  <2>1. receipts \in TransferLedger /\ uploads \in [Ids -> Nat]
    BY DEF IInv, TypeOK
  <2>2. receipts[b] \in [state : ReceiptStates, attempts : 0 .. AttemptLimit,
                         passes : 0 .. PassLimit, round : 0 .. MaxEvents]
    BY <2>1 DEF TransferLedger
  <2> QED
    BY <2>1, <2>2, Constants
<1>2. uploads[b] <= AttemptLimit * receipts[b].round + receipts[b].attempts
  BY DEF IInv, ReceiptsInv, ReceiptOK, HasReceipt, Budget
<1> QED
  BY <1>1, <1>2, Constants, Spent

(* No crash, failed write or restart hands a transfer more uploads than its   *)
(* rounds of attempts allow.                                                  *)
THEOREM BudgetsHold == Spec => []BudgetKept
BY BudgetHolds, BackupInvariance, PTL
=============================================================================
