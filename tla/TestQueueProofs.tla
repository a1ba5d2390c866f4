--------------------------- MODULE TestQueueProofs ---------------------------
(* Proofs about the verification queue, for every number of runs, set of      *)
(* worktrees and limits, and any number of crashes.                           *)
EXTENDS TestQueueSlots, FiniteSetTheorems, WellFoundedInduction, TLAPS

-----------------------------------------------------------------------------
(* Type correctness. *)

LEMMA AsImage == \A ph \in {"absent"} \cup Pending \cup Terminal : As(ph) \in Image
BY DEF As, Image

\* The images that are saved keep their fields.
LEMMA ImageFields ==
  ASSUME NEW i \in Image
  PROVE  /\ i.phase \in {"absent"} \cup Pending \cup Terminal
         /\ i.certified \in BOOLEAN
         /\ \A ph \in {"absent"} \cup Pending \cup Terminal :
              /\ [i EXCEPT !.phase = ph] \in Image
              /\ [i EXCEPT !.phase = ph].phase = ph
         /\ \A ph \in {"absent"} \cup Pending \cup Terminal, c \in BOOLEAN :
              [phase |-> ph, certified |-> c] \in Image
BY DEF Image

LEMMA InitType == Init => TypeOK
<1> SUFFICES ASSUME Init PROVE TypeOK
  OBVIOUS
<1>1. pumping \in BOOLEAN
  BY DEF Init
<1>2. store \in [Runs -> Image] /\ run \in [Runs -> Image]
  BY AsImage DEF Init
<1> QED
  BY <1>1, <1>2 DEF Init, TypeOK

LEMMA StepType == TypeOK /\ [Next]_vars => TypeOK'
<1> SUFFICES ASSUME TypeOK, [Next]_vars PROVE TypeOK'
  OBVIOUS
<1> USE DEF slots, child, setup, down
<1>a. \A r \in Runs : store[r] \in Image /\ run[r] \in Image
  BY DEF TypeOK
<1>b. SchedulePump => pumping' \in BOOLEAN
  BY DEF SchedulePump, TypeOK
<1>c. \A r \in Runs :
        /\ Completing(r) \in [Runs -> {"idle", "stopping", "observing", "finishing"}]
        /\ \A w \in {"run", "copy"} :
             Finalizing(r, w) \in [Runs -> {"none", "run", "copy"}]
  BY DEF TypeOK, Completing, Finalizing
<1>d. \A ph \in {"absent", "queued", "running", "passed", "failed", "cancelled",
                 "timed_out", "interrupted"} : As(ph) \in Image
  BY AsImage DEF Pending, Terminal
<1>1. CASE \E r \in Runs, w \in Worktrees : Enqueue(r, w)
  BY <1>1, <1>b, <1>d DEF Enqueue, TypeOK
<1>2. CASE Pump
  <2> PICK next \in SUBSET Heads :
        /\ preparing' = preparing \cup next
        /\ observing' = observing \cup next
        /\ run' = [r \in Runs |-> IF r \in next THEN store[r] ELSE run[r]]
    BY <1>2 DEF Pump
  <2>1. next \subseteq Runs
    BY DEF Heads, Eligible
  <2>2. run' \in [Runs -> Image]
    BY <1>a
  <2>3. pumping' \in BOOLEAN
    BY <1>2 DEF Pump
  <2> QED
    BY <1>2, <2>1, <2>2, <2>3 DEF Pump, TypeOK
<1>3. CASE \E n \in Limits : SetLimit(n)
  BY <1>3, <1>b DEF SetLimit, TypeOK
<1>4. ASSUME NEW r \in Runs, Preflight(r) PROVE TypeOK'
  <2>1. CASE PreflightAbandoned(r)
    BY <2>1, <1>b DEF PreflightAbandoned, TypeOK
  <2>2. CASE PreflightRejected(r) \/ PreflightThrew(r)
    BY <2>2, <1>c, <1>d DEF PreflightRejected, PreflightThrew, TypeOK
  <2>3. CASE Start(r)
    BY <2>3, <1>b, <1>d DEF Start, TypeOK
  <2>4. CASE StartThrew(r)
    BY <2>4, <1>b, <1>c, <1>d DEF StartThrew, TypeOK
  <2> QED
    BY <1>4, <2>1, <2>2, <2>3, <2>4 DEF Preflight
<1>5. ASSUME NEW r \in Runs,
             LeaderExit(r) \/ GroupGone(r) \/ SpawnError(r) \/ Timeout(r)
      PROVE  TypeOK'
  <2>1. CASE LeaderExit(r)
    BY <2>1, <1>c DEF LeaderExit, TypeOK
  <2>2. CASE GroupGone(r)
    BY <2>2 DEF GroupGone, TypeOK
  <2>3. CASE SpawnError(r)
    BY <2>3, <1>c DEF SpawnError, TypeOK
  <2>4. CASE Timeout(r)
    BY <2>4, <1>c DEF Timeout, TypeOK
  <2> QED
    BY <1>5, <2>1, <2>2, <2>3, <2>4
<1>6. ASSUME NEW r \in Runs, StopConfirmed(r) \/ StopFailed(r) \/ LogFlush(r)
      PROVE  TypeOK'
  BY <1>6, <1>a, <1>d DEF StopConfirmed, StopFailed, LogFlush, Verdict, TypeOK
<1>7. ASSUME NEW r \in Runs, NEW match \in BOOLEAN, SourceObserved(r, match)
      PROVE  TypeOK'
  <2>1. run' \in [Runs -> Image]
    BY <1>7, <1>a, ImageFields DEF SourceObserved, TypeOK, Terminal
  <2> QED
    BY <1>7, <1>c, <2>1 DEF SourceObserved, TypeOK
<1>8. ASSUME NEW r \in Runs, NEW written \in BOOLEAN, FinishLog(r, written)
      PROVE  TypeOK'
  <2>1. store' \in [Runs -> Image] /\ run' \in [Runs -> Image]
    <3> DEFINE final == IF fin[r] = "copy" THEN As("cancelled") ELSE run[r]
               image == IF final.phase = "passed" /\ ~written
                        THEN [final EXCEPT !.phase = "failed"] ELSE final
    <3>1. final \in Image
      BY <1>a, <1>d
    <3>2. image \in Image
      <4> HIDE DEF final
      <4> QED BY <3>1, ImageFields DEF Terminal
    <3> HIDE DEF image
    <3>3. /\ store' = [store EXCEPT ![r] = image]
          /\ run' = [run EXCEPT ![r] = IF fin[r] = "copy" THEN @ ELSE image]
      BY <1>8 DEF FinishLog, image
    <3> QED
      BY <3>2, <3>3, <1>a DEF TypeOK
  <2> QED
    BY <1>8, <1>b, <2>1 DEF FinishLog, TypeOK
<1>9. ASSUME NEW r \in Runs, CancelQueued(r) \/ CancelRunning(r) PROVE TypeOK'
  BY <1>9, <1>c DEF CancelQueued, CancelRunning, TypeOK
<1>10. CASE ShutdownBegin
  BY <1>10, <1>c DEF ShutdownBegin, TypeOK
<1>11. CASE ShutdownRetry \/ ShutdownEnd
  BY <1>11, <1>c DEF ShutdownRetry, ShutdownEnd, TypeOK
<1>12. CASE Crash
  <2>1. store' \in [Runs -> Image] /\ run' \in [Runs -> Image]
    BY <1>12, <1>a, ImageFields DEF Crash, Terminal
  <2>2. pumping' \in BOOLEAN
    BY <1>12 DEF Crash
  <2> QED
    BY <1>12, <2>1, <2>2 DEF Crash, TypeOK
<1>13. CASE UNCHANGED vars
  BY <1>13 DEF vars, TypeOK
<1> QED
  BY <1>1, <1>2, <1>3, <1>4, <1>5, <1>6, <1>7, <1>8, <1>9, <1>10, <1>11, <1>12,
     <1>13 DEF Next, Preflight

\* Every variable of the queue keeps its type.
THEOREM TypeCorrect == Spec => []TypeOK
BY InitType, StepType, PTL DEF Spec

-----------------------------------------------------------------------------
(* The inductive invariant, while users do not cancel during a preflight. *)

LEMMA InitInv == Init => IInv
<1> SUFFICES ASSUME Init PROVE SlotInv /\ \A r \in Runs : RunInv(r)
  BY InitType DEF IInv
<1> QED
  BY DEF Init, As, SlotInv, RunInv, IsQueued, Early, Live, IsTerminal, Terminal

LEMMA StepRunInv ==
  ASSUME ~CancelsPreflight, IInv, [Next]_vars, NEW q \in Runs
  PROVE  RunInv(q)'
<1> USE DEF slots, child, setup, down, RunInv, IsQueued, Early, Live, IsTerminal,
            Terminal, Closed
<1>0. TypeOK /\ RunInv(q)
  BY DEF IInv
<1>a. \A ph : As(ph).phase = ph
  BY DEF As
<1>b. \A r \in Runs : Completing(r)[q] = IF r = q /\ comp[q] = "idle"
                                         THEN "stopping" ELSE comp[q]
  BY <1>0 DEF Completing, TypeOK
<1>c. \A w : \A r \in Runs : Finalizing(r, w)[q] = IF r = q /\ fin[q] = "none"
                                                 THEN w ELSE fin[q]
  BY <1>0 DEF Finalizing, TypeOK
<1>1. ASSUME NEW r \in Runs, NEW w \in Worktrees, Enqueue(r, w) PROVE RunInv(q)'
  BY <1>1, <1>0, <1>a DEF Enqueue, TypeOK
<1>2. CASE Pump
  <2> PICK next \in SUBSET Heads :
        /\ Closed => next = {}
        /\ preparing' = preparing \cup next
        /\ observing' = observing \cup next
        /\ run' = [r \in Runs |-> IF r \in next THEN store[r] ELSE run[r]]
    BY <1>2 DEF Pump
  <2>1. q \in next => IsQueued(q) /\ fin[q] = "none"
    BY DEF Heads, Eligible
  <2> QED
    BY <1>2, <1>0, <2>1 DEF Pump, TypeOK
<1>3. ASSUME NEW n \in Limits, SetLimit(n) PROVE RunInv(q)'
  BY <1>3, <1>0 DEF SetLimit
<1>4. ASSUME NEW r \in Runs, PreflightAbandoned(r) PROVE RunInv(q)'
  BY <1>4, <1>0 DEF PreflightAbandoned, Abandoned
<1>5. ASSUME NEW r \in Runs, PreflightRejected(r) PROVE RunInv(q)'
  BY <1>5, <1>0, <1>a, <1>c DEF PreflightRejected, Abandoned, TypeOK
<1>6. ASSUME NEW r \in Runs, PreflightThrew(r) PROVE RunInv(q)'
  BY <1>6, <1>0, <1>a, <1>c DEF PreflightThrew, TypeOK
<1>7. ASSUME NEW r \in Runs, Start(r) PROVE RunInv(q)'
  BY <1>7, <1>0, <1>a DEF Start, Abandoned, TypeOK
<1>8. ASSUME NEW r \in Runs, StartThrew(r) PROVE RunInv(q)'
  BY <1>8, <1>0, <1>a, <1>c DEF StartThrew, Abandoned, TypeOK
<1>9. ASSUME NEW r \in Runs, LeaderExit(r) PROVE RunInv(q)'
  BY <1>9, <1>0, <1>b DEF LeaderExit, TypeOK
<1>10. ASSUME NEW r \in Runs, GroupGone(r) PROVE RunInv(q)'
  BY <1>10, <1>0 DEF GroupGone, TypeOK
<1>11. ASSUME NEW r \in Runs, SpawnError(r) PROVE RunInv(q)'
  BY <1>11, <1>0, <1>b DEF SpawnError, TypeOK
<1>12. ASSUME NEW r \in Runs, Timeout(r) PROVE RunInv(q)'
  BY <1>12, <1>0, <1>b DEF Timeout, TypeOK
<1>13. ASSUME NEW r \in Runs, StopConfirmed(r) PROVE RunInv(q)'
  BY <1>13, <1>0, <1>a DEF StopConfirmed, Verdict, TypeOK
<1>14. ASSUME NEW r \in Runs, StopFailed(r) PROVE RunInv(q)'
  BY <1>14, <1>0 DEF StopFailed, TypeOK
<1>15. ASSUME NEW r \in Runs, NEW match \in BOOLEAN, SourceObserved(r, match)
       PROVE  RunInv(q)'
  <2>1. run'[q].phase \in {run[q].phase} \cup (IF run[q].phase = "passed" /\ q = r
                                             THEN {"failed"} ELSE {})
    BY <1>15, <1>0 DEF SourceObserved, TypeOK
  <2>2. run'[q].phase \in Terminal <=> run[q].phase \in Terminal
    BY <2>1
  <2>3. run'[q].phase = "running" <=> run[q].phase = "running"
    BY <2>1
  <2> QED
    BY <1>15, <1>0, <1>c, <2>2, <2>3 DEF SourceObserved, TypeOK
<1>16. ASSUME NEW r \in Runs, LogFlush(r) PROVE RunInv(q)'
  BY <1>16, <1>0 DEF LogFlush, TypeOK
<1>17. ASSUME NEW r \in Runs, NEW written \in BOOLEAN, FinishLog(r, written)
       PROVE  RunInv(q)'
  BY <1>17, <1>0, <1>a DEF FinishLog, TypeOK
<1>18. ASSUME NEW r \in Runs, CancelQueued(r) PROVE RunInv(q)'
  BY <1>18, <1>0, <1>c DEF CancelQueued, TypeOK
<1>19. ASSUME NEW r \in Runs, CancelRunning(r) PROVE RunInv(q)'
  BY <1>19, <1>0, <1>b DEF CancelRunning, TypeOK
<1>20. CASE ShutdownBegin
  BY <1>20, <1>0, <1>b, <1>c DEF ShutdownBegin, TypeOK
<1>21. CASE ShutdownRetry
  BY <1>21, <1>0, <1>b DEF ShutdownRetry, TypeOK
<1>22. CASE ShutdownEnd
  BY <1>22, <1>0 DEF ShutdownEnd, TypeOK
<1>23. CASE Crash
  <2>1. store'[q].phase = IF store[q].phase \in Pending THEN "interrupted"
                          ELSE store[q].phase
    BY <1>23, <1>0, ImageFields DEF Crash, TypeOK
  <2> HIDE DEF Terminal
  <2>2. run'[q].phase = store'[q].phase
    BY <1>23 DEF Crash
  <2>3. store'[q].phase \in Terminal \cup {"absent"}
    BY <2>1, <1>0, ImageFields DEF TypeOK, Pending, Terminal
  <2> QED
    BY <1>23, <1>0, <2>2, <2>3 DEF Crash, TypeOK, Terminal
<1>24. CASE UNCHANGED vars
  BY <1>24, <1>0 DEF vars
<1> QED
  BY <1>1, <1>2, <1>3, <1>4, <1>5, <1>6, <1>7, <1>8, <1>9, <1>10, <1>11, <1>12,
     <1>13, <1>14, <1>15, <1>16, <1>17, <1>18, <1>19, <1>20, <1>21, <1>22, <1>23,
     <1>24 DEF Next

\* Only the pump gives a run a slot, and only start() moves one.
LEMMA SlotsGrow ==
  ASSUME ~CancelsPreflight, IInv, [Next]_vars, ~Pump
  PROVE  /\ active' \cup preparing' \subseteq active \cup preparing
         /\ \A r \in active \cup preparing : wt'[r] = wt[r]
<1> USE DEF slots, child, setup, down
<1>0. \A r \in Runs : RunInv(r)
  BY DEF IInv
<1>1. ASSUME NEW r \in Runs, NEW w \in Worktrees, Enqueue(r, w)
      PROVE  /\ active' = active /\ preparing' = preparing
             /\ \A q \in active \cup preparing : wt'[q] = wt[q]
  <2>1. r \notin active \cup preparing
    BY <1>1, <1>0 DEF Enqueue, RunInv, IsQueued, Early
  <2> QED
    BY <1>1, <2>1 DEF Enqueue, IInv, TypeOK
<1>2. ASSUME NEW r \in Runs, Start(r)
      PROVE  active' \cup preparing' \subseteq active \cup preparing /\ wt' = wt
  BY <1>2, <1>0 DEF Start, Abandoned, RunInv
<1>3. CASE \E r \in Runs :
             \/ PreflightAbandoned(r) \/ PreflightRejected(r)
             \/ PreflightThrew(r) \/ StartThrew(r)
             \/ \E written \in BOOLEAN : FinishLog(r, written)
             \/ CancelQueued(r)
  BY <1>3 DEF PreflightAbandoned, PreflightRejected, PreflightThrew, StartThrew,
              FinishLog, CancelQueued
<1>4. CASE \E r \in Runs :
             \/ LeaderExit(r) \/ GroupGone(r) \/ SpawnError(r) \/ Timeout(r)
             \/ StopConfirmed(r) \/ StopFailed(r) \/ LogFlush(r)
             \/ \E match \in BOOLEAN : SourceObserved(r, match)
             \/ CancelRunning(r)
  BY <1>4 DEF LeaderExit, GroupGone, SpawnError, Timeout, StopConfirmed,
              StopFailed, LogFlush, SourceObserved, CancelRunning
<1>5. CASE \/ \E n \in Limits : SetLimit(n)
           \/ ShutdownBegin \/ ShutdownRetry \/ ShutdownEnd \/ Crash
           \/ UNCHANGED vars
  BY <1>5 DEF SetLimit, ShutdownBegin, ShutdownRetry, ShutdownEnd, Crash, vars
<1> QED
  BY <1>1, <1>2, <1>3, <1>4, <1>5 DEF Next

LEMMA StepSlotInv ==
  ASSUME ~CancelsPreflight, IInv, [Next]_vars
  PROVE  SlotInv'
<1>1. CASE Pump
  <2> PICK next \in SUBSET Heads :
        preparing' = preparing \cup next /\ active' = active /\ wt' = wt
    BY <1>1 DEF Pump
  <2>1. \A r \in next : wt[r] \notin Occupied
    BY DEF Heads
  <2>2. \A r, q \in next : wt[r] = wt[q] => r = q
    <3> SUFFICES ASSUME NEW r \in next, NEW q \in next, wt[r] = wt[q] PROVE r = q
      OBVIOUS
    <3>1. r \in Nat /\ q \in Nat /\ r <= q /\ q <= r
      BY QueueAssumption DEF Heads, Eligible, Runs
    <3> QED
      BY <3>1
  <2> QED
    BY <2>1, <2>2 DEF SlotInv, IInv, Occupied
<1>2. CASE ~Pump
  BY <1>2, SlotsGrow DEF SlotInv, IInv
<1> QED
  BY <1>1, <1>2

LEMMA InvHolds == ASSUME ~CancelsPreflight PROVE Spec => []IInv
<1>1. IInv /\ [Next]_vars => IInv'
  BY StepType, StepRunInv, StepSlotInv DEF IInv, Runs
<1> QED
  BY InitInv, <1>1, PTL DEF Spec

\* A worktree has at most one run that is being prepared or whose process group
\* has a live member (docs/architecture.md:91,101), if nobody cancels a run
\* during its preflight.
THEOREM ExclusiveWorktrees ==
  ASSUME ~CancelsPreflight
  PROVE  Spec => []WorktreeExclusion
<1>1. IInv => WorktreeExclusion
  BY DEF IInv, SlotInv, RunInv, WorktreeExclusion, Holds
<1> QED
  BY InvHolds, <1>1, PTL

\* A run is terminal in the database only when its process group is gone
\* (docs/architecture.md:92-94), if nobody cancels a run during its preflight.
THEOREM TerminalRunsHaveExited ==
  ASSUME ~CancelsPreflight
  PROVE  Spec => []TerminalAfterExit
<1>1. IInv => TerminalAfterExit
  BY DEF IInv, RunInv, TerminalAfterExit
<1> QED
  BY InvHolds, <1>1, PTL

-----------------------------------------------------------------------------
(* The queue implements the abstract slots. *)

\* What a step other than enqueue() and the pump does to the status of a run.
LEMMA OnlyDrops ==
  ASSUME ~CancelsPreflight, IInv, [Next]_vars, ~Pump, NEW q \in Runs,
         ~\E r \in Runs, w \in Worktrees : Enqueue(r, w)
  PROVE  \/ StatusOf(q)' = StatusOf(q)
         \/ StatusOf(q) \in {"waiting", "holding"} /\ StatusOf(q)' = "over"
<1> DEFINE Falls == \/ StatusOf(q)' = StatusOf(q)
                    \/ StatusOf(q) \in {"waiting", "holding"} /\ StatusOf(q)' = "over"
<1> USE DEF slots, child, setup, down, IsQueued, Live, IsTerminal, Terminal,
            Closed, StatusOf
<1>0. TypeOK /\ RunInv(q)
  BY DEF IInv
<1>a. \A ph : As(ph).phase = ph
  BY DEF As
<1>b. store[q].phase \in {"absent"} \cup Pending \cup Terminal
  BY <1>0, ImageFields DEF TypeOK
<1>c. \A w : \A r \in Runs : Finalizing(r, w)[q] = IF r = q /\ fin[q] = "none"
                                               THEN w ELSE fin[q]
  BY <1>0 DEF Finalizing, TypeOK
<1>1. ASSUME store' = store, active' = active, preparing' = preparing, fin' = fin
      PROVE  Falls
  BY <1>1
<1>d. ASSUME NEW r \in Runs,
             \/ LeaderExit(r) \/ GroupGone(r) \/ SpawnError(r) \/ Timeout(r)
             \/ StopConfirmed(r) \/ CancelRunning(r)
      PROVE  Falls
  BY <1>d, <1>1 DEF LeaderExit, GroupGone, SpawnError, Timeout, StopConfirmed,
                    CancelRunning
<1>e. ASSUME \/ \E n \in Limits : SetLimit(n)
             \/ ShutdownRetry \/ ShutdownEnd \/ UNCHANGED vars
      PROVE  Falls
  BY <1>e, <1>1 DEF SetLimit, ShutdownRetry, ShutdownEnd, vars
<1>2. ASSUME NEW r \in Runs, PreflightAbandoned(r) PROVE Falls
  BY <1>2, <1>0 DEF PreflightAbandoned, Abandoned, RunInv
<1>3. ASSUME NEW r \in Runs, PreflightRejected(r) PROVE Falls
  BY <1>3, <1>0, <1>c DEF PreflightRejected, Abandoned, RunInv, Early
<1>4. ASSUME NEW r \in Runs, PreflightThrew(r) PROVE Falls
  BY <1>4, <1>0, <1>c DEF PreflightThrew, RunInv
<1>5. ASSUME NEW r \in Runs, Start(r) PROVE Falls
  BY <1>5, <1>0, <1>a DEF Start, Abandoned, RunInv, TypeOK
<1>6. ASSUME NEW r \in Runs, StartThrew(r) PROVE Falls
  BY <1>6, <1>0, <1>a, <1>c DEF StartThrew, Abandoned, RunInv, Early, TypeOK
<1>7. ASSUME NEW r \in Runs, StopFailed(r) \/ LogFlush(r) PROVE Falls
  BY <1>7, <1>0 DEF StopFailed, LogFlush, RunInv, Early, TypeOK
<1>8. ASSUME NEW r \in Runs, NEW match \in BOOLEAN, SourceObserved(r, match)
      PROVE  Falls
  BY <1>8, <1>0, <1>c DEF SourceObserved, RunInv, Early, TypeOK
<1>9. ASSUME NEW r \in Runs, NEW written \in BOOLEAN, FinishLog(r, written)
      PROVE  Falls
  BY <1>9, <1>0, <1>a, <1>b DEF FinishLog, RunInv, TypeOK
<1>10. ASSUME NEW r \in Runs, CancelQueued(r) PROVE Falls
  BY <1>10, <1>0, <1>c DEF CancelQueued, RunInv, Early
<1>11. CASE ShutdownBegin
  BY <1>11, <1>0, <1>c DEF ShutdownBegin, RunInv, Early
<1>12. CASE Crash
  <2>1. store'[q].phase = IF store[q].phase \in Pending THEN "interrupted"
                          ELSE store[q].phase
    BY <1>12, <1>0, ImageFields DEF Crash, TypeOK
  <2> QED
    BY <1>12, <1>0, <1>b, <2>1 DEF Crash, RunInv, Early, Pending
<1> QED
  BY <1>d, <1>e, <1>2, <1>3, <1>4, <1>5, <1>6, <1>7, <1>8, <1>9, <1>10, <1>11,
     <1>12 DEF Next

\* The runs that hold a slot are those the manager counts.
LEMMA HoldingIsCounted ==
  ASSUME IInv
  PROVE  /\ Slots!InStatus("holding") = active \cup preparing
         /\ Slots!InStatus("waiting") = Eligible \ (active \cup preparing)
         /\ Cardinality(active \cup preparing)
              = Cardinality(active) + Cardinality(preparing)
         /\ IsFiniteSet(active \cup preparing)
<1>0. /\ TypeOK
      /\ \A r \in Runs : RunInv(r)
  BY DEF IInv
<1>1. Slots!InStatus("holding") = active \cup preparing
  BY <1>0 DEF Slots!InStatus, StatusOf, RunInv, IsQueued, Early, IsTerminal,
              Terminal, TypeOK
<1>2. \A r \in Runs : store[r].phase \in {"absent"} \cup Pending \cup Terminal
  BY <1>0, ImageFields DEF TypeOK
<1>3. \A r \in Runs : store[r].phase = "running" /\ r \notin active => fin[r] # "none"
  BY <1>0 DEF RunInv
<1>4. Slots!InStatus("waiting") = Eligible \ (active \cup preparing)
  BY <1>0, <1>2, <1>3 DEF Slots!InStatus, StatusOf, IsTerminal, Terminal, Pending,
              Eligible, IsQueued
<1>5. IsFiniteSet(active) /\ IsFiniteSet(preparing) /\ active \cap preparing = {}
  <2>1. IsFiniteSet(Runs)
    BY FS_Interval, QueueAssumption DEF Runs
  <2>2. active \cap preparing = {}
    BY <1>0 DEF RunInv, IsQueued, Early, TypeOK
  <2> QED
    BY <1>0, <2>1, <2>2, FS_Subset DEF TypeOK
<1>6. Cardinality(active \cup preparing)
        = Cardinality(active) + Cardinality(preparing) - Cardinality(active \cap preparing)
      /\ IsFiniteSet(active \cup preparing)
  BY <1>5, FS_Union
<1>7. Cardinality(active \cap preparing) = 0
  BY <1>5, FS_EmptySet
<1>8. Cardinality(active) \in Nat /\ Cardinality(preparing) \in Nat
  BY <1>5, FS_CardinalityType
<1> QED
  BY <1>1, <1>4, <1>6, <1>7, <1>8

LEMMA InitSlots == Init => Slots!Init
BY DEF Init, Slots!Init, StatusOf, As

\* The abstract module counts with its own instance of FiniteSets.
LEMMA SameCardinality == \A S : Slots!Cardinality(S) = Cardinality(S)
BY DEF Slots!Cardinality, Cardinality

LEMMA EnqueueSubmits ==
  ASSUME IInv, NEW r \in Runs, NEW w \in Worktrees, Enqueue(r, w)
  PROVE  Slots!Submit(r, w)
<1>1. /\ \A q \in Runs : StatusOf(q)' = IF q = r THEN "waiting" ELSE StatusOf(q)
      /\ StatusOf(r) = "new"
  BY DEF IInv, TypeOK, RunInv, Enqueue, StatusOf, As, slots, IsQueued, Early,
         IsTerminal, Terminal
<1> QED
  BY <1>1 DEF Slots!Submit, Enqueue, setup

\* The oldest waiting run of a worktree that nobody occupies heads it.
LEMMA HeadExists ==
  ASSUME NEW q \in Eligible, wt[q] \notin Occupied
  PROVE  \E p \in Heads : wt[p] = wt[q] /\ p <= q
<1> DEFINE Rivals == {p \in Eligible : wt[p] = wt[q]}
<1>1. Rivals \subseteq Nat /\ q \in Rivals
  BY QueueAssumption DEF Eligible, Runs
<1>2. PICK p \in Rivals : \A o \in Rivals : p <= o
  <2> HIDE DEF Rivals
  <2>1. PICK p \in Rivals : \A o \in Rivals : <<o, p>> \notin OpToRel(<, Nat)
    BY <1>1, NatLessThanWellFounded, WFMin
  <2>2. \A o \in Rivals : ~(o < p)
    BY <1>1, <2>1, Zenon DEF OpToRel
  <2>3. \A o \in Rivals : p <= o
    BY <1>1, <2>2
  <2> QED
    BY <2>3
<1>3. p \in Heads
  BY <1>2 DEF Heads
<1> QED
  BY <1>1, <1>2, <1>3

LEMMA PumpGrants ==
  ASSUME IInv, Pump
  PROVE  \E S \in SUBSET Runs : Slots!Grant(S)
<1> PICK next \in SUBSET Heads :
      /\ IF Closed THEN next = {}
         ELSE /\ Cardinality(next) <= FreeSlots
              /\ next # Heads => Cardinality(next) = FreeSlots
              /\ \A r \in next, q \in Heads \ next : r < q
      /\ preparing' = preparing \cup next
  BY DEF Pump
<1> DEFINE held == active \cup preparing
<1>0. /\ Slots!InStatus("holding") = held
      /\ Slots!InStatus("waiting") = Eligible \ held
      /\ Cardinality(held) = Cardinality(active) + Cardinality(preparing)
  BY HoldingIsCounted
<1>1. next \subseteq Eligible \ held
  BY DEF Heads, Occupied
<1>2. next \subseteq Runs
  BY <1>1 DEF Eligible
<1>3. \A r \in next : wt[r] \notin Slots!Held((held \cup next) \ {r})
  <2> SUFFICES ASSUME NEW r \in next, NEW q \in (held \cup next) \ {r},
                      wt[q] = wt[r]
               PROVE  FALSE
    BY DEF Slots!Held
  <2>1. q \in next
    BY DEF Heads, Occupied
  <2>2. r \in Nat /\ q \in Nat /\ r <= q /\ q <= r
    BY <2>1, QueueAssumption DEF Heads, Eligible, Runs
  <2> QED
    BY <2>2
<1>4. next # {} => Cardinality(held) + Cardinality(next) <= limit
  <2> SUFFICES ASSUME next # {}
               PROVE  Cardinality(held) + Cardinality(next) <= limit
    OBVIOUS
  <2>1. IsFiniteSet(held) /\ IsFiniteSet(next) /\ IsFiniteSet(active)
        /\ IsFiniteSet(preparing)
    <3>1. IsFiniteSet(Runs)
      BY FS_Interval, QueueAssumption DEF Runs
    <3> QED
      BY <1>2, <3>1, HoldingIsCounted, FS_Subset
  <2>2. Cardinality(next) # 0
    BY <2>1, FS_EmptySet
  <2>3. /\ Cardinality(next) \in Nat /\ Cardinality(active) \in Nat
        /\ Cardinality(preparing) \in Nat
    BY <2>1, FS_CardinalityType
  <2>4. Cardinality(next) <= FreeSlots
    BY <2>2
  <2>5. limit \in Nat
    BY QueueAssumption DEF IInv, TypeOK
  <2> QED
    BY <1>0, <2>2, <2>3, <2>4, <2>5 DEF FreeSlots
\* The oldest waiting run of a free worktree heads it, and a head that is
\* passed over is younger than every run that was picked.
<1>5. \A r \in next, q \in Eligible \ held :
        q < r => wt[q] \in Slots!Held(held \cup {p \in next : p <= q})
  <2> SUFFICES ASSUME NEW r \in next, NEW q \in Eligible \ held, q < r,
                      wt[q] \notin Slots!Held(held \cup {p \in next : p <= q})
               PROVE  FALSE
    OBVIOUS
  <2>1. wt[q] \notin Occupied /\ \A p \in next : p <= q => wt[p] # wt[q]
    BY DEF Slots!Held, Occupied
  <2>3. PICK p \in Heads : wt[p] = wt[q] /\ p <= q
    BY <2>1, HeadExists
  <2>4. p \in Heads \ next
    BY <2>1, <2>3
  <2>5. r < p
    BY <2>4
  <2>6. r \in Nat /\ p \in Nat /\ q \in Nat
    BY <1>2, QueueAssumption DEF Heads, Eligible, Runs
  <2> QED
    BY <2>3, <2>5, <2>6
<1>6. \A r \in Runs : StatusOf(r)' = IF r \in next THEN "holding" ELSE StatusOf(r)
  BY <1>2 DEF Pump, StatusOf, Heads, Eligible, IsQueued, IsTerminal
<1>7. [r \in Runs |-> StatusOf(r)]'
        = [r \in Runs |-> IF r \in next THEN "holding"
                          ELSE [q \in Runs |-> StatusOf(q)][r]]
  BY <1>6
<1>8. wt' = wt /\ limit' = limit
  BY DEF Pump, setup
<1>9. Slots!Grant(next)
  <2>1. next \subseteq Slots!InStatus("waiting")
    BY <1>0, <1>1
  <2>2. \A r \in next :
          wt[r] \notin Slots!Held((Slots!InStatus("holding") \cup next) \ {r})
    BY <1>0, <1>3
  <2>3. next # {} => Cardinality(Slots!InStatus("holding")) + Cardinality(next) <= limit
    BY <1>0, <1>4
  <2>4. \A r \in next, q \in Slots!InStatus("waiting") :
          q < r => wt[q] \in Slots!Held(Slots!InStatus("holding")
                                          \cup {p \in next : p <= q})
    BY <1>0, <1>5
  <2> QED
    BY <2>1, <2>2, <2>3, <2>4, <1>7, <1>8, SameCardinality DEF Slots!Grant
<1> QED
  BY <1>2, <1>9

LEMMA OtherStepsDrop ==
  ASSUME ~CancelsPreflight, IInv, [Next]_vars, ~Pump,
         ~\E r \in Runs, w \in Worktrees : Enqueue(r, w),
         ~\E n \in Limits : SetLimit(n)
  PROVE  \E S \in SUBSET Runs : Slots!Drop(S)
<1> DEFINE S == {r \in Runs : StatusOf(r)' # StatusOf(r)}
<1>1. \A r \in S : StatusOf(r) \in {"waiting", "holding"} /\ StatusOf(r)' = "over"
  BY OnlyDrops
<1>2. S \subseteq Slots!InStatus("waiting") \cup Slots!InStatus("holding")
  BY <1>1 DEF Slots!InStatus
<1>3. [r \in Runs |-> StatusOf(r)]'
        = [r \in Runs |-> IF r \in S THEN "over"
                          ELSE [q \in Runs |-> StatusOf(q)][r]]
  BY <1>1
<1>4. wt' = wt /\ limit' = limit
  BY DEF Next, PreflightAbandoned, PreflightRejected, PreflightThrew, Start,
         StartThrew, LeaderExit, GroupGone, SpawnError, Timeout, StopConfirmed,
         StopFailed, SourceObserved, LogFlush, FinishLog, CancelQueued,
         CancelRunning, ShutdownBegin, ShutdownRetry, ShutdownEnd, Crash, vars, setup
<1>5. Slots!Drop(S)
  BY <1>2, <1>3, <1>4 DEF Slots!Drop
<1> QED
  BY <1>5

LEMMA SetLimitSets ==
  ASSUME NEW n \in Limits, SetLimit(n)
  PROVE  Slots!SetLimit(n)
<1>1. \A r \in Runs : StatusOf(r)' = StatusOf(r)
  BY DEF SetLimit, StatusOf, slots, IsTerminal
<1> QED
  BY <1>1 DEF SetLimit, Slots!SetLimit

\* The verification queue implements the abstract slots: oldest run first, one
\* per worktree, never above the limit, nothing that is over comes back
\* (docs/architecture.md:90-102), if nobody cancels a run during its preflight.
THEOREM QueueImplementsSlots ==
  ASSUME ~CancelsPreflight
  PROVE  Spec => ImplementsSlots
<1>1. IInv /\ [Next]_vars => [Slots!Next]_Slots!slotVars
  <2> SUFFICES ASSUME IInv, [Next]_vars PROVE Slots!Next
    OBVIOUS
  <2>1. CASE \E r \in Runs, w \in Worktrees : Enqueue(r, w)
    BY <2>1, EnqueueSubmits DEF Slots!Next
  <2>2. CASE Pump
    BY <2>2, PumpGrants DEF Slots!Next
  <2>3. CASE \E n \in Limits : SetLimit(n)
    BY <2>3, SetLimitSets DEF Slots!Next
  <2> QED
    BY <2>1, <2>2, <2>3, OtherStepsDrop DEF Slots!Next
<1> QED
  BY InitSlots, InvHolds, <1>1, PTL DEF Spec, ImplementsSlots, Slots!Spec

-----------------------------------------------------------------------------
(* The end of runs and of the queue. *)

\* What a pending finalization and a shutdown say of a run.
EndInv(r) ==
  /\ Closed /\ IsQueued(r) => fin[r] # "none"
  /\ fin[r] # "none" /\ r \notin active => store[r].phase \in Pending
  /\ fin[r] = "run" /\ run[r].phase = "passed" => run[r].certified
  /\ shut = "done" => r \notin active /\ fin[r] = "none"

LEMMA InitEnd == Init => \A r \in Runs : EndInv(r)
BY DEF Init, As, EndInv, IsQueued, Closed

LEMMA StepEnd ==
  ASSUME ~CancelsPreflight, IInv, \A r \in Runs : EndInv(r), [Next]_vars, NEW q \in Runs
  PROVE  EndInv(q)'
<1> USE DEF slots, child, setup, down, IsQueued, Closed, EndInv, Pending
<1>0. TypeOK /\ RunInv(q) /\ EndInv(q)
  BY DEF IInv
<1>a. \A ph : As(ph).phase = ph
  BY DEF As
<1>c. \A w : \A r \in Runs : Finalizing(r, w)[q] = IF r = q /\ fin[q] = "none" THEN w ELSE fin[q]
  BY <1>0 DEF Finalizing, TypeOK
<1>1. ASSUME NEW r \in Runs, NEW w \in Worktrees, Enqueue(r, w) PROVE EndInv(q)'
  BY <1>1, <1>0, <1>a DEF Enqueue, TypeOK, RunInv
<1>2. CASE Pump
  <2> PICK next \in SUBSET Heads :
        run' = [r \in Runs |-> IF r \in next THEN store[r] ELSE run[r]]
    BY <1>2 DEF Pump
  <2>1. q \in next => fin[q] = "none"
    BY DEF Heads, Eligible
  <2> QED
    BY <1>2, <1>0, <2>1 DEF Pump
<1>3. ASSUME NEW n \in Limits, SetLimit(n) PROVE EndInv(q)'
  BY <1>3, <1>0 DEF SetLimit
<1>4. ASSUME NEW r \in Runs, PreflightAbandoned(r) PROVE EndInv(q)'
  BY <1>4, <1>0 DEF PreflightAbandoned
<1>5. ASSUME NEW r \in Runs, PreflightRejected(r) PROVE EndInv(q)'
  BY <1>5, <1>0, <1>a, <1>c DEF PreflightRejected, Abandoned, TypeOK
<1>6. ASSUME NEW r \in Runs, PreflightThrew(r) PROVE EndInv(q)'
  BY <1>6, <1>0, <1>a, <1>c DEF PreflightThrew, TypeOK
<1>7. ASSUME NEW r \in Runs, Start(r) PROVE EndInv(q)'
  BY <1>7, <1>0, <1>a DEF Start, Abandoned, TypeOK, RunInv, Terminal
<1>8. ASSUME NEW r \in Runs, StartThrew(r) PROVE EndInv(q)'
  BY <1>8, <1>0, <1>a, <1>c DEF StartThrew, Abandoned, TypeOK
<1>9. ASSUME NEW r \in Runs, LeaderExit(r) \/ GroupGone(r) \/ SpawnError(r) \/ Timeout(r) PROVE EndInv(q)'
  BY <1>9, <1>0 DEF LeaderExit, GroupGone, SpawnError, Timeout
<1>10. ASSUME NEW r \in Runs, StopConfirmed(r) PROVE EndInv(q)'
  <2>1. r = q => fin[q] = "none"
    BY <1>10, <1>0 DEF StopConfirmed, RunInv
  <2>2. r # q => run'[q] = run[q]
    BY <1>10, <1>0 DEF StopConfirmed, TypeOK
  <2> QED
    BY <1>10, <1>0, <2>1, <2>2 DEF StopConfirmed
\* What is saved of an active run is not queued, before or after.
<1>11. ASSUME NEW r \in Runs, StopFailed(r) \/ LogFlush(r) PROVE EndInv(q)'
  <2>1. r \in active /\ run[r].phase \in Terminal \cup {"running"}
    BY <1>11 DEF IInv, RunInv, StopFailed, LogFlush
  <2> QED
    BY <1>11, <1>0, <2>1 DEF StopFailed, LogFlush, TypeOK, Terminal
<1>12. ASSUME NEW r \in Runs, NEW match \in BOOLEAN, SourceObserved(r, match) PROVE EndInv(q)'
  <2>1. r \in active
    BY <1>12 DEF IInv, RunInv, SourceObserved
  <2>2. r = q => (run'[q].phase = "passed" => run'[q].certified)
    BY <1>12, <1>0 DEF SourceObserved, TypeOK
  <2>3. r # q => run'[q] = run[q]
    BY <1>12, <1>0 DEF SourceObserved, TypeOK
  <2> QED
    BY <1>12, <1>0, <1>c, <2>1, <2>2, <2>3 DEF SourceObserved
<1>13. ASSUME NEW r \in Runs, NEW written \in BOOLEAN, FinishLog(r, written) PROVE EndInv(q)'
  <2>1. CASE r # q
    BY <1>13, <1>0, <2>1 DEF FinishLog, TypeOK
  <2>2. CASE r = q
    <3>1. fin'[q] = "none" /\ q \notin active' /\ shut' = shut
      BY <1>13, <1>0, <2>2 DEF FinishLog, TypeOK
    <3>2. store'[q].phase \in Terminal
      <4>1. CASE fin[q] = "copy"
        <5>1. store'[q] = As("cancelled")
          BY <1>13, <1>0, <1>a, <2>2, <4>1 DEF FinishLog, TypeOK
        <5> QED
          BY <5>1, <1>a DEF Terminal
      <4>2. CASE fin[q] # "copy"
        <5>1. fin[q] = "run" /\ run[q].phase \in Terminal
          BY <1>13, <1>0, <2>2, <4>2 DEF FinishLog, TypeOK, RunInv
        <5>2. store'[q] \in {run[q], [run[q] EXCEPT !.phase = "failed"]} /\ run[q] \in Image
          BY <1>13, <1>0, <2>2, <4>2 DEF FinishLog, TypeOK
        <5>3. [run[q] EXCEPT !.phase = "failed"].phase = "failed"
          BY <5>2, ImageFields DEF Terminal
        <5> QED
          BY <5>1, <5>2, <5>3 DEF Terminal
      <4> QED
        BY <4>1, <4>2
    <3> QED
      BY <3>1, <3>2, <2>2 DEF Terminal
  <2> QED
    BY <2>1, <2>2
<1>14. ASSUME NEW r \in Runs, CancelQueued(r) PROVE EndInv(q)'
  BY <1>14, <1>0, <1>c DEF CancelQueued
<1>15. ASSUME NEW r \in Runs, CancelRunning(r) PROVE EndInv(q)'
  BY <1>15, <1>0 DEF CancelRunning
<1>16. CASE ShutdownBegin
  <2>1. fin'[q] = IF IsQueued(q) /\ fin[q] = "none" THEN "copy" ELSE fin[q]
    BY <1>16, <1>0, <1>c DEF ShutdownBegin
  <2> QED
    BY <1>16, <1>0, <2>1 DEF ShutdownBegin
<1>17. CASE ShutdownRetry \/ ShutdownEnd
  BY <1>17, <1>0 DEF ShutdownRetry, ShutdownEnd
<1>18. CASE Crash
  <2>1. fin'[q] = "none" /\ shut' = "open" /\ active' = {}
    BY <1>18 DEF Crash
  <2> QED
    BY <2>1
<1>19. CASE UNCHANGED vars
  BY <1>19, <1>0 DEF vars
<1> QED
  BY <1>1, <1>2, <1>3, <1>4, <1>5, <1>6, <1>7, <1>8, <1>9, <1>10, <1>11, <1>12, <1>13, <1>14, <1>15,
     <1>16, <1>17, <1>18, <1>19 DEF Next

LEMMA EndHolds ==
  ASSUME ~CancelsPreflight
  PROVE  Spec => [](IInv /\ \A r \in Runs : EndInv(r))
<1>1. IInv /\ (\A r \in Runs : EndInv(r)) /\ [Next]_vars => \A r \in Runs : EndInv(r)'
  BY StepEnd
<1>2. IInv /\ (\A r \in Runs : EndInv(r)) /\ [Next]_vars => (\A r \in Runs : EndInv(r))'
  BY <1>1 DEF Runs
<1> QED
  BY InitEnd, <1>2, InvHolds, PTL DEF Spec

\* A shutdown that succeeds leaves no process and no pending row behind, if
\* nobody cancels a run during its preflight.
THEOREM NothingIsLeft ==
  ASSUME ~CancelsPreflight
  PROVE  Spec => []ShutdownLeavesNothing
<1>1. IInv /\ (\A r \in Runs : EndInv(r)) => ShutdownLeavesNothing
  BY DEF IInv, RunInv, EndInv, ShutdownLeavesNothing, Closed, IsQueued, Pending
<1> QED
  BY EndHolds, <1>1, PTL

LEMMA SettledStays ==
  ASSUME IInv, \A r \in Runs : EndInv(r), [Next]_vars, NEW q \in Runs, Settled(q)
  PROVE  store'[q] = store[q]
<1> USE DEF slots, child, setup, down, IsQueued
<1>1. /\ store[q].phase \in Terminal /\ q \notin active /\ comp[q] = "idle" /\ fin[q] = "none"
      /\ ~Live(q) /\ store \in [Runs -> Image]
  BY DEF Settled, IsTerminal, Terminal, Pending, EndInv, IInv, RunInv, TypeOK
<1>2. ASSUME NEW r \in Runs,
             \/ \E w \in Worktrees : Enqueue(r, w)
             \/ Start(r) \/ StartThrew(r) \/ StopFailed(r) \/ LogFlush(r)
             \/ \E written \in BOOLEAN : FinishLog(r, written)
      PROVE  store'[q] = store[q]
  BY <1>1, <1>2 DEF Enqueue, Start, StartThrew, StopFailed, LogFlush, FinishLog, Abandoned, Terminal
<1>3. CASE Crash
  BY <1>1, <1>3 DEF Crash, Terminal, Pending
<1>4. CASE store' = store
  BY <1>4
<1> QED
  BY <1>2, <1>3, <1>4 DEF Next, Pump, SetLimit, PreflightAbandoned, PreflightRejected, PreflightThrew,
     LeaderExit, GroupGone, SpawnError, Timeout, StopConfirmed, SourceObserved, CancelQueued,
     CancelRunning, ShutdownBegin, ShutdownRetry, ShutdownEnd, vars

\* Nothing revises the end of a run once its slot is given back, a crash
\* included, if nobody cancels a run during its preflight.
THEOREM EndsAreFinal ==
  ASSUME ~CancelsPreflight
  PROVE  Spec => SettledIsFinal
<1>1. IInv /\ (\A r \in Runs : EndInv(r)) /\ [Next]_vars
        => [\A r \in Runs : Settled(r) => store'[r] = store[r]]_vars
  BY SettledStays
<1> QED
  BY EndHolds, <1>1, PTL DEF Spec, SettledIsFinal

LEMMA StepCertified ==
  ASSUME MaxCrashes = 0, IInv, \A r \in Runs : EndInv(r), PassedIsCertified, [Next]_vars,
         NEW q \in Runs, Settled(q)', store'[q].phase = "passed"
  PROVE  store'[q].certified
<1> USE DEF slots, child, setup, down, IsQueued
<1>0. /\ store \in [Runs -> Image] /\ run \in [Runs -> Image] /\ active \subseteq Runs
      /\ fin \in [Runs -> {"none", "run", "copy"}]
  BY DEF IInv, TypeOK
<1>a. \A ph : As(ph).phase = ph
  BY DEF As
<1>1. Settled(q) => (store[q].phase = "passed" => store[q].certified)
  BY DEF PassedIsCertified
<1>2. CASE \E written \in BOOLEAN : FinishLog(q, written)
  <2>1. CASE fin[q] = "copy"
    <3>1. store'[q] = As("cancelled")
      BY <1>0, <1>2, <1>a, <2>1 DEF FinishLog
    <3> QED
      BY <3>1, <1>a
  <2>2. CASE fin[q] = "run"
    <3>1. store'[q] \in {run[q], [run[q] EXCEPT !.phase = "failed"]}
      BY <1>0, <1>2, <2>2 DEF FinishLog
    <3>2. [run[q] EXCEPT !.phase = "failed"].phase = "failed"
      BY <1>0, ImageFields DEF Terminal
    <3>3. store'[q] = run[q]
      BY <3>1, <3>2
    <3> QED
      BY <2>2, <3>3 DEF EndInv
  <2> QED
    BY <1>0, <1>2, <2>1, <2>2 DEF FinishLog
<1>3. CASE store'[q] = store[q] /\ active \subseteq active'
  BY <1>1, <1>3 DEF Settled, IsTerminal
<1>4. ASSUME NEW r \in Runs, NEW written \in BOOLEAN, FinishLog(r, written), r # q
      PROVE  store'[q] = store[q] /\ (q \in active => q \in active')
  BY <1>0, <1>4 DEF FinishLog
<1>5. ASSUME NEW r \in Runs, NEW w \in Worktrees, Enqueue(r, w)
      PROVE  store'[q].phase # "passed" \/ (store'[q] = store[q] /\ active' = active)
  BY <1>0, <1>5, <1>a DEF Enqueue
<1>6. ASSUME NEW r \in Runs, Start(r) \/ StartThrew(r)
      PROVE  store'[q].phase # "passed" \/ (store'[q] = store[q] /\ active \subseteq active')
  BY <1>0, <1>6, <1>a DEF Start, StartThrew
<1>7. ASSUME NEW r \in Runs, StopFailed(r) \/ LogFlush(r)
      PROVE  q \in active' \/ (store'[q] = store[q] /\ active' = active)
  <2>1. r \in active
    BY <1>7 DEF IInv, RunInv, StopFailed, LogFlush
  <2> QED
    BY <1>0, <1>7, <2>1 DEF StopFailed, LogFlush
<1>8. ~Crash
  BY DEF Crash, IInv, TypeOK
<1>9. CASE store' = store /\ active' = active
  BY <1>3, <1>9
<1> QED
  BY <1>1, <1>2, <1>3, <1>4, <1>5, <1>6, <1>7, <1>8, <1>9 DEF Settled, IsTerminal, Next, Pump, SetLimit,
     PreflightAbandoned, PreflightRejected, PreflightThrew,
     LeaderExit, GroupGone, SpawnError, Timeout, StopConfirmed, SourceObserved, CancelQueued,
     CancelRunning, ShutdownBegin, ShutdownRetry, ShutdownEnd, vars

\* A run that has ended as passed has the evidence of its three observations
\* (docs/architecture.md:103), while the controller does not crash and nobody
\* cancels a run during its preflight.
THEOREM PassedRunsAreCertified ==
  ASSUME ~CancelsPreflight, MaxCrashes = 0
  PROVE  Spec => []PassedIsCertified
<1>1. Init => PassedIsCertified
  BY DEF Init, As, PassedIsCertified
<1>2. IInv /\ (\A r \in Runs : EndInv(r)) /\ PassedIsCertified /\ [Next]_vars => PassedIsCertified'
  BY StepCertified DEF PassedIsCertified, Runs
<1> QED
  BY EndHolds, <1>1, <1>2, PTL DEF Spec

-----------------------------------------------------------------------------
(* Whom the pump serves. *)

LEMMA OnlyPumpPrepares ==
  ASSUME [Next]_vars, ~Pump
  PROVE  preparing' \subseteq preparing
BY DEF Next, Enqueue, SetLimit, PreflightAbandoned, PreflightRejected, PreflightThrew, Start, StartThrew,
       LeaderExit, GroupGone, SpawnError, Timeout, StopConfirmed, StopFailed, SourceObserved, LogFlush,
       FinishLog, CancelQueued, CancelRunning, ShutdownBegin, ShutdownRetry, ShutdownEnd, Crash, vars, slots

\* A younger run is taken before an older one only when the worktree of the
\* older is held, or goes to a run that is at least as old
\* (docs/architecture.md:90), whatever users cancel.
THEOREM OldestIsServed == Spec => OldestFirst
<1> DEFINE Fair == \A r \in preparing' \ preparing, q \in Eligible :
                     q < r => \E p \in active' \cup preparing' :
                                wt[p] = wt[q] /\ (p \in active \cup preparing \/ p <= q)
<1>1. [Next]_vars => [Fair]_vars
  <2> SUFFICES ASSUME [Next]_vars, NEW r \in preparing' \ preparing, NEW q \in Eligible, q < r
               PROVE  \E p \in active' \cup preparing' :
                        wt[p] = wt[q] /\ (p \in active \cup preparing \/ p <= q)
    OBVIOUS
  <2>1. Pump
    BY OnlyPumpPrepares
  <2>2. PICK next \in SUBSET Heads :
          /\ preparing' = preparing \cup next
          /\ Closed => next = {}
          /\ ~Closed => \A h \in next, o \in Heads \ next : h < o
    BY <2>1 DEF Pump
  <2>3. active' = active /\ r \in next
    BY <2>1, <2>2 DEF Pump
  <2>4. CASE wt[q] \in Occupied
    BY <2>2, <2>3, <2>4 DEF Occupied
  <2>5. CASE wt[q] \notin Occupied
    <3>1. PICK p \in Heads : wt[p] = wt[q] /\ p <= q
      BY <2>5, HeadExists
    <3>2. p \in Nat /\ q \in Nat /\ r \in Nat
      BY <2>3, QueueAssumption DEF Heads, Eligible, Runs
    <3>3. p \in next
      BY <2>2, <2>3, <3>1, <3>2
    <3> QED
      BY <2>2, <3>1, <3>3
  <2> QED
    BY <2>4, <2>5
<1> QED
  BY <1>1, PTL DEF Spec, OldestFirst

LEMMA SlotsAreFinite ==
  ASSUME TypeOK
  PROVE  /\ \A S \in SUBSET Runs : IsFiniteSet(S) /\ Cardinality(S) \in Nat
         /\ limit \in Nat
<1>1. IsFiniteSet(Runs)
  BY FS_Interval, QueueAssumption DEF Runs
<1> QED
  BY <1>1, FS_Subset, FS_CardinalityType, QueueAssumption DEF TypeOK

\* After the pump either nobody is left to be served, or no slot is.
LEMMA PumpServes ==
  ASSUME TypeOK, Pump, ~Closed
  PROVE  Heads' = {} \/ ~(FreeSlots > 0)'
<1>1. PICK next \in SUBSET Heads :
        /\ Cardinality(next) <= FreeSlots
        /\ next # Heads => Cardinality(next) = FreeSlots
        /\ preparing' = preparing \cup next
  BY DEF Pump
<1>2. /\ active' = active /\ store' = store /\ fin' = fin /\ wt' = wt /\ limit' = limit
      /\ Eligible' = Eligible
  BY DEF Pump, setup, Eligible, IsQueued
<1>3. next \subseteq Runs /\ preparing \subseteq Runs /\ active \subseteq Runs /\ next \cap preparing = {}
  BY DEF Heads, Eligible, Occupied, TypeOK
<1>4. CASE next = Heads
  <2> SUFFICES ASSUME NEW q \in Heads' PROVE FALSE
    OBVIOUS
  <2>1. q \in Eligible /\ wt[q] \notin Occupied /\ wt[q] \notin {wt[p] : p \in next}
    BY <1>1, <1>2 DEF Heads, Occupied
  <2> QED
    BY <1>4, <2>1, HeadExists
<1>5. CASE Cardinality(next) = FreeSlots
  <2>1. Cardinality(preparing') = Cardinality(preparing) + Cardinality(next)
    <3>1. Cardinality(preparing \cup next)
            = Cardinality(preparing) + Cardinality(next) - Cardinality(preparing \cap next)
      BY <1>3, SlotsAreFinite, FS_Union
    <3>2. Cardinality(preparing \cap next) = 0
      BY <1>3, FS_EmptySet
    <3>3. Cardinality(preparing) \in Nat /\ Cardinality(next) \in Nat
      BY <1>3, SlotsAreFinite
    <3> QED
      BY <1>1, <3>1, <3>2, <3>3
  <2> PICK a \in Nat, p \in Nat, n \in Nat, l \in Nat :
        a = Cardinality(active) /\ p = Cardinality(preparing) /\ n = Cardinality(next) /\ l = limit
    BY <1>3, SlotsAreFinite
  <2>2. FreeSlots = IF a + p < l THEN l - (a + p) ELSE 0
    BY DEF FreeSlots
  <2>3. Cardinality(active') + Cardinality(preparing') = a + (p + n) /\ limit' = l
    BY <1>2, <2>1
  <2>4. FreeSlots' = IF a + (p + n) < l THEN l - (a + (p + n)) ELSE 0
    BY <2>3 DEF FreeSlots
  <2>5. n = IF a + p < l THEN l - (a + p) ELSE 0
    BY <1>5, <2>2
  <2>6. ~(a + (p + n) < l)
    BY <2>5
  <2> QED
    BY <2>4, <2>6
<1> QED
  BY <1>1, <1>4, <1>5

LEMMA StepWakes ==
  ASSUME IInv, NoMissedWakeup, [Next]_vars, ~Closed', ~pumping', \A r \in Runs : fin'[r] = "none"
  PROVE  Heads' = {} \/ ~(FreeSlots > 0)'
<1> USE DEF slots, child, setup, down
<1>0. /\ TypeOK /\ fin \in [Runs -> {"none", "run", "copy"}]
      /\ store \in [Runs -> Image]
  BY DEF IInv, TypeOK
<1>a. \A ph : As(ph).phase = ph
  BY DEF As
<1>b. \A w : \A r \in Runs : w # "none" => Finalizing(r, w)[r] # "none"
  BY <1>0 DEF Finalizing
<1>1. CASE Pump
  <2>1. ~Closed
    BY <1>1 DEF Pump, Closed
  <2> QED
    BY <1>0, <1>1, <2>1, PumpServes
\* Nobody who could be served appears or is passed over by these steps.
<1>2. ASSUME ~Closed, ~pumping, UNCHANGED <<preparing, active, wt, limit>>, fin' = fin,
             \A r \in Runs : IsQueued(r)' <=> IsQueued(r)
      PROVE  Heads' = {} \/ ~(FreeSlots > 0)'
  <2>1. Eligible' = Eligible
    BY <1>2 DEF Eligible
  <2>2. Heads' = Heads /\ FreeSlots' = FreeSlots
    BY <1>2, <2>1 DEF Heads, Occupied, FreeSlots
  <2> QED
    BY <1>2, <2>2 DEF NoMissedWakeup
<1>3. ASSUME NEW r \in Runs,
             \/ LeaderExit(r) \/ GroupGone(r) \/ SpawnError(r) \/ Timeout(r)
             \/ StopConfirmed(r) \/ CancelRunning(r)
      PROVE  Heads' = {} \/ ~(FreeSlots > 0)'
  BY <1>2, <1>3 DEF LeaderExit, GroupGone, SpawnError, Timeout, StopConfirmed, CancelRunning, Closed, IsQueued
<1>4. ASSUME NEW r \in Runs, StopFailed(r) \/ LogFlush(r)
      PROVE  Heads' = {} \/ ~(FreeSlots > 0)'
  <2>1. /\ r \in active /\ run[r].phase \in Terminal \cup {"running"} /\ store[r].phase # "queued"
        /\ store' = [store EXCEPT ![r] = run[r]]
    BY <1>4 DEF IInv, RunInv, StopFailed, LogFlush, Early
  <2>2. \A q \in Runs : IsQueued(q)' <=> IsQueued(q)
    BY <1>0, <2>1 DEF IsQueued, Terminal
  <2> QED
    BY <1>2, <1>4, <2>2 DEF StopFailed, LogFlush, Closed
\* These schedule the pump, or leave a finalization that will.
<1>5. ASSUME NEW r \in Runs,
             \/ \E w \in Worktrees : Enqueue(r, w)
             \/ PreflightAbandoned(r) \/ Start(r) \/ StartThrew(r)
             \/ \E written \in BOOLEAN : FinishLog(r, written)
      PROVE  FALSE
  <2>1. SchedulePump /\ shut' = shut
    BY <1>5 DEF Enqueue, PreflightAbandoned, Start, StartThrew, FinishLog
  <2> QED
    BY <2>1 DEF SchedulePump, Closed
<1>6. ASSUME NEW n \in Limits, SetLimit(n) PROVE FALSE
  BY <1>6 DEF SetLimit, SchedulePump, Closed
<1>7. ASSUME NEW r \in Runs,
             \/ PreflightRejected(r) \/ PreflightThrew(r) \/ CancelQueued(r)
             \/ \E match \in BOOLEAN : SourceObserved(r, match)
      PROVE  FALSE
  <2>1. fin'[r] # "none"
    BY <1>7, <1>b DEF PreflightRejected, PreflightThrew, CancelQueued, SourceObserved
  <2> QED
    BY <2>1
<1>8. CASE ShutdownBegin \/ ShutdownRetry \/ ShutdownEnd
  BY <1>8 DEF ShutdownBegin, ShutdownRetry, ShutdownEnd, Closed
<1>9. CASE Crash
  <2>1. \A r \in Runs : store'[r].phase # "queued"
    <3> SUFFICES ASSUME NEW r \in Runs PROVE store'[r].phase # "queued"
      OBVIOUS
    <3>1. store'[r] = IF store[r].phase \in Pending THEN [store[r] EXCEPT !.phase = "interrupted"] ELSE store[r]
      BY <1>9 DEF Crash
    <3>2. [store[r] EXCEPT !.phase = "interrupted"].phase = "interrupted"
      BY <1>0, ImageFields DEF Terminal
    <3> QED
      BY <3>1, <3>2 DEF Pending
  <2> QED
    BY <2>1 DEF Heads, Eligible, IsQueued
<1>10. CASE UNCHANGED vars
  BY <1>2, <1>10 DEF vars, Closed, IsQueued
<1> QED
  BY <1>1, <1>3, <1>4, <1>5, <1>6, <1>7, <1>8, <1>9, <1>10 DEF Next

\* A run that could start has a pump coming, at once or when a finalization
\* ends, if nobody cancels a run during its preflight.
THEOREM NoWakeupIsLost ==
  ASSUME ~CancelsPreflight
  PROVE  Spec => []NoMissedWakeup
<1>1. Init => NoMissedWakeup
  <2> SUFFICES ASSUME Init PROVE Heads = {}
    BY DEF NoMissedWakeup
  <2> QED
    BY DEF Init, As, Heads, Eligible, IsQueued
<1>2. IInv /\ NoMissedWakeup /\ [Next]_vars => NoMissedWakeup'
  <2> SUFFICES ASSUME IInv, NoMissedWakeup, [Next]_vars PROVE NoMissedWakeup'
    OBVIOUS
  <2>1. ~Closed' /\ ~pumping' /\ (\A r \in Runs : fin'[r] = "none")
          => Heads' = {} \/ ~(FreeSlots > 0)'
    BY StepWakes
  <2> QED
    BY <2>1 DEF NoMissedWakeup, Runs
<1> QED
  BY InvHolds, <1>1, <1>2, PTL DEF Spec
=============================================================================
