--------------------------- MODULE TestQueueSlots ---------------------------
(***************************************************************************)
(* TestQueue keeps the promise of VerificationSlots.  A run holds its slot *)
(* while the manager counts it, in `preparing` or `active`, and is over    *)
(* from the moment its finalization is under way without a slot.           *)
(***************************************************************************)
EXTENDS TestQueue

StatusOf(r) ==
  IF store[r].phase = "absent" THEN "new"
  ELSE IF r \in active \cup preparing THEN "holding"
  ELSE IF IsTerminal(r) \/ fin[r] # "none" THEN "over"
  ELSE "waiting"

Slots == INSTANCE VerificationSlots
           WITH status <- [r \in Runs |-> StatusOf(r)], place <- wt

\* The queue implements the abstract slots (docs/architecture.md:90-102).
ImplementsSlots == Slots!Spec

-----------------------------------------------------------------------------
(* Why the properties hold while users do not cancel a run during its        *)
(* preflight: what the run's row, object, slot, process and pending awaits   *)
(* say of each other.                                                        *)

Early(r) == store[r].phase \in {"absent", "queued"}

RunInv(r) ==
  /\ r \in preparing => IsQueued(r) /\ ~Closed
  /\ r \in observing /\ ~Closed => r \in preparing /\ fin[r] = "none"
  /\ Early(r) => r \notin active
  /\ store[r].phase = "running" => r \in active \/ fin[r] = "run"
  /\ store[r].phase = "absent" => fin[r] = "none"
  /\ Live(r) => r \in active
  /\ r \in active => run[r].phase \in Terminal \cup {"running"}
  /\ run[r].phase = "running" => r \in active
  /\ comp[r] # "idle" => r \in active
  /\ comp[r] \in {"observing", "finishing"}
       => proc[r] = "gone" /\ run[r].phase \in Terminal
  /\ comp[r] = "finishing" => fin[r] = "run"
  /\ r \in active /\ fin[r] # "none" => comp[r] = "finishing"
  /\ fin[r] = "copy" => IsQueued(r)
  /\ fin[r] = "run" => run[r].phase \in Terminal
  /\ run[r].phase \in Terminal => ~Live(r)
  /\ IsTerminal(r) => ~Live(r)

SlotInv == \A r, q \in active \cup preparing : r # q => wt[r] # wt[q]

\* The inductive invariant of the queue: it implies WorktreeExclusion and
\* TerminalAfterExit (docs/architecture.md:91-93).
IInv == TypeOK /\ SlotInv /\ \A r \in Runs : RunInv(r)
=============================================================================
