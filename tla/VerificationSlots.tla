-------------------------- MODULE VerificationSlots --------------------------
(***************************************************************************)
(* What the verification queue promises to its users                       *)
(* (docs/architecture.md:90-102): a run waits, holds a slot together with  *)
(* its worktree, and is over; slots go to the oldest run whose worktree is *)
(* free, never above the limit; nothing that is over comes back.           *)
(***************************************************************************)
EXTENDS Naturals, FiniteSets

CONSTANTS Runs,       \* a set of numbers, in the order of arrival
          Worktrees,
          Limits

VARIABLES status, place, limit

slotVars == <<status, place, limit>>

InStatus(s) == {r \in Runs : status[r] = s}
Held(S)     == {place[r] : r \in S}

Init == /\ status = [r \in Runs |-> "new"]
        /\ place = [r \in Runs |-> "none"]
        /\ limit \in Limits

Submit(r, w) ==
  /\ status[r] = "new"
  /\ status' = [status EXCEPT ![r] = "waiting"]
  /\ place' = [place EXCEPT ![r] = w]
  /\ UNCHANGED limit

\* Some waiting runs get a slot each; one that is older than another may be
\* passed over only for its worktree, held or granted to a run at least as old.
Grant(S) ==
  LET holding == InStatus("holding")
  IN  /\ S \subseteq InStatus("waiting")
      /\ \A r \in S : place[r] \notin Held((holding \cup S) \ {r})
      /\ S # {} => Cardinality(holding) + Cardinality(S) <= limit
      /\ \A r \in S, q \in InStatus("waiting") :
           q < r => place[q] \in Held(holding \cup {p \in S : p <= q})
      /\ status' = [r \in Runs |-> IF r \in S THEN "holding" ELSE status[r]]
      /\ UNCHANGED <<place, limit>>

\* Some runs are over: rejected, cancelled, completed, or lost in a crash.
Drop(S) ==
  /\ S \subseteq InStatus("waiting") \cup InStatus("holding")
  /\ status' = [r \in Runs |-> IF r \in S THEN "over" ELSE status[r]]
  /\ UNCHANGED <<place, limit>>

SetLimit(n) == limit' = n /\ UNCHANGED <<status, place>>

Next ==
  \/ \E r \in Runs, w \in Worktrees : Submit(r, w)
  \/ \E S \in SUBSET Runs : Grant(S) \/ Drop(S)
  \/ \E n \in Limits : SetLimit(n)

Spec == Init /\ [][Next]_slotVars
=============================================================================
