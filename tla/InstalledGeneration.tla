------------------------ MODULE InstalledGeneration ------------------------
(***************************************************************************)
(* What a restore promises of an installation: it is one generation at a   *)
(* time, that is opened, written and closed; an operation replaces it as a *)
(* whole, once, and only while nobody has it open.                         *)
(***************************************************************************)
EXTENDS Naturals

CONSTANT NOps

VARIABLES
  generation,   \* the generation whoever opens the installation finds
  written,      \* whether it was written to since it was installed
  open,         \* whether a controller has it open
  replaced      \* the operations that have replaced it

vars == <<generation, written, open, replaced>>

Init == generation = 0 /\ ~written /\ ~open /\ replaced = {}

Open == ~open /\ open' = TRUE /\ UNCHANGED <<generation, written, replaced>>
Close == open /\ open' = FALSE /\ UNCHANGED <<generation, written, replaced>>
Write == open /\ open' = TRUE /\ written' = TRUE /\ UNCHANGED <<generation, replaced>>

Replace(o) ==
  /\ ~open /\ o \notin replaced
  /\ generation' = o
  /\ written' = FALSE
  /\ replaced' = replaced \cup {o}
  /\ UNCHANGED open

Next == Open \/ Close \/ Write \/ \E o \in 1 .. NOps : Replace(o)

Spec == Init /\ [][Next]_vars
=============================================================================
