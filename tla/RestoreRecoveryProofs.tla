------------------------ MODULE RestoreRecoveryProofs ------------------------
(* Proofs about the replacement itself: what the files and the journal are at *)
(* every step of the plan, through any crash and any power failure.           *)
EXTENDS RestoreHandoff, TLAPS

-----------------------------------------------------------------------------
(* The inductive invariant of one disk, visible or durable.                   *)

Unfinished(d) == d.journal.op # 0 /\ ~d.journal.verified
Replaced(d) == d.archived \cup (IF d.journal.verified THEN {d.journal.op} ELSE {})
Begun(d, o) == o \in d.archived \cup {d.journal.op}

(* Where every file is once the first n renames of a plan have been made. *)
Layout(j, n) ==
  [p \in Places |->
     IF p.dir = "previous" THEN IF p.target < n THEN j.previous[p.target] ELSE Absent
     ELSE IF p.dir = "new" THEN IF InstallStep(p.target) < n THEN Absent ELSE Copy(j.op)
     ELSE IF p.target >= n THEN j.previous[p.target]
     ELSE IF p.target \in {Database, Attachments} /\ InstallStep(p.target) < n THEN Copy(j.op)
     ELSE Absent]

(* The journal is at most one rename behind the files. *)
Made(j, n) == n \in 0 .. Last /\ (n = j.completed \/ (j.intent = j.completed /\ n = j.completed + 1))

(* What the installation amounts to: the files that were in use before an     *)
(* unfinished replacement, otherwise those in use.                            *)
Active(f) == [t \in Targets |-> f[At("active", t)]]
Base(d) == IF Unfinished(d) THEN d.journal.previous ELSE Active(d.file)

Whole(files) ==
  /\ files[Database] # Absent
  /\ \A t \in Targets : files[t] # Absent => files[t].gen = files[Database].gen
  /\ files[Database].gen # 0 => files[Attachments] # Absent

DiskInv(d) ==
  /\ DiskType(d)
  /\ d.journal.verified => d.journal.op # 0 /\ d.file[At("active", Database)].gen = d.journal.op
  /\ d.journal.op \notin d.archived
  /\ Whole(Base(d))
  /\ Base(d)[Database].gen \in {0} \cup Replaced(d)
  /\ Unfinished(d) => \E n \in Nat : Made(d.journal, n) /\ d.file = Layout(d.journal, n)

(* What a power failure undoes: nothing that counts, or the marker that ends  *)
(* a replacement.                                                             *)
PairInv ==
  \/ /\ Base(Disk) = Base(stable)
     /\ Replaced(Disk) = Replaced(stable)
     /\ Unfinished(stable) => Unfinished(Disk) /\ journal.op = stable.journal.op
  \/ /\ journal.verified /\ Unfinished(stable)
     /\ journal.op = stable.journal.op
     /\ archived = stable.archived
     /\ file[At("active", Database)] = Copy(journal.op)

(* What is durable is a disk like the visible one. *)
StableIsDisk == stable = [file |-> stable.file, journal |-> stable.journal, archived |-> stable.archived]

PlanPcs == {"intend", "intended", "move", "moved", "complete", "completed", "validate"}
SettledPcs == OpenPcs \cup {"owned", "prepare", "archived", "publish"}

(* Where the process is tells how far the plan is. *)
PcInv ==
  /\ pc \in RecoveryPcs \cup HandoffPcs
  /\ pc \in PlanPcs => Unfinished(Disk) /\ Unfinished(stable)
  /\ pc = "published" => Unfinished(Disk)
  /\ pc \in PlanPcs \ {"completed", "validate"} => journal.completed < Last
  /\ pc = "validate" => journal.completed = Last
  /\ pc \in {"intended", "move", "moved", "complete"} => journal.intent = journal.completed
  /\ pc \in {"moved", "complete"} => file = Layout(journal, journal.completed + 1)
  /\ pc = "completed" => file = Layout(journal, journal.completed)
  /\ pc = "verifying" => journal.verified
  /\ pc \in SettledPcs => ~Unfinished(Disk) /\ ~Unfinished(stable)
  /\ pc \in {"archived", "publish"} => journal.op = 0
  /\ pc \in OpenPcs => stable.file = file

-----------------------------------------------------------------------------
(* Facts about places, copies and layouts.                                    *)

LEMMA PlaceFacts ==
  /\ \A t \in Targets : /\ At("active", t) \in Places
                        /\ At("active", t).dir = "active" /\ At("active", t).target = t
                        /\ At("previous", t) \in Places
                        /\ At("previous", t).dir = "previous" /\ At("previous", t).target = t
  /\ \A t \in {Database, Attachments} :
                        /\ At("new", t) \in Places
                        /\ At("new", t).dir = "new" /\ At("new", t).target = t
  /\ \A p \in Places : \/ \E t \in Targets : p = At("active", t) \/ p = At("previous", t)
                       \/ \E t \in {Database, Attachments} : p = At("new", t)
  /\ Database \in Targets /\ Attachments \in Targets
BY DEF At, Places, Targets, Database, Attachments

LEMMA CopyFacts ==
  ASSUME NEW o \in Gens
  PROVE  /\ Copy(o) \in Contents /\ Copy(o).gen = o /\ Copy(o) # Absent
         /\ [gen |-> o, written |-> TRUE] \in Contents
         /\ [gen |-> o, written |-> TRUE].gen = o
         /\ [gen |-> o, written |-> TRUE] # Absent
         /\ Absent \in Contents
<1>1. \A w \in BOOLEAN : [gen |-> o, written |-> w] \in Copies
  BY DEF Copies
<1> QED
  BY <1>1, AbsentAssumption DEF Copy, Contents

LEMMA ContentFacts ==
  ASSUME NEW c \in Contents, c # Absent
  PROVE  c.gen \in Gens /\ c.written \in BOOLEAN
BY DEF Contents, Copies

LEMMA JournalFacts ==
  ASSUME NEW j \in Journals
  PROVE  /\ j.op \in Gens /\ j.completed \in 0 .. Last /\ j.intent \in 0 .. NoStep
         /\ j.verified \in BOOLEAN /\ j.previous \in [Targets -> Contents]
BY DEF Journals, Gens

LEMMA LayoutType ==
  ASSUME NEW j \in Journals, NEW n \in Nat
  PROVE  Layout(j, n) \in [Places -> Contents]
<1> SUFFICES ASSUME NEW p \in Places PROVE Layout(j, n)[p] \in Contents
  BY DEF Layout
<1>1. \A t \in Targets : j.previous[t] \in Contents
  BY JournalFacts
<1>2. p.target \in Targets
  BY PlaceFacts
<1>3. Copy(j.op) \in Contents /\ Absent \in Contents
  BY JournalFacts, CopyFacts
<1> QED
  BY <1>1, <1>2, <1>3 DEF Layout

\* What is where, one kind of place at a time.
LEMMA LayoutAt ==
  ASSUME NEW j, NEW n \in Nat
  PROVE  /\ \A t \in Targets :
              /\ Layout(j, n)[At("previous", t)] = IF t < n THEN j.previous[t] ELSE Absent
              /\ t \in Sidecars => Layout(j, n)[At("active", t)]
                                     = IF t >= n THEN j.previous[t] ELSE Absent
         /\ \A t \in {Database, Attachments} :
              /\ Layout(j, n)[At("new", t)] = IF InstallStep(t) < n THEN Absent ELSE Copy(j.op)
              /\ Layout(j, n)[At("active", t)]
                   = IF t >= n THEN j.previous[t]
                     ELSE IF InstallStep(t) < n THEN Copy(j.op) ELSE Absent
<1> DEFINE f == Layout(j, n)
<1>1. \A t \in Targets : f[At("previous", t)] = IF t < n THEN j.previous[t] ELSE Absent
  BY PlaceFacts DEF Layout
<1>2. \A t \in {Database, Attachments} :
        f[At("new", t)] = IF InstallStep(t) < n THEN Absent ELSE Copy(j.op)
  BY PlaceFacts DEF Layout
<1>3. \A t \in {Database, Attachments} :
        f[At("active", t)] = IF t >= n THEN j.previous[t]
                             ELSE IF InstallStep(t) < n THEN Copy(j.op) ELSE Absent
  BY PlaceFacts DEF Layout
<1>4. \A t \in Sidecars : t \in Targets /\ t \notin {Database, Attachments}
  BY DEF Sidecars, Targets, Database, Attachments
<1>5. \A t \in Sidecars : f[At("active", t)] = IF t >= n THEN j.previous[t] ELSE Absent
  BY <1>4, PlaceFacts DEF Layout
<1> QED
  BY <1>1, <1>2, <1>3, <1>5

\* Two assignments of contents to places that agree everywhere are the same.
LEMMA SameFiles ==
  ASSUME NEW f, f = [p \in Places |-> f[p]], NEW g, g = [p \in Places |-> g[p]],
         \A t \in Targets : f[At("active", t)] = g[At("active", t)]
                            /\ f[At("previous", t)] = g[At("previous", t)],
         \A t \in {Database, Attachments} : f[At("new", t)] = g[At("new", t)]
  PROVE  f = g
<1>1. \A p \in Places : f[p] = g[p]
  BY PlaceFacts
<1> QED
  BY <1>1

LEMMA LayoutSame ==
  ASSUME NEW j, NEW k, j.op = k.op, j.previous = k.previous, NEW n
  PROVE  Layout(j, n) = Layout(k, n)
BY DEF Layout

LEMMA DiskFields ==
  /\ Disk.file = file /\ Disk.journal = journal /\ Disk.archived = archived
  /\ Disk'.file = file' /\ Disk'.journal = journal' /\ Disk'.archived = archived'
BY DEF Disk

\* One rename more: where the source is empty it changes nothing.
LEMMA LayoutNext ==
  ASSUME NEW j \in Journals, NEW s \in Steps, NEW f \in [Places -> Contents],
         f = Layout(j, s),
         NEW identity, identity = IF s \in Targets THEN j.previous[s] ELSE Copy(j.op)
  PROVE  /\ f[From(s)] = identity /\ f[To(s)] = Absent
         /\ From(s) \in Places /\ To(s) \in Places /\ From(s) # To(s)
         /\ identity # Absent =>
              [f EXCEPT ![To(s)] = f[From(s)], ![From(s)] = Absent] = Layout(j, s + 1)
         /\ identity = Absent => f = Layout(j, s + 1)
<1> DEFINE g == [f EXCEPT ![To(s)] = f[From(s)], ![From(s)] = Absent]
           h == Layout(j, s + 1)
<1>n. s \in Nat /\ s + 1 \in Nat
  BY DEF Steps
<1>h. h \in [Places -> Contents]
  BY <1>n, LayoutType
<1>c. Copy(j.op) # Absent
  BY JournalFacts, CopyFacts
<1>g. ASSUME From(s) \in Places, To(s) \in Places
      PROVE  \A p \in Places : g[p] = IF p = From(s) THEN Absent
                                     ELSE IF p = To(s) THEN f[From(s)] ELSE f[p]
  BY <1>g
<1>d. /\ \A t, u \in Targets :
           /\ At("active", t) # At("previous", u)
           /\ t # u => At("active", t) # At("active", u)
           /\ t # u => At("previous", t) # At("previous", u)
      /\ \A t \in Targets, u \in {Database, Attachments} :
           At("active", t) # At("new", u) /\ At("previous", t) # At("new", u)
      /\ \A t, u \in {Database, Attachments} : t # u => At("new", t) # At("new", u)
  BY DEF At
<1>e. f = [p \in Places |-> f[p]] /\ g = [p \in Places |-> g[p]] /\ h = [p \in Places |-> h[p]]
  BY <1>h
<1>1. CASE s \in Targets
  <2>1. /\ From(s) = At("active", s) /\ To(s) = At("previous", s)
        /\ From(s) \in Places /\ To(s) \in Places
        /\ identity = j.previous[s]
    BY <1>1, PlaceFacts DEF From, To
  <2>2. From(s) # To(s)
    BY <2>1 DEF At
  <2>3. s < 6
    BY <1>1 DEF Targets
  <2>4. \A t \in {Database, Attachments} : InstallStep(t) \in {6, 7}
    BY DEF InstallStep
  <2>5. f[From(s)] = identity /\ f[To(s)] = Absent
    <3>1. s \in Sidecars \/ s \in {Database, Attachments}
      BY <1>1 DEF Targets, Sidecars, Database, Attachments
    <3> QED
      BY <1>1, <1>n, <2>1, <3>1, LayoutAt
  <2>6. \A t \in Targets :
          /\ t # s => f[At("active", t)] = h[At("active", t)]
                      /\ f[At("previous", t)] = h[At("previous", t)]
          /\ h[At("active", s)] = Absent
          /\ h[At("previous", s)] = identity
    <3> TAKE t \in Targets
    <3>1. t \in Sidecars \/ t \in {Database, Attachments}
      BY DEF Targets, Sidecars, Database, Attachments
    <3>2. s \in Sidecars \/ s \in {Database, Attachments}
      BY <1>1 DEF Targets, Sidecars, Database, Attachments
    <3>3. t \in Nat
      BY DEF Targets
    <3>4. h[At("active", s)] = Absent
      <4>1. CASE s \in Sidecars
        BY <4>1, <1>1, <1>n, LayoutAt
      <4>2. CASE s \in {Database, Attachments}
        BY <4>2, <1>1, <1>n, <2>3, <2>4, LayoutAt
      <4> QED BY <3>2, <4>1, <4>2
    <3>5. h[At("previous", s)] = identity
      BY <1>1, <1>n, <2>1, LayoutAt
    <3>6. t # s => f[At("previous", t)] = h[At("previous", t)]
      BY <1>n, <3>3, LayoutAt
    <3>7. t # s => f[At("active", t)] = h[At("active", t)]
      <4>1. CASE t \in Sidecars
        BY <4>1, <1>n, <3>3, LayoutAt
      <4>2. CASE t \in {Database, Attachments}
        BY <4>2, <1>n, <2>3, <2>4, <3>3, LayoutAt
      <4> QED BY <3>1, <4>1, <4>2
    <3> QED
      BY <3>4, <3>5, <3>6, <3>7
  <2>7. \A t \in {Database, Attachments} : f[At("new", t)] = h[At("new", t)]
    BY <1>n, <2>3, <2>4, LayoutAt
  <2>8. identity = Absent => f = h
    <3> SUFFICES ASSUME identity = Absent PROVE f = h
      OBVIOUS
    <3>1. \A t \in Targets : f[At("active", t)] = h[At("active", t)]
                             /\ f[At("previous", t)] = h[At("previous", t)]
      BY <1>1, <2>1, <2>5, <2>6
    <3> HIDE DEF g, h
    <3> QED
      BY <1>e, <2>7, <3>1, SameFiles
  <2>9. g = h
    <3>g. \A p \in Places : g[p] = IF p = At("active", s) THEN Absent
                                  ELSE IF p = At("previous", s) THEN identity ELSE f[p]
      BY <1>g, <2>1, <2>5
    <3>1. \A t \in Targets : g[At("active", t)] = h[At("active", t)]
                             /\ g[At("previous", t)] = h[At("previous", t)]
      <4> HIDE DEF g, h
      <4> TAKE t \in Targets
      <4>1. At("active", t) \in Places /\ At("previous", t) \in Places
        BY PlaceFacts
      <4>2. CASE t = s
        BY <1>1, <1>d, <2>6, <3>g, <4>1, <4>2
      <4>3. CASE t # s
        BY <1>1, <1>d, <2>6, <3>g, <4>1, <4>3
      <4> QED BY <4>2, <4>3
    <3>2. \A t \in {Database, Attachments} : g[At("new", t)] = h[At("new", t)]
      BY <1>1, <1>d, <1>g, <2>1, <2>7, PlaceFacts
    <3> HIDE DEF g, h
    <3> QED
      BY <1>e, <3>1, <3>2, SameFiles
  <2> QED
    BY <2>1, <2>2, <2>5, <2>8, <2>9
<1>2. CASE s \notin Targets
  <2> DEFINE a == Installs(s)
  <2>0. /\ a \in {Database, Attachments} /\ InstallStep(a) = s /\ s \in {6, 7}
        /\ \A t \in {Database, Attachments} : t # a => (InstallStep(t) < s <=> InstallStep(t) < s + 1)
        /\ \A t \in Targets : t \in Nat /\ t < s
    BY <1>2 DEF Installs, InstallStep, Steps, Targets, Database, Attachments
  <2> HIDE DEF a
  <2>1. /\ From(s) = At("new", a) /\ To(s) = At("active", a)
        /\ From(s) \in Places /\ To(s) \in Places /\ From(s) # To(s)
        /\ identity = Copy(j.op) /\ a \in Targets
    BY <1>2, <2>0, PlaceFacts DEF From, To, a, At
  <2>2. f[From(s)] = identity /\ f[To(s)] = Absent
    BY <1>n, <2>0, <2>1, LayoutAt
  <2>3. h[At("new", a)] = Absent /\ h[At("active", a)] = identity
    BY <1>n, <2>0, <2>1, LayoutAt
  <2>4. \A t \in {Database, Attachments} :
          t # a => f[At("new", t)] = h[At("new", t)] /\ f[At("active", t)] = h[At("active", t)]
    <3> TAKE t \in {Database, Attachments}
    <3>1. t \in Targets
      BY PlaceFacts
    <3> QED
      BY <1>n, <2>0, <3>1, LayoutAt
  <2>5. \A t \in Targets : f[At("previous", t)] = h[At("previous", t)]
    BY <1>n, <2>0, LayoutAt
  <2>6. \A t \in Sidecars : t \in Targets /\ f[At("active", t)] = h[At("active", t)]
    <3> TAKE t \in Sidecars
    <3>1. t \in Targets
      BY DEF Targets, Sidecars
    <3> QED
      BY <1>n, <2>0, <3>1, LayoutAt
  <2>7. \A t \in Targets : t \in Sidecars \/ t \in {Database, Attachments}
    BY DEF Targets, Sidecars, Database, Attachments
  <2>8. g = h
    <3>1. \A t \in Targets : g[At("active", t)] = h[At("active", t)]
                             /\ g[At("previous", t)] = h[At("previous", t)]
      <4> HIDE DEF g, h
      <4> TAKE t \in Targets
      <4>1. At("active", t) \in Places /\ At("previous", t) \in Places
        BY PlaceFacts
      <4>2. At("previous", t) # At("new", a) /\ At("previous", t) # At("active", a)
            /\ (t # a => At("active", t) # At("active", a)) /\ At("active", t) # At("new", a)
        BY DEF At
      <4>3. g[At("previous", t)] = h[At("previous", t)]
        BY <1>g, <2>1, <2>5, <4>1, <4>2
      <4>4. CASE t = a
        <5>1. g[At("active", a)] = identity
          BY <1>d, <1>g, <2>0, <2>1, <2>2
        <5> QED BY <2>3, <4>3, <4>4, <5>1
      <4>5. CASE t # a
        <5>1. g[At("active", t)] = f[At("active", t)]
          BY <1>g, <2>1, <4>1, <4>2, <4>5
        <5> QED BY <2>4, <2>6, <2>7, <4>3, <4>5, <5>1
      <4> QED BY <4>4, <4>5
    <3>2. \A t \in {Database, Attachments} : g[At("new", t)] = h[At("new", t)]
      BY <1>d, <1>g, <2>0, <2>1, <2>3, <2>4, PlaceFacts
    <3> HIDE DEF g, h
    <3> QED
      BY <1>e, <3>1, <3>2, SameFiles
  <2> QED
    BY <1>c, <2>1, <2>2, <2>8
<1> QED
  BY <1>1, <1>2

-----------------------------------------------------------------------------
(* The disk, one step at a time.                                              *)

(* Two disks that count the same for what is recorded of operations. *)
Alike(d, e) ==
  /\ e.journal.op = d.journal.op /\ e.journal.verified = d.journal.verified
  /\ e.archived = d.archived
  /\ Base(e)[Database].gen = Base(d)[Database].gen

Disks == {Disk, stable}
Quiet == \A e \in {Disk', stable'} : \E d \in Disks : Alike(d, e)

DisksInv == DiskInv(Disk) /\ DiskInv(stable) /\ PairInv /\ StableIsDisk
RecoveryInv == DisksInv /\ PcInv

LEMMA AlikeSelf == \A d : Alike(d, d)
BY DEF Alike

\* A step of an unfinished plan amends the journal and the files alone.
LEMMA Amended ==
  ASSUME NEW d, DiskInv(d), Unfinished(d), NEW e, DiskType(e), NEW n \in Nat,
         e.archived = d.archived, e.journal.op = d.journal.op,
         e.journal.verified = d.journal.verified, e.journal.previous = d.journal.previous,
         Made(e.journal, n), e.file = Layout(d.journal, n)
  PROVE  DiskInv(e) /\ Unfinished(e) /\ Alike(d, e) /\ Base(e) = Base(d) /\ Replaced(e) = Replaced(d)
<1>1. Unfinished(e) /\ Base(e) = Base(d) /\ Replaced(e) = Replaced(d)
  BY DEF Unfinished, Base, Replaced
<1>2. Layout(d.journal, n) = Layout(e.journal, n)
  BY LayoutSame
<1>3. DiskInv(e)
  BY <1>1, <1>2 DEF DiskInv, Unfinished
<1> QED
  BY <1>1, <1>3 DEF Alike

LEMMA Progress ==
  ASSUME DisksInv, Unfinished(Disk), NEW n \in Nat,
         journal' \in Journals, journal'.op = journal.op, journal'.verified = journal.verified,
         journal'.previous = journal.previous, Made(journal', n),
         file' = Layout(journal, n), archived' = archived, stable' = stable
  PROVE  DisksInv' /\ Unfinished(Disk)' /\ Quiet /\ Unfinished(stable)' = Unfinished(stable)
<1> USE DiskFields
<1>1. DiskType(Disk)'
  BY LayoutType DEF DisksInv, DiskInv, DiskType
<1>2. /\ DiskInv(Disk)' /\ Unfinished(Disk)' /\ Alike(Disk, Disk')
      /\ Base(Disk') = Base(Disk) /\ Replaced(Disk') = Replaced(Disk)
  <2> DEFINE d == Disk
             e == Disk'
  <2>1. /\ DiskInv(d) /\ Unfinished(d) /\ DiskType(e) /\ e.archived = d.archived
        /\ e.journal.op = d.journal.op /\ e.journal.verified = d.journal.verified
        /\ e.journal.previous = d.journal.previous
        /\ Made(e.journal, n) /\ e.file = Layout(d.journal, n)
    BY <1>1 DEF DisksInv, Made
  <2> HIDE DEF d, e
  <2>2. DiskInv(e) /\ Unfinished(e) /\ Alike(d, e) /\ Base(e) = Base(d) /\ Replaced(e) = Replaced(d)
    BY <2>1, Amended
  <2> QED
    BY <2>2 DEF d, e
<1>3. DiskInv(stable)'
  BY DEF DisksInv
<1>4. PairInv'
  BY <1>2 DEF DisksInv, PairInv, Unfinished
<1>5. Quiet
  BY <1>2, AlikeSelf DEF Quiet, Disks
<1>6. StableIsDisk'
  BY DEF DisksInv, StableIsDisk
<1> QED
  BY <1>2, <1>3, <1>4, <1>5, <1>6 DEF DisksInv

\* Synchronising the directories makes durable what is visible.
LEMMA Synced ==
  ASSUME DisksInv, UNCHANGED <<file, journal, archived>>, stable' = stable \/ Sync
  PROVE  /\ DisksInv' /\ Quiet /\ Disk' = Disk
         /\ Base(Disk)' = Base(Disk) /\ Unfinished(Disk)' = Unfinished(Disk)
<1>1. Disk' = Disk
  BY DEF Disk
<1>2. stable' \in {Disk, stable}
  BY DEF Sync
<1>3. DiskInv(Disk)' /\ DiskInv(stable)'
  BY <1>1, <1>2 DEF DisksInv
<1>4. PairInv'
  <2>1. CASE stable' = stable
    BY <1>1, <2>1 DEF DisksInv, PairInv
  <2>2. CASE stable' = Disk
    BY <1>1, <2>2, DiskFields DEF PairInv
  <2> QED BY <1>2, <2>1, <2>2
<1>5. Quiet
  BY <1>1, <1>2, AlikeSelf DEF Quiet, Disks
<1>6. StableIsDisk'
  BY <1>2 DEF DisksInv, StableIsDisk, Disk
<1> QED
  BY <1>1, <1>3, <1>4, <1>5, <1>6 DEF DisksInv

\* What a journal without an unfinished plan says of the durable one.
LEMMA NothingPending ==
  ASSUME DisksInv, journal.op = 0 PROVE ~Unfinished(Disk) /\ ~Unfinished(stable)
BY DiskFields DEF DisksInv, DiskInv, PairInv, Unfinished

LEMMA SetFacts ==
  ASSUME RecoveryInv
  PROVE  /\ file \in [Places -> Contents] /\ journal \in Journals /\ archived \in SUBSET Ops
         /\ journal.completed \in 0 .. 8 /\ journal.op \in Gens
         /\ journal.verified \in BOOLEAN
         /\ journal.previous \in [Targets -> Contents]
BY DiskFields, JournalFacts DEF RecoveryInv, DisksInv, DiskInv, DiskType, Last

\* Where the rename that is due takes the files.
LEMMA DuePlan ==
  ASSUME RecoveryInv, Unfinished(Disk)
  PROVE  \E n \in Nat : Made(journal, n) /\ file = Layout(journal, n)
BY DiskFields DEF RecoveryInv, DisksInv, DiskInv

LEMMA CheckJournalKeeps ==
  ASSUME RecoveryInv, CheckJournal PROVE RecoveryInv' /\ Quiet
<1>1. DisksInv' /\ Quiet /\ Disk' = Disk /\ Unfinished(Disk)' = Unfinished(Disk)
  BY Synced DEF CheckJournal, RecoveryInv
<1>2. PcInv'
  <2>1. CASE journal.op = 0 /\ pc' = "owned" /\ stable' = stable
    <3>1. ~Unfinished(Disk) /\ ~Unfinished(stable)
      BY <2>1, NothingPending DEF RecoveryInv
    <3> QED
      BY <1>1, <2>1, <3>1 DEF PcInv, PlanPcs, SettledPcs, OpenPcs, RecoveryPcs
  <2>2. CASE journal.verified /\ Sync /\ pc' = "owned"
    <3>1. ~Unfinished(Disk) /\ stable' = Disk
      BY <2>2, DiskFields DEF Unfinished, Sync
    <3> QED
      BY <1>1, <2>2, <3>1 DEF PcInv, PlanPcs, SettledPcs, OpenPcs, RecoveryPcs
  <2>3. CASE journal.op # 0 /\ ~journal.verified /\ pc' \in {NextTurn, "stopped"}
    <3>1. Unfinished(Disk)' /\ Unfinished(stable)'
      <4>1. stable' = Disk
        BY <2>3 DEF CheckJournal, Sync
      <4> QED
        BY <1>1, <2>3, <4>1, DiskFields DEF Unfinished
    <3>2. /\ pc' \in {"intend", "validate", "stopped"}
          /\ pc' = "intend" => journal.completed # Last
          /\ pc' = "validate" => journal.completed = Last
      BY <2>3 DEF NextTurn
    <3>3. journal' = journal
      BY DEF CheckJournal
    <3> QED
      BY <3>1, <3>2, <3>3, SetFacts
      DEF PcInv, PlanPcs, SettledPcs, OpenPcs, RecoveryPcs, Last
  <2> QED
    BY <2>1, <2>2, <2>3 DEF CheckJournal
<1> QED
  BY <1>1, <1>2 DEF RecoveryInv

LEMMA IntendKeeps ==
  ASSUME RecoveryInv, Intend PROVE RecoveryInv' /\ Quiet
<1> USE DiskFields
<1>1. Unfinished(Disk) /\ Unfinished(stable) /\ journal.completed < Last
  BY DEF RecoveryInv, PcInv, Intend, PlanPcs
<1>2. PICK n \in Nat : Made(journal, n) /\ file = Layout(journal, n)
  BY <1>1, DuePlan
<1>3. /\ journal' \in Journals /\ journal'.op = journal.op /\ journal'.verified = journal.verified
      /\ journal'.previous = journal.previous
      /\ journal'.completed = journal.completed /\ journal'.intent = journal.completed
  <2>1. journal \in Journals
    BY SetFacts
  <2>2. journal' = [journal EXCEPT !.intent = journal.completed]
    BY DEF Intend
  <2> QED
    BY <2>1, <2>2 DEF Journals, Last, NoStep
<1>4. Made(journal', n)
  BY <1>2, <1>3 DEF Made
<1>5. DisksInv' /\ Unfinished(Disk)' /\ Quiet /\ Unfinished(stable)'
  BY <1>1, <1>2, <1>3, <1>4, Progress DEF RecoveryInv, Intend
<1>6. PcInv'
  BY <1>1, <1>3, <1>5 DEF PcInv, Intend, PlanPcs, SettledPcs, OpenPcs, RecoveryPcs
<1> QED
  BY <1>5, <1>6 DEF RecoveryInv

\* The source of the rename that is due is in place, or it has been made.
LEMMA MoveKeeps ==
  ASSUME RecoveryInv, Move PROVE RecoveryInv' /\ Quiet /\ pc' = "moved"
<1> USE DiskFields
<1> DEFINE s == journal.completed
<1>1. Unfinished(Disk) /\ Unfinished(stable) /\ s < Last /\ journal.intent = s
  BY DEF RecoveryInv, PcInv, Move, PlanPcs
<1>2. PICK n \in Nat : Made(journal, n) /\ file = Layout(journal, n)
  BY <1>1, DuePlan
<1>3. s \in Steps /\ s + 1 \in Nat /\ (n = s \/ n = s + 1) /\ s + 1 \in 0 .. Last
  BY <1>1, <1>2, SetFacts DEF Made, Steps, Last
<1>4. Identity(s) = IF s \in Targets THEN journal.previous[s] ELSE Copy(journal.op)
  BY DEF Identity
<1>5. pc' = "moved" /\ file' = Layout(journal, s + 1)
  <2>1. CASE n = s
    <3>1. /\ file[From(s)] = Identity(s) /\ file[To(s)] = Absent
          /\ Identity(s) # Absent =>
               [file EXCEPT ![To(s)] = file[From(s)], ![From(s)] = Absent] = Layout(journal, s + 1)
          /\ Identity(s) = Absent => file = Layout(journal, s + 1)
      BY <1>2, <1>3, <1>4, <2>1, LayoutNext, SetFacts
    <3> HIDE DEF s
    <3>2. CASE Identity(s) = Absent
      BY <3>1, <3>2 DEF Move, s
    <3>3. CASE Identity(s) # Absent
      BY <3>1, <3>3 DEF Move, s
    <3> QED BY <3>2, <3>3
  <2>2. CASE n = s + 1
    <3>1. file[From(s)] = Absent
      <4>1. CASE s \in Targets
        <5>1. From(s) = At("active", s) /\ s < s + 1 /\ s < 6
          BY <1>3, <4>1 DEF From, Targets
        <5>2. s \in Sidecars \/ (s \in {Database, Attachments} /\ ~(InstallStep(s) < s + 1))
          BY <4>1, <5>1 DEF Targets, Sidecars, Database, Attachments, InstallStep
        <5>3. s \in Nat /\ ~(s >= n)
          BY <1>3, <2>2 DEF Steps
        <5> HIDE DEF s
        <5>4. CASE s \in Sidecars
          BY <1>2, <4>1, <5>1, <5>3, <5>4, LayoutAt
        <5>5. CASE s \in {Database, Attachments} /\ ~(InstallStep(s) < n)
          BY <1>2, <4>1, <5>1, <5>3, <5>5, LayoutAt
        <5> QED
          BY <2>2, <5>2, <5>4, <5>5
      <4>2. CASE s \notin Targets
        <5>1. From(s) = At("new", Installs(s)) /\ Installs(s) \in {Database, Attachments}
              /\ InstallStep(Installs(s)) < s + 1
          BY <1>3, <4>2 DEF From, Targets, Installs, InstallStep, Steps, Database, Attachments
        <5> QED
          BY <1>2, <1>3, <2>2, <5>1, LayoutAt
      <4> QED BY <4>1, <4>2
    <3> QED
      BY <1>2, <2>2, <3>1 DEF Move
  <2> QED BY <1>3, <2>1, <2>2
<1>6. Made(journal', s + 1) /\ journal' = journal
  BY <1>1, <1>3 DEF Made, Move
<1>7. DisksInv' /\ Unfinished(Disk)' /\ Quiet /\ Unfinished(stable)'
  BY <1>1, <1>3, <1>5, <1>6, SetFacts, Progress DEF RecoveryInv, Move
<1>8. PcInv'
  BY <1>1, <1>5, <1>6, <1>7 DEF PcInv, PlanPcs, SettledPcs, OpenPcs, RecoveryPcs
<1> QED
  BY <1>5, <1>7, <1>8 DEF RecoveryInv

LEMMA CompleteKeeps ==
  ASSUME RecoveryInv, Complete PROVE RecoveryInv' /\ Quiet
<1> USE DiskFields
<1> DEFINE n == journal.completed + 1
<1>1. Unfinished(Disk) /\ Unfinished(stable) /\ journal.completed < Last /\ file = Layout(journal, n)
  BY DEF RecoveryInv, PcInv, Complete, PlanPcs
<1>2. /\ journal' \in Journals /\ journal'.op = journal.op /\ journal'.verified = journal.verified
      /\ journal'.previous = journal.previous /\ journal'.completed = n
      /\ n \in 0 .. Last /\ n \in Nat
  <2>1. journal \in Journals /\ n \in 0 .. Last /\ n \in Nat
    BY <1>1, SetFacts DEF Last
  <2>2. journal' = [journal EXCEPT !.completed = n, !.intent = NoStep]
    BY DEF Complete
  <2>3. NoStep \in 0 .. NoStep
    BY DEF NoStep
  <2> HIDE DEF n
  <2> QED
    BY <2>1, <2>2, <2>3 DEF Journals
<1>3. Made(journal', n)
  BY <1>2 DEF Made
<1>4. file' = file /\ archived' = archived /\ stable' = stable /\ pc' = "completed"
  BY DEF Complete
<1>5. Layout(journal', n) = Layout(journal, n)
  BY <1>2, LayoutSame
<1> HIDE DEF n
<1>6. DisksInv' /\ Unfinished(Disk)' /\ Quiet /\ Unfinished(stable)'
  BY <1>1, <1>2, <1>3, <1>4, Progress DEF RecoveryInv
<1>7. PcInv'
  BY <1>1, <1>2, <1>4, <1>5, <1>6 DEF PcInv, PlanPcs, SettledPcs, OpenPcs, RecoveryPcs
<1> QED
  BY <1>6, <1>7 DEF RecoveryInv

\* Whatever the step made visible is made durable before the next one.
LEMMA SyncKeeps ==
  ASSUME RecoveryInv,
         SyncIntent \/ SyncMove \/ SyncComplete \/ SyncVerified \/ SyncArchive \/ SyncPublish
  PROVE  RecoveryInv' /\ Quiet /\ Disk' = Disk /\ stable' = Disk
<1>1. Sync /\ UNCHANGED <<file, journal, archived>>
  BY DEF SyncIntent, SyncMove, SyncComplete, SyncVerified, SyncArchive, SyncPublish
<1>2. DisksInv' /\ Quiet /\ Disk' = Disk /\ Unfinished(Disk)' = Unfinished(Disk) /\ stable' = Disk
  BY <1>1, Synced DEF RecoveryInv, Sync
<1>3. Unfinished(stable)' = Unfinished(Disk)
  BY <1>2
<1> USE DEF PcInv, PlanPcs, SettledPcs, OpenPcs, RecoveryPcs
<1>4. PcInv'
  <2>1. CASE SyncIntent \/ SyncMove
    BY <1>1, <1>2, <1>3, <2>1 DEF SyncIntent, SyncMove, RecoveryInv
  <2>2. CASE SyncComplete
    <3>1. pc' \in {"intend", "validate"} /\ (pc' = "intend" <=> journal.completed # Last)
      BY <2>2 DEF SyncComplete, NextTurn
    <3> QED
      BY <1>1, <1>2, <1>3, <2>2, <3>1, SetFacts DEF SyncComplete, RecoveryInv, Last
  <2>3. CASE SyncVerified
    <3>1. ~Unfinished(Disk)
      BY <2>3, DiskFields DEF SyncVerified, RecoveryInv, Unfinished
    <3> QED
      BY <1>1, <1>2, <1>3, <2>3, <3>1 DEF SyncVerified
  <2>4. CASE SyncArchive
    <3>1. journal.op = 0 /\ ~Unfinished(Disk)
      BY <2>4 DEF SyncArchive, RecoveryInv
    <3> QED
      BY <1>1, <1>2, <1>3, <2>4, <3>1 DEF SyncArchive
  <2>5. CASE SyncPublish
    BY <1>1, <1>2, <2>5 DEF SyncPublish
  <2> QED
    BY <2>1, <2>2, <2>3, <2>4, <2>5
          DEF SyncIntent, SyncMove, SyncComplete, SyncVerified, SyncArchive, SyncPublish
<1> QED
  BY <1>2, <1>4 DEF RecoveryInv

\* Changing the sidecars, or writing to the database, leaves a whole set whole.
LEMMA ActiveFacts ==
  ASSUME NEW f
  PROVE  \A t \in Targets : Active(f)[t] = f[At("active", t)]
BY DEF Active

LEMMA WholeStays ==
  ASSUME NEW a, NEW b, Whole(a), b[Database] # Absent, b[Database].gen = a[Database].gen,
         b[Attachments] = a[Attachments],
         \A t \in Sidecars : b[t] # Absent => b[t].gen = a[Database].gen
  PROVE  Whole(b)
<1>1. \A t \in Targets : t \in Sidecars \/ t \in {Database, Attachments}
  BY DEF Targets, Sidecars, Database, Attachments
<1>2. Attachments \in Targets
  BY PlaceFacts
<1> QED
  BY <1>1, <1>2 DEF Whole

LEMMA NewJournalFacts ==
  /\ NoJournal \in Journals /\ NoJournal.op = 0 /\ ~NoJournal.verified
  /\ \A o \in Ops, p \in [Targets -> Contents] :
       [op |-> o, completed |-> 0, intent |-> NoStep, verified |-> FALSE, previous |-> p]
         \in Journals
  /\ Ops \subseteq Gens /\ 0 \notin Ops
<1>1. Absent \in Contents /\ 0 \in 0 .. NOps /\ 0 \in 0 .. Last /\ NoStep \in 0 .. NoStep
  BY OpsAssumption DEF Contents, Last, NoStep
<1>2. Ops \subseteq Gens /\ 0 \notin Ops /\ Gens = 0 .. NOps
  BY OpsAssumption DEF Ops, Gens
<1>3. NoJournal \in Journals
  BY <1>1 DEF NoJournal, Journals
<1>4. ASSUME NEW o \in Ops, NEW p \in [Targets -> Contents]
      PROVE  [op |-> o, completed |-> 0, intent |-> NoStep, verified |-> FALSE, previous |-> p]
              \in Journals
  BY <1>1, <1>2 DEF Journals
<1> QED
  BY <1>2, <1>3, <1>4 DEF NoJournal

\* A disk without an unfinished replacement, from its parts.
LEMMA SettledDisk ==
  ASSUME NEW e, DiskType(e), ~Unfinished(e), e.journal.op \notin e.archived,
         e.journal.verified => e.journal.op # 0 /\ e.file[At("active", Database)].gen = e.journal.op,
         Whole(Active(e.file)),
         e.file[At("active", Database)].gen \in {0} \cup Replaced(e)
  PROVE  DiskInv(e) /\ Base(e) = Active(e.file)
         /\ Base(e)[Database].gen = e.file[At("active", Database)].gen
BY ActiveFacts, PlaceFacts DEF DiskInv, Base

LEMMA DiskParts ==
  ASSUME NEW d, DiskInv(d), ~Unfinished(d)
  PROVE  /\ Base(d) = Active(d.file) /\ Whole(Active(d.file))
         /\ Base(d)[Database] = d.file[At("active", Database)]
         /\ d.file[At("active", Database)] # Absent
         /\ d.file[At("active", Database)] \in Contents
         /\ d.file[At("active", Database)].gen \in Gens
         /\ d.file[At("active", Database)].gen \in {0} \cup Replaced(d)
<1>1. Base(d) = Active(d.file) /\ Whole(Active(d.file))
  BY DEF DiskInv, Base
<1>2. Active(d.file)[Database] = d.file[At("active", Database)]
  BY ActiveFacts, PlaceFacts
<1>3. d.file[At("active", Database)] \in Contents
  BY PlaceFacts DEF DiskInv, DiskType
<1>4. d.file[At("active", Database)] # Absent
  BY <1>1, <1>2 DEF Whole
<1> QED
  BY <1>1, <1>2, <1>3, <1>4, ContentFacts DEF DiskInv

LEMMA ValidateKeeps ==
  ASSUME RecoveryInv, Validate
  PROVE  /\ RecoveryInv' /\ archived' = archived /\ stable' = stable
         /\ journal'.op = journal.op /\ pc' \in {"verifying", "stopped"}
         /\ InstalledIsSound =>
              /\ Replaced(Disk') = Replaced(Disk) \cup {journal.op} /\ ~Unfinished(Disk')
              /\ Base(Disk')[Database].gen = journal.op
              /\ Base(Disk')[Database] = Copy(journal.op)
         /\ ~InstalledIsSound => Disk' = Disk /\ Quiet
<1> USE DiskFields
<1>1. Unfinished(Disk) /\ Unfinished(stable)
  BY DEF RecoveryInv, PcInv, Validate, PlanPcs
<1>2. journal.op # 0 /\ ~journal.verified /\ journal.op \notin archived /\ DiskType(Disk)
  BY <1>1 DEF Unfinished, RecoveryInv, DisksInv, DiskInv
<1>3. /\ journal' = [journal EXCEPT !.verified = InstalledIsSound]
      /\ file' = file /\ archived' = archived /\ stable' = stable
      /\ pc' = IF InstalledIsSound THEN "verifying" ELSE "stopped"
  BY DEF Validate
<1>4. /\ journal' \in Journals /\ journal'.op = journal.op
      /\ journal'.verified = InstalledIsSound
      /\ journal'.previous = journal.previous /\ journal'.completed = journal.completed
      /\ journal'.intent = journal.intent
  <2>1. journal \in Journals /\ InstalledIsSound \in BOOLEAN
    BY SetFacts DEF InstalledIsSound
  <2> HIDE DEF InstalledIsSound
  <2> QED
    BY <1>3, <2>1 DEF Journals
<1>5. PairInv => /\ Base(Disk) = Base(stable) /\ Replaced(Disk) = Replaced(stable)
                 /\ journal.op = stable.journal.op /\ archived = stable.archived
  BY <1>1, <1>2 DEF PairInv, Replaced, Unfinished
<1>6. DiskInv(stable)' /\ PairInv /\ StableIsDisk'
  BY <1>3 DEF RecoveryInv, DisksInv, StableIsDisk
<1>7. CASE InstalledIsSound
  <2>1. ~Unfinished(Disk') /\ DiskType(Disk')
    BY <1>2, <1>3, <1>4, <1>7 DEF Unfinished, DiskType
  <2>2. Replaced(Disk') = Replaced(Disk) \cup {journal.op}
    BY <1>2, <1>3, <1>4, <1>7 DEF Replaced
  <2>3. /\ file'[At("active", Database)] = Copy(journal.op)
        /\ file'[At("active", Attachments)] = Copy(journal.op)
        /\ \A t \in Sidecars : file'[At("active", t)] = Absent
    BY <1>3, <1>7 DEF InstalledIsSound
  <2>4. Copy(journal.op).gen = journal.op /\ Copy(journal.op) # Absent
    BY CopyFacts, SetFacts
  <2>5. Whole(Active(file'))
    <3>1. \A t \in Targets : t \in Sidecars \/ t \in {Database, Attachments}
      BY DEF Targets, Sidecars, Database, Attachments
    <3>2. /\ Active(file')[Database] = Copy(journal.op)
          /\ Active(file')[Attachments] = Copy(journal.op)
          /\ \A t \in Sidecars : t \in Targets => Active(file')[t] = Absent
      BY <2>3, ActiveFacts, PlaceFacts
    <3> QED
      BY <2>4, <3>1, <3>2 DEF Whole
  <2>6. /\ DiskInv(Disk') /\ Base(Disk')[Database].gen = journal.op
        /\ Base(Disk') = Active(file')
    <3> DEFINE e == Disk'
    <3>1. /\ DiskType(e) /\ ~Unfinished(e) /\ e.journal.op \notin e.archived
          /\ e.journal.verified => e.journal.op # 0
                                   /\ e.file[At("active", Database)].gen = e.journal.op
          /\ Whole(Active(e.file))
          /\ e.file[At("active", Database)].gen \in {0} \cup Replaced(e)
          /\ e.file[At("active", Database)].gen = journal.op /\ e.file = file'
      BY <1>2, <1>3, <1>4, <1>7, <2>1, <2>2, <2>3, <2>4, <2>5
    <3> HIDE DEF e
    <3>2. DiskInv(e) /\ Base(e) = Active(e.file)
          /\ Base(e)[Database].gen = e.file[At("active", Database)].gen
      BY <3>1, SettledDisk
    <3> QED
      BY <3>1, <3>2 DEF e
  <2>7. PairInv'
    BY <1>1, <1>3, <1>4, <1>5, <1>6, <1>7, <2>1, <2>3 DEF PairInv
  <2>8. PcInv'
    BY <1>3, <1>4, <1>7, <2>1
    DEF PcInv, PlanPcs, SettledPcs, OpenPcs, RecoveryPcs
  <2>9. Base(Disk')[Database] = Copy(journal.op)
    BY <2>3, <2>6, ActiveFacts, PlaceFacts
  <2> QED
    BY <1>3, <1>4, <1>6, <1>7, <2>1, <2>2, <2>6, <2>7, <2>8, <2>9 DEF RecoveryInv, DisksInv
<1>8. CASE ~InstalledIsSound
  <2>1. journal' = journal
    <3>1. journal \in Journals /\ journal.verified = FALSE
      BY <1>2, SetFacts
    <3>2. InstalledIsSound = FALSE
      BY <1>8 DEF InstalledIsSound
    <3>3. [journal EXCEPT !.verified = FALSE] = journal
      BY <3>1 DEF Journals
    <3> QED
      BY <1>3, <3>2, <3>3
  <2>2. UNCHANGED <<file, journal, archived>> /\ stable' = stable
    BY <1>3, <2>1
  <2>3. DisksInv' /\ Quiet /\ Disk' = Disk
    BY <2>2, Synced DEF RecoveryInv
  <2>4. PcInv'
    BY <1>3, <1>8 DEF PcInv, PlanPcs, SettledPcs, OpenPcs, RecoveryPcs
  <2> QED
    BY <1>3, <1>4, <1>8, <2>3, <2>4 DEF RecoveryInv
<1> QED
  BY <1>7, <1>8

LEMMA ArchiveKeeps ==
  ASSUME RecoveryInv, Archive
  PROVE  /\ RecoveryInv' /\ stable' = stable /\ pc' = "archived"
         /\ Base(Disk')[Database].gen = Base(Disk)[Database].gen
         /\ Replaced(Disk') = Replaced(Disk) /\ ~Unfinished(Disk')
         /\ \A o \in Ops : Begun(Disk', o) => Begun(Disk, o)
         /\ Base(Disk')[Database] = Base(Disk)[Database]
         /\ journal'.op = 0
<1> USE DiskFields
<1>1. /\ ~Unfinished(Disk) /\ ~Unfinished(stable)
      /\ DiskInv(Disk) /\ DiskInv(stable) /\ PairInv /\ StableIsDisk
  BY DEF RecoveryInv, DisksInv, PcInv, Archive, SettledPcs
<1>2. stable' = stable /\ pc' = "archived"
  BY <1>1 DEF Archive, Unfinished
<1>3. CASE journal.verified
  <2>1. /\ file' = Emptied /\ journal' = NoJournal
        /\ archived' = archived \cup {journal.op}
    BY <1>3 DEF Archive
  <2>2. journal.op \in Ops /\ journal.op # 0
    BY <1>1, <1>3, OpsAssumption, SetFacts DEF DiskInv, Ops, Gens
  <2>3. file' \in [Places -> Contents] /\ Active(file') = Active(file)
        /\ file'[At("active", Database)] = file[At("active", Database)]
    <3>1. Absent \in Contents
      BY DEF Contents
    <3>2. file' \in [Places -> Contents]
      BY <2>1, <3>1, SetFacts DEF Emptied
    <3>3. \A t \in Targets : file'[At("active", t)] = file[At("active", t)]
      BY <2>1, PlaceFacts DEF Emptied
    <3> QED
      BY <3>2, <3>3, PlaceFacts DEF Active
  <2>4. DiskType(Disk')
    BY <2>1, <2>2, <2>3, SetFacts, NewJournalFacts DEF DiskType
  <2>5. Replaced(Disk') = Replaced(Disk) /\ ~Unfinished(Disk')
    BY <1>3, <2>1, NewJournalFacts DEF Replaced, Unfinished
  <2>6. DiskInv(Disk') /\ Base(Disk') = Active(file')
    <3> DEFINE e == Disk'
    <3>1. /\ DiskType(e) /\ ~Unfinished(e) /\ e.journal.op \notin e.archived
          /\ e.journal.verified => e.journal.op # 0
                                   /\ e.file[At("active", Database)].gen = e.journal.op
      BY <2>1, <2>2, <2>4, <2>5, SetFacts, NewJournalFacts
    <3>2. /\ Whole(Active(e.file)) /\ e.file = file'
          /\ e.file[At("active", Database)].gen \in {0} \cup Replaced(e)
      BY <1>1, <2>3, <2>5, DiskParts
    <3> HIDE DEF e
    <3>3. DiskInv(e) /\ Base(e) = Active(e.file)
      BY <3>1, <3>2, SettledDisk
    <3> QED
      BY <3>2, <3>3 DEF e
  <2>7. Base(Disk') = Base(Disk)
    BY <1>1, <2>3, <2>6, DiskParts
  <2>8. PairInv'
    BY <1>1, <1>2, <2>5, <2>7 DEF PairInv
  <2>9. PcInv'
    BY <1>1, <1>2, <2>1, <2>5, NewJournalFacts
    DEF PcInv, PlanPcs, SettledPcs, OpenPcs, RecoveryPcs
  <2>10. \A o \in Ops : Begun(Disk', o) => Begun(Disk, o)
    BY <2>1, NewJournalFacts DEF Begun
  <2> QED
    BY <1>1, <1>2, <2>1, <2>5, <2>6, <2>7, <2>8, <2>9, <2>10, NewJournalFacts
    DEF RecoveryInv, DisksInv, StableIsDisk
<1>4. CASE ~journal.verified
  <2>1. UNCHANGED <<file, journal, archived>> /\ journal.op = 0
    BY <1>1, <1>4 DEF Archive, Unfinished
  <2>2. DisksInv' /\ Disk' = Disk
    BY <1>2, <2>1, Synced DEF RecoveryInv
  <2>3. PcInv'
    BY <1>1, <1>2, <2>1, <2>2 DEF PcInv, PlanPcs, SettledPcs, OpenPcs, RecoveryPcs
  <2> QED
    BY <1>1, <1>2, <2>1, <2>2, <2>3 DEF RecoveryInv
<1> QED
  BY <1>3, <1>4, SetFacts

LEMMA PublishKeeps ==
  ASSUME RecoveryInv, NEW o \in Ops, Publish(o), o \notin archived
  PROVE  /\ RecoveryInv' /\ stable' = stable /\ archived' = archived /\ pc' = "published"
         /\ journal'.op = o /\ Unfinished(Disk') /\ ~journal'.verified
         /\ Base(Disk')[Database].gen = Base(Disk)[Database].gen
         /\ Replaced(Disk') = Replaced(Disk)
<1> USE DiskFields
<1>1. /\ ~Unfinished(Disk) /\ ~Unfinished(stable) /\ journal.op = 0
      /\ DiskInv(Disk) /\ DiskInv(stable) /\ PairInv /\ StableIsDisk
  BY DEF RecoveryInv, DisksInv, PcInv, Publish, SettledPcs
<1>2. /\ stable' = stable /\ archived' = archived /\ pc' = "published"
      /\ journal' = [op |-> o, completed |-> 0, intent |-> NoStep, verified |-> FALSE,
                     previous |-> Active(file)]
      /\ file' = [p \in Places |-> IF p.dir = "new" THEN Copy(o) ELSE Emptied[p]]
  BY DEF Publish, Active
<1>3. ~journal.verified
  BY <1>1 DEF DiskInv
<1>4. Active(file) \in [Targets -> Contents]
  BY SetFacts, PlaceFacts DEF Active
<1>5. /\ journal' \in Journals /\ journal'.op = o /\ ~journal'.verified
      /\ journal'.completed = 0 /\ journal'.previous = Active(file)
  BY <1>2, <1>4, NewJournalFacts
<1>6. o # 0
  BY NewJournalFacts
<1>7. Unfinished(Disk') /\ Replaced(Disk') = Replaced(Disk) /\ Base(Disk') = Base(Disk)
  BY <1>1, <1>2, <1>3, <1>5, <1>6, DiskParts DEF Unfinished, Replaced, Base
<1>8. file' = Layout(journal', 0)
  <2> DEFINE g == Layout(journal', 0)
  <2>0. \A t \in Targets : t \in Nat /\ t >= 0 /\ ~(t < 0)
    BY DEF Targets
  <2>1. \A t \in {Database, Attachments} : ~(InstallStep(t) < 0)
    BY DEF InstallStep
  <2>2. \A t \in Targets : t \in Sidecars \/ t \in {Database, Attachments}
    BY DEF Targets, Sidecars, Database, Attachments
  <2>3. \A t \in Targets : g[At("previous", t)] = Absent
    BY <2>0, LayoutAt
  <2>4. \A t \in Targets : g[At("active", t)] = file[At("active", t)]
    <3> TAKE t \in Targets
    <3>1. g[At("active", t)] = journal'.previous[t]
      BY <2>0, <2>2, LayoutAt
    <3> QED
      BY <1>5, <3>1, ActiveFacts
  <2>5. \A t \in {Database, Attachments} : g[At("new", t)] = Copy(o)
    BY <1>5, <2>1, LayoutAt
  <2>6. \A t \in Targets : file'[At("active", t)] = file[At("active", t)]
                           /\ file'[At("previous", t)] = Absent
    BY <1>2, PlaceFacts DEF Emptied
  <2>7. \A t \in {Database, Attachments} : file'[At("new", t)] = Copy(o)
    BY <1>2, PlaceFacts
  <2>8. file' = [p \in Places |-> file'[p]] /\ g = [p \in Places |-> g[p]]
    BY <1>2 DEF Layout
  <2> HIDE DEF g
  <2>9. file' = g
    BY <2>3, <2>4, <2>5, <2>6, <2>7, <2>8, SameFiles
  <2> QED
    BY <2>9 DEF g
<1>9. DiskType(Disk') /\ Made(journal', 0)
  <2>1. Layout(journal', 0) \in [Places -> Contents]
    BY <1>5, LayoutType
  <2>2. Made(journal', 0)
    BY <1>5 DEF Made, Last
  <2>3. archived' \in SUBSET Ops
    BY <1>2, SetFacts
  <2>4. file' \in [Places -> Contents] /\ journal' \in Journals
    BY <1>5, <1>8, <2>1
  <2> HIDE DEF Made
  <2> QED
    BY <2>2, <2>3, <2>4 DEF DiskType
<1>10. DiskInv(Disk')
  BY <1>1, <1>2, <1>5, <1>7, <1>8, <1>9 DEF DiskInv
<1>11. PairInv'
  BY <1>1, <1>2, <1>7 DEF PairInv
<1>12. PcInv'
  BY <1>2, <1>7 DEF PcInv, PlanPcs, SettledPcs, OpenPcs, RecoveryPcs
<1> QED
  BY <1>1, <1>2, <1>5, <1>7, <1>10, <1>11, <1>12 DEF RecoveryInv, DisksInv, StableIsDisk

\* Steps that leave the disk alone.
LEMMA Elsewhere ==
  ASSUME RecoveryInv, UNCHANGED diskVars,
         \/ pc' = pc
         \/ pc' \in {"off", "boot", "recover", "failing", "stopped"}
         \/ pc = "owned" /\ pc' = "prepare"
         \/ pc \in OpenPcs /\ pc' \in OpenPcs
  PROVE  RecoveryInv' /\ Quiet /\ Disk' = Disk /\ stable' = stable
<1>1. DisksInv' /\ Quiet /\ Disk' = Disk /\ stable' = stable
  BY Synced DEF RecoveryInv, diskVars
<1>2. UNCHANGED <<file, journal>>
  BY DEF diskVars
<1>3. PcInv'
  BY <1>1, <1>2
  DEF RecoveryInv, PcInv, PlanPcs, SettledPcs, OpenPcs, RecoveryPcs, HandoffPcs
<1> QED
  BY <1>1, <1>3 DEF RecoveryInv

\* The files in use of two settled disks change together.
LEMMA Together ==
  ASSUME RecoveryInv, ~Unfinished(Disk), ~Unfinished(stable),
         NEW f \in [Places -> Contents], NEW g \in [Places -> Contents],
         NEW d \in {Disk, stable},
         file' = f, journal' = d.journal, archived' = d.archived,
         stable' = [stable EXCEPT !.file = g],
         Active(f) = Active(g), Whole(Active(f)),
         f[At("active", Database)].gen = file[At("active", Database)].gen
  PROVE  /\ DisksInv' /\ Quiet /\ ~Unfinished(Disk') /\ ~Unfinished(stable')
         /\ stable'.journal = stable.journal /\ stable'.archived = stable.archived
         /\ stable'.file = g /\ Base(stable') = Active(g) /\ Base(Disk') = Active(f)
         /\ Base(Disk)[Database].gen = file[At("active", Database)].gen
         /\ Base(stable)[Database] = file[At("active", Database)]
<1> USE DiskFields
<1>1. /\ DiskInv(Disk) /\ DiskInv(stable) /\ StableIsDisk
      /\ Base(Disk) = Base(stable) /\ Replaced(Disk) = Replaced(stable)
  BY DEF RecoveryInv, DisksInv, PairInv
<1>2. /\ stable'.file = g /\ stable'.journal = stable.journal /\ stable'.archived = stable.archived
      /\ StableIsDisk'
  BY <1>1 DEF StableIsDisk
<1>3. /\ \A e \in {Disk, stable} :
           /\ Base(e)[Database] = file[At("active", Database)]
           /\ file[At("active", Database)].gen \in {0} \cup Replaced(e)
           /\ e.journal.op \notin e.archived
           /\ e.journal.verified => e.journal.op # 0
                                    /\ file[At("active", Database)].gen = e.journal.op
           /\ e.journal \in Journals /\ e.archived \in SUBSET Ops
  <2>1. /\ Base(Disk)[Database] = file[At("active", Database)]
        /\ Base(stable)[Database] = stable.file[At("active", Database)]
        /\ file[At("active", Database)].gen \in {0} \cup Replaced(Disk)
    BY <1>1, DiskParts
  <2>2. stable.file[At("active", Database)] = file[At("active", Database)]
    BY <1>1, <2>1
  <2> QED
    BY <1>1, <2>1, <2>2 DEF DiskInv, DiskType
<1>4. g[At("active", Database)] = f[At("active", Database)]
  BY ActiveFacts, PlaceFacts
<1>5. ASSUME NEW e, NEW c \in {Disk, stable}, DiskType(e), e.journal = c.journal,
             e.archived = c.archived, e.file = f \/ e.file = g
      PROVE  DiskInv(e) /\ ~Unfinished(e) /\ Alike(c, e) /\ Replaced(e) = Replaced(c)
             /\ Base(e) = Active(f)
  <2>1. ~Unfinished(e) /\ Replaced(e) = Replaced(c)
    BY <1>5 DEF Unfinished, Replaced
  <2>2. /\ e.file[At("active", Database)] = f[At("active", Database)]
        /\ e.file[At("active", Database)].gen = file[At("active", Database)].gen
        /\ Active(e.file) = Active(f)
    BY <1>4, <1>5
  <2>3. /\ DiskInv(e) /\ Base(e) = Active(e.file)
        /\ Base(e)[Database].gen = e.file[At("active", Database)].gen
    BY <1>3, <1>5, <2>1, <2>2, SettledDisk
  <2> QED
    BY <1>3, <1>5, <2>1, <2>2, <2>3 DEF Alike
<1>6. DiskType(Disk') /\ DiskType(stable')
  BY <1>2, <1>3 DEF DiskType
<1>7. DiskInv(Disk') /\ ~Unfinished(Disk') /\ Alike(d, Disk') /\ Replaced(Disk') = Replaced(d)
      /\ Base(Disk') = Active(f)
  <2> DEFINE e == Disk'
  <2>1. DiskType(e) /\ e.journal = d.journal /\ e.archived = d.archived /\ e.file = f
    BY <1>6
  <2> HIDE DEF e
  <2>2. DiskInv(e) /\ ~Unfinished(e) /\ Alike(d, e) /\ Replaced(e) = Replaced(d)
        /\ Base(e) = Active(f)
    BY <1>5, <2>1
  <2> QED
    BY <2>2 DEF e
<1>8. DiskInv(stable') /\ ~Unfinished(stable') /\ Alike(stable, stable')
      /\ Replaced(stable') = Replaced(stable) /\ Base(stable') = Active(f)
  <2> DEFINE e == stable'
  <2>1. DiskType(e) /\ e.journal = stable.journal /\ e.archived = stable.archived /\ e.file = g
    BY <1>2, <1>6
  <2> HIDE DEF e
  <2>2. DiskInv(e) /\ ~Unfinished(e) /\ Alike(stable, e) /\ Replaced(e) = Replaced(stable)
        /\ Base(e) = Active(f)
    BY <1>5, <2>1
  <2> QED
    BY <2>2 DEF e
<1>9. PairInv'
  BY <1>1, <1>7, <1>8 DEF PairInv
<1>10. Quiet
  BY <1>7, <1>8 DEF Quiet, Disks
<1> QED
  BY <1>2, <1>3, <1>7, <1>8, <1>9, <1>10 DEF DisksInv

\* The files in use that are there when the database is open.
LEMMA InUse ==
  ASSUME RecoveryInv, ~Unfinished(Disk)
  PROVE  /\ Whole(Active(file)) /\ file[At("active", Database)] \in Contents
         /\ file[At("active", Database)] # Absent
         /\ file[At("active", Database)].gen \in Gens
         /\ file[At("active", Database)].gen \in {0} \cup Replaced(Disk)
BY DiskParts, DiskFields DEF RecoveryInv, DisksInv

LEMMA OpenKeeps ==
  ASSUME RecoveryInv, Open
  PROVE  /\ RecoveryInv' /\ Quiet /\ pc' \in {"fence", "serving"}
         /\ Base(stable')[Database] = Base(stable)[Database]
         /\ stable'.journal = stable.journal /\ stable'.archived = stable.archived
<1> USE DiskFields
<1>1. ~Unfinished(Disk) /\ ~Unfinished(stable)
  BY DEF RecoveryInv, PcInv, Open, SettledPcs
<1>2. /\ file' = [p \in Places |-> IF p.dir = "active" /\ p.target \in Sidecars
                                   THEN Absent ELSE file[p]]
      /\ stable' = [stable EXCEPT !.file = file']
      /\ journal' = journal /\ archived' = archived /\ pc' \in {"fence", "serving"}
  BY DEF Open
<1>3. file' \in [Places -> Contents]
  BY <1>2, SetFacts DEF Contents
<1>4. /\ \A t \in {Database, Attachments} : file'[At("active", t)] = file[At("active", t)]
      /\ \A t \in Sidecars : file'[At("active", t)] = Absent
  <2>1. /\ \A t \in {Database, Attachments} : t \in Targets /\ t \notin Sidecars
        /\ \A t \in Sidecars : t \in Targets
    BY DEF Targets, Sidecars, Database, Attachments
  <2> QED
    BY <1>2, <2>1, PlaceFacts
<1>5. Whole(Active(file'))
  <2> DEFINE a == Active(file)
             b == Active(file')
  <2>1. /\ a[Database] = file[At("active", Database)] /\ a[Attachments] = file[At("active", Attachments)]
        /\ b[Database] = file'[At("active", Database)] /\ b[Attachments] = file'[At("active", Attachments)]
        /\ \A t \in Sidecars : b[t] = file'[At("active", t)]
    BY ActiveFacts DEF Targets, Sidecars, Database, Attachments
  <2>2. Whole(a) /\ a[Database] # Absent
    BY <1>1, <2>1, InUse
  <2> HIDE DEF a, b
  <2>3. Whole(b)
    BY <1>4, <2>1, <2>2, WholeStays
  <2> QED
    BY <2>3 DEF b
<1>6. /\ DisksInv' /\ Quiet /\ ~Unfinished(Disk') /\ ~Unfinished(stable')
      /\ stable'.journal = stable.journal /\ stable'.archived = stable.archived
      /\ stable'.file = file' /\ Base(stable') = Active(file')
      /\ Base(stable)[Database] = file[At("active", Database)]
  <2>1. file'[At("active", Database)].gen = file[At("active", Database)].gen
    BY <1>4
  <2> DEFINE f == file'
  <2>2. /\ f \in [Places -> Contents] /\ Whole(Active(f)) /\ file' = f
        /\ stable' = [stable EXCEPT !.file = f]
        /\ f[At("active", Database)].gen = file[At("active", Database)].gen
    BY <1>2, <1>3, <1>5, <2>1
  <2>3. journal' = Disk.journal /\ archived' = Disk.archived
    BY <1>2
  <2> HIDE DEF f
  <2>4. /\ DisksInv' /\ Quiet /\ ~Unfinished(Disk') /\ ~Unfinished(stable')
        /\ stable'.journal = stable.journal /\ stable'.archived = stable.archived
        /\ stable'.file = f /\ Base(stable') = Active(f)
        /\ Base(stable)[Database] = file[At("active", Database)]
    BY <1>1, <2>2, <2>3, Together
  <2> QED
    BY <2>4 DEF f
<1>7. PcInv'
  BY <1>2, <1>6 DEF PcInv, PlanPcs, SettledPcs, OpenPcs, RecoveryPcs, HandoffPcs
<1>8. Base(stable')[Database] = Base(stable)[Database]
  BY <1>4, <1>6, ActiveFacts, PlaceFacts
<1> QED
  BY <1>2, <1>6, <1>7, <1>8 DEF RecoveryInv

LEMMA WriteKeeps ==
  ASSUME RecoveryInv, WriteDatabase, pc \in OpenPcs, pc' \in OpenPcs
  PROVE  /\ RecoveryInv' /\ Quiet
         /\ Base(stable)[Database].gen = Installed
         /\ Base(stable')[Database] = [gen |-> Installed, written |-> TRUE]
         /\ stable'.journal = stable.journal /\ stable'.archived = stable.archived
         /\ Installed \in Gens /\ Installed \in {0} \cup Replaced(Disk)
         /\ Base(Disk)[Database].gen = Installed
         /\ journal' = journal /\ archived' = archived
<1> USE DiskFields
<1>1. ~Unfinished(Disk) /\ ~Unfinished(stable) /\ stable.file = file
  BY DEF RecoveryInv, PcInv, SettledPcs
<1> DEFINE w == [gen |-> Installed, written |-> TRUE]
           f == DatabaseWritten(file)
<1>2. /\ file' = f /\ stable' = [stable EXCEPT !.file = f]
      /\ journal' = journal /\ archived' = archived
  BY <1>1 DEF WriteDatabase
<1>3. /\ Installed \in Gens /\ Installed = file[At("active", Database)].gen
      /\ Installed \in {0} \cup Replaced(Disk)
  BY <1>1, InUse DEF Installed
<1>4. w \in Contents /\ w # Absent /\ w.gen = Installed
  BY <1>3, CopyFacts
<1>5. /\ f = [file EXCEPT ![At("active", Database)] = w]
      /\ file \in [Places -> Contents] /\ At("active", Database) \in Places
  BY SetFacts, PlaceFacts DEF DatabaseWritten
<1> HIDE DEF w, f
<1>6. f \in [Places -> Contents] /\ f[At("active", Database)] = w
  BY <1>4, <1>5
<1>7. \A t \in Sidecars \cup {Attachments} : f[At("active", t)] = file[At("active", t)]
  <2> TAKE t \in Sidecars \cup {Attachments}
  <2>1. At("active", t) \in Places /\ At("active", t) # At("active", Database)
    <3>1. t \in Targets /\ t # Database
      BY DEF Targets, Sidecars, Database, Attachments
    <3> QED BY <3>1, PlaceFacts DEF At
  <2> QED
    BY <1>5, <2>1
<1>8. Whole(Active(f))
  <2> DEFINE a == Active(file)
             b == Active(f)
  <2>1. /\ a[Database] = file[At("active", Database)] /\ a[Attachments] = file[At("active", Attachments)]
        /\ b[Database] = w /\ b[Attachments] = f[At("active", Attachments)]
        /\ \A t \in Sidecars : b[t] = f[At("active", t)] /\ a[t] = file[At("active", t)] /\ t \in Targets
    BY <1>6, ActiveFacts DEF Targets, Sidecars, Database, Attachments
  <2>2. Whole(a)
    BY <1>1, InUse
  <2> HIDE DEF a, b
  <2>3. /\ b[Database] # Absent /\ b[Database].gen = a[Database].gen /\ b[Attachments] = a[Attachments]
        /\ \A t \in Sidecars : b[t] # Absent => b[t].gen = a[Database].gen
    BY <1>3, <1>4, <1>7, <2>1, <2>2 DEF Whole
  <2>4. Whole(b)
    BY <2>2, <2>3, WholeStays
  <2> QED
    BY <2>4 DEF b
<1>9. /\ DisksInv' /\ Quiet /\ ~Unfinished(Disk') /\ ~Unfinished(stable')
      /\ stable'.journal = stable.journal /\ stable'.archived = stable.archived
      /\ stable'.file = f /\ Base(stable') = Active(f)
      /\ Base(Disk)[Database].gen = file[At("active", Database)].gen
      /\ Base(stable)[Database] = file[At("active", Database)]
  <2>1. f[At("active", Database)].gen = file[At("active", Database)].gen
    BY <1>3, <1>4, <1>6
  <2>2. journal' = Disk.journal /\ archived' = Disk.archived
    BY <1>2
  <2> QED
    BY <1>1, <1>2, <1>6, <1>8, <2>1, <2>2, Together
<1>10. PcInv'
  BY <1>2, <1>9 DEF PcInv, PlanPcs, SettledPcs, OpenPcs, RecoveryPcs, HandoffPcs
<1>11. Base(stable')[Database] = w
  BY <1>6, <1>9, ActiveFacts, PlaceFacts
<1> QED
  BY <1>2, <1>3, <1>9, <1>10, <1>11 DEF RecoveryInv, w

\* Nothing that counts is lost with a process, or with the power.
LEMMA CrashKeeps ==
  ASSUME RecoveryInv, Crash
  PROVE  /\ RecoveryInv' /\ Quiet /\ pc' = "off"
         /\ Base(stable')[Database] = Base(stable)[Database]
         /\ Unfinished(stable') = Unfinished(stable)
         /\ stable'.journal = stable.journal /\ stable'.archived = stable.archived
<1> USE DiskFields
<1>1. PICK left \in (IF DatabaseOpen THEN {{}, {1, 2}} ELSE {{}}), d \in {Disk, stable} :
        /\ file' = Dropped(d.file, left) /\ journal' = d.journal /\ archived' = d.archived
        /\ stable' = [stable EXCEPT !.file = Dropped(stable.file, left)]
  BY DEF Crash
<1>2. /\ DiskInv(Disk) /\ DiskInv(stable) /\ StableIsDisk /\ pc' = "off"
      /\ DiskType(Disk) /\ DiskType(stable)
  BY DEF RecoveryInv, DisksInv, DiskInv, Crash, Ends
<1>3. CASE DatabaseOpen
  <2>1. ~Unfinished(Disk) /\ ~Unfinished(stable) /\ stable.file = file
    BY <1>3 DEF RecoveryInv, PcInv, SettledPcs, DatabaseOpen
  <2> DEFINE f == Dropped(file, left)
  <2>2. /\ file' = f /\ stable' = [stable EXCEPT !.file = f]
        /\ journal' = d.journal /\ archived' = d.archived /\ left \in {{}, {1, 2}}
    BY <1>1, <1>3, <2>1
  <2>3. f \in [Places -> Contents]
    <3>1. \A p \in Places : file[p] \in Contents
      BY SetFacts
    <3> QED
      BY <3>1, PlaceFacts DEF Dropped
  <2>4. /\ \A t \in {Database, Attachments} : f[At("active", t)] = file[At("active", t)]
        /\ \A t \in Sidecars : f[At("active", t)] \in {file[At("active", t)],
                                                       file[At("active", Database)]}
    <3>1. \A t \in {Database, Attachments} : t \in Targets /\ t \notin left
      BY <2>2 DEF Targets, Database, Attachments
    <3>2. \A t \in Sidecars : t \in Targets
      BY DEF Targets, Sidecars
    <3> QED
      BY <3>1, <3>2, PlaceFacts DEF Dropped
  <2> HIDE DEF f
  <2>5. Whole(Active(f))
    <3> DEFINE a == Active(file)
               b == Active(f)
    <3>1. /\ \A t \in Sidecars \cup {Database, Attachments} :
               a[t] = file[At("active", t)] /\ b[t] = f[At("active", t)] /\ t \in Targets
      BY ActiveFacts DEF Targets, Sidecars, Database, Attachments
    <3>2. Whole(a) /\ a[Database] # Absent
      BY <2>1, <3>1, InUse
    <3> HIDE DEF a, b
    <3>3. /\ b[Database] = a[Database] /\ b[Attachments] = a[Attachments]
          /\ \A t \in Sidecars : b[t] \in {a[t], a[Database]}
      BY <2>4, <3>1
    <3>4. \A t \in Sidecars : b[t] # Absent => b[t].gen = a[Database].gen
      BY <3>1, <3>2, <3>3 DEF Whole
    <3>5. Whole(b)
      BY <3>2, <3>3, <3>4, WholeStays
    <3> QED
      BY <3>5 DEF b
  <2>6. /\ DisksInv' /\ Quiet /\ ~Unfinished(Disk') /\ ~Unfinished(stable')
        /\ stable'.journal = stable.journal /\ stable'.archived = stable.archived
        /\ Base(stable') = Active(f)
        /\ Base(stable)[Database] = file[At("active", Database)]
    <3>1. f[At("active", Database)].gen = file[At("active", Database)].gen
      BY <2>4
    <3> QED
      BY <2>1, <2>2, <2>3, <2>5, <3>1, Together
  <2>7. PcInv'
    BY <1>2 DEF PcInv, PlanPcs, SettledPcs, OpenPcs, RecoveryPcs, HandoffPcs
  <2>8. Base(stable')[Database] = Base(stable)[Database]
    BY <2>4, <2>6, ActiveFacts, PlaceFacts
  <2> QED
    BY <1>2, <2>6, <2>7, <2>8 DEF RecoveryInv, Unfinished
<1>4. CASE ~DatabaseOpen
  <2>1. left = {}
    BY <1>1, <1>4
  <2>2. \A e \in {Disk, stable} : Dropped(e.file, {}) = e.file
    BY <1>2 DEF Dropped, DiskType
  <2>3. stable' = stable
    BY <1>1, <1>2, <2>1, <2>2 DEF StableIsDisk
  <2>4. Disk' = d
    <3>1. file' = d.file
      BY <1>1, <2>1, <2>2
    <3> QED
      BY <1>1, <1>2, <3>1 DEF Disk, StableIsDisk
  <2>5. PairInv'
    <3>1. CASE d = Disk
      <4>1. journal' = journal /\ archived' = archived
        BY <1>1, <3>1
      <4> QED
        BY <2>3, <2>4, <3>1, <4>1 DEF RecoveryInv, DisksInv, PairInv
    <3>2. CASE d = stable
      <4>1. journal' = stable.journal
        BY <1>1, <3>2
      <4> QED
        BY <2>3, <2>4, <3>2, <4>1 DEF PairInv
    <3> QED BY <3>1, <3>2
  <2>6. DisksInv' /\ Quiet
    BY <1>2, <2>3, <2>4, <2>5, AlikeSelf DEF DisksInv, StableIsDisk, Quiet, Disks
  <2>7. PcInv'
    BY <1>2 DEF PcInv, PlanPcs, SettledPcs, OpenPcs, RecoveryPcs, HandoffPcs
  <2> QED
    BY <1>2, <2>3, <2>6, <2>7 DEF RecoveryInv
<1> QED
  BY <1>3, <1>4

LEMMA InitRecovery ==
  ASSUME Init
  PROVE  /\ RecoveryInv /\ stable = Disk /\ journal.op = 0 /\ ~journal.verified /\ archived = {}
         /\ file[At("active", Database)] = Copy(0) /\ Base(stable)[Database] = Copy(0)
<1> USE DiskFields
<1>1. PICK left \in LeftBehind :
        /\ file = [p \in Places |-> IF p.dir = "active" /\ p.target \in left \cup {Database}
                                    THEN Copy(0) ELSE Absent]
        /\ journal = NoJournal /\ archived = {} /\ stable = Disk /\ pc = "off"
  BY DEF Init
<1>2. Copy(0) \in Contents /\ Copy(0).gen = 0 /\ Copy(0) # Absent /\ Absent \in Contents
  <2>1. 0 \in Gens
    BY OpsAssumption DEF Gens
  <2> QED BY <2>1, CopyFacts
<1>3. DiskType(Disk)
  BY <1>1, <1>2, NewJournalFacts DEF DiskType
<1>4. /\ file[At("active", Database)] = Copy(0)
      /\ \A t \in Targets : file[At("active", t)] \in {Copy(0), Absent}
  BY <1>1, PlaceFacts
<1>5. Whole(Active(file))
  <2>1. \A t \in Targets : Active(file)[t] = file[At("active", t)]
    BY ActiveFacts
  <2> QED
    BY <1>2, <1>4, <2>1, PlaceFacts DEF Whole
<1>6. ~Unfinished(Disk) /\ journal.op = 0 /\ ~journal.verified
  BY <1>1, NewJournalFacts DEF Unfinished
<1>7. DiskInv(Disk) /\ Base(Disk) = Active(file)
  <2> DEFINE e == Disk
  <2>1. /\ DiskType(e) /\ ~Unfinished(e) /\ e.journal.op \notin e.archived
        /\ ~e.journal.verified /\ Whole(Active(e.file)) /\ e.file = file
        /\ e.file[At("active", Database)].gen \in {0} \cup Replaced(e)
    BY <1>1, <1>2, <1>3, <1>4, <1>5, <1>6
  <2> HIDE DEF e
  <2>2. DiskInv(e) /\ Base(e) = Active(e.file)
    BY <2>1, SettledDisk
  <2> QED
    BY <2>1, <2>2 DEF e
<1>8. PairInv /\ StableIsDisk
  BY <1>1 DEF PairInv, StableIsDisk, Disk
<1>9. PcInv
  BY <1>1 DEF PcInv, PlanPcs, SettledPcs, OpenPcs, RecoveryPcs, HandoffPcs
<1>10. Base(stable)[Database] = Copy(0)
  BY <1>1, <1>4, <1>7, ActiveFacts, PlaceFacts
<1> QED
  BY <1>1, <1>4, <1>6, <1>7, <1>8, <1>9, <1>10 DEF RecoveryInv, DisksInv

-----------------------------------------------------------------------------
(* What the recovery invariant says of the files.                             *)

LEMMA OldIsOlder ==
  ASSUME NEW d, DiskInv(d), Unfinished(d), NEW t \in Targets, d.journal.previous[t] # Absent
  PROVE  d.journal.previous[t] # Copy(d.journal.op)
<1>1. /\ Base(d) = d.journal.previous /\ d.journal.op # 0 /\ d.journal.op \notin Replaced(d)
      /\ d.journal.op \in Gens
  BY JournalFacts DEF Base, Unfinished, Replaced, DiskInv, DiskType
<1>2. d.journal.previous[t].gen \in {0} \cup Replaced(d)
  BY <1>1 DEF DiskInv, Whole
<1> QED
  BY <1>1, <1>2, CopyFacts

\* Every file that was in use is in use or put away, once, while a plan is unfinished.
LEMMA KeptOnDisk ==
  ASSUME NEW d, DiskInv(d), Unfinished(d), NEW t \in Targets, d.journal.previous[t] # Absent
  PROVE  (d.file[At("active", t)] = d.journal.previous[t])
           # (d.file[At("previous", t)] = d.journal.previous[t])
<1> DEFINE old == d.journal.previous[t]
<1>1. PICK n \in Nat : d.file = Layout(d.journal, n)
  BY DEF DiskInv
<1>2. old # Copy(d.journal.op)
  BY OldIsOlder
<1>3. d.file[At("previous", t)] = IF t < n THEN old ELSE Absent
  BY <1>1, LayoutAt
<1>4. /\ t >= n => d.file[At("active", t)] = old
      /\ ~(t >= n) => d.file[At("active", t)] \in {Absent, Copy(d.journal.op)}
  <2>1. t \in Sidecars \/ t \in {Database, Attachments}
    BY DEF Targets, Sidecars, Database, Attachments
  <2>2. CASE t \in Sidecars
    BY <1>1, <2>2, LayoutAt
  <2>3. CASE t \in {Database, Attachments}
    BY <1>1, <2>3, LayoutAt
  <2> QED BY <2>1, <2>2, <2>3
<1>5. t >= n <=> ~(t < n)
  BY DEF Targets
<1> HIDE DEF old
<1>6. CASE t < n
  BY <1>2, <1>3, <1>4, <1>5, <1>6 DEF old
<1>7. CASE ~(t < n)
  BY <1>3, <1>4, <1>5, <1>7 DEF old
<1> QED
  BY <1>6, <1>7

LEMMA RecoveryKeepsPrevious == RecoveryInv => PreviousKept
<1> SUFFICES ASSUME RecoveryInv, NEW d \in {Disk, stable},
                    d.journal.op # 0 /\ ~d.journal.verified, NEW t \in Targets,
                    d.journal.previous[t] # Absent
             PROVE  (d.file[At("active", t)] = d.journal.previous[t])
                      # (d.file[At("previous", t)] = d.journal.previous[t])
  BY DEF PreviousKept
<1>1. DiskInv(d) /\ Unfinished(d)
  BY DEF RecoveryInv, DisksInv, Unfinished
<1> QED
  BY <1>1, KeptOnDisk

LEMMA RecoveryOpensWhole == RecoveryInv => WholeGeneration
<1> SUFFICES ASSUME RecoveryInv, DatabaseOpen \/ (pc = "owned" /\ task = "open")
             PROVE  /\ \A t \in Targets : file[At("active", t)] # Absent =>
                         file[At("active", t)].gen = Installed
                    /\ Installed # 0 => file[At("active", Attachments)] # Absent
  BY DEF WholeGeneration
<1>1. ~Unfinished(Disk)
  BY DEF RecoveryInv, PcInv, SettledPcs, DatabaseOpen
<1>2. Whole(Active(file))
  BY <1>1, InUse
<1> QED
  BY <1>2, ActiveFacts, PlaceFacts DEF Whole, Installed

-----------------------------------------------------------------------------
(* Recovery never refuses what it left behind itself.                         *)

\* The check of the interrupted plan accepts every place it can be interrupted at.
LEMMA PlanIsAccepted ==
  ASSUME RecoveryInv, Unfinished(Disk) PROVE PlanIsSound
<1> DEFINE c == journal.completed
           i == journal.intent
           prev == journal.previous
           new == Copy(journal.op)
<1>1. PICK n \in Nat : Made(journal, n) /\ file = Layout(journal, n)
  BY DuePlan
<1>2. c \in 0 .. 8 /\ n \in 0 .. 8 /\ (n = c \/ (i = c /\ n = c + 1))
  BY <1>1, SetFacts DEF Made, Last
<1>3. new # Absent
  BY CopyFacts, SetFacts
<1>4. \A t \in Targets : file[At("previous", t)] = IF t < n THEN prev[t] ELSE Absent
  BY <1>1, LayoutAt
<1>5. \A t \in Sidecars : file[At("active", t)] = IF t >= n THEN prev[t] ELSE Absent
  <2>1. \A t \in Sidecars : t \in Targets
    BY DEF Targets, Sidecars
  <2> QED
    BY <1>1, <2>1, LayoutAt
<1>6. \A t \in {Database, Attachments} :
        /\ file[At("new", t)] = IF InstallStep(t) < n THEN Absent ELSE new
        /\ file[At("active", t)] = IF t >= n THEN prev[t]
                                   ELSE IF InstallStep(t) < n THEN new ELSE Absent
  BY <1>1, LayoutAt
<1>7. \A t \in {Database, Attachments} : t \in Targets /\ InstallStep(t) \in {6, 7}
  BY DEF Targets, InstallStep, Database, Attachments
<1>i. i \in 0 .. 8
  BY SetFacts, JournalFacts DEF NoStep
<1> HIDE DEF c, i, prev, new
<1>8. ASSUME NEW s \in Targets PROVE StepIsSound(s)
  <2>1. /\ From(s) = At("active", s) /\ To(s) = At("previous", s)
        /\ Identity(s) = prev[s] /\ s \in 0 .. 5
    BY DEF From, To, Identity, prev, Targets
  <2>2. s \in Sidecars \/ s \in {Database, Attachments}
    BY DEF Targets, Sidecars, Database, Attachments
  <2>3. /\ s >= n => file[At("active", s)] = prev[s]
        /\ s < n => \/ file[At("active", s)] = Absent
                    \/ /\ s \in {Database, Attachments} /\ InstallStep(s) < n
                       /\ file[At("active", s)] = new
    BY <1>2, <1>5, <1>6, <2>1, <2>2
  <2>4. file[At("previous", s)] = IF s < n THEN prev[s] ELSE Absent
    BY <1>4
  <2>5. CASE prev[s] = Absent
    <3>1. file[To(s)] = Absent
      BY <2>1, <2>4, <2>5
    <3>2. \/ file[From(s)] = Absent
          \/ /\ s \in {Database, Attachments} /\ (c > InstallStep(s) \/ i = InstallStep(s))
             /\ file[From(s)] = new
      BY <1>2, <1>7, <2>1, <2>3, <2>5
    <3> QED
      BY <2>1, <2>5, <3>1, <3>2 DEF StepIsSound, c, i, new
  <2>6. CASE prev[s] # Absent /\ s < c
    <3>1. file[To(s)] = prev[s]
      BY <1>2, <2>1, <2>4, <2>6
    <3> QED
      BY <2>1, <2>6, <3>1 DEF StepIsSound, c
  <2>7. CASE prev[s] # Absent /\ s = c /\ n = c + 1
    <3>1. file[To(s)] = prev[s]
      BY <1>2, <2>1, <2>4, <2>7
    <3>2. file[From(s)] = Absent
      BY <1>2, <1>7, <2>1, <2>3, <2>7
    <3>3. i = s
      BY <1>2, <2>7
    <3> QED
      BY <2>1, <2>7, <3>1, <3>2, <3>3 DEF StepIsSound, c, i
  <2>8. CASE prev[s] # Absent /\ s >= n
    <3>1. file[To(s)] = Absent /\ file[From(s)] = prev[s] /\ s >= c
      BY <1>2, <2>1, <2>3, <2>4, <2>8
    <3> QED
      BY <2>1, <2>8, <3>1 DEF StepIsSound, c
  <2> QED
    BY <1>2, <2>1, <2>5, <2>6, <2>7, <2>8
<1>9. ASSUME NEW s \in {6, 7} PROVE StepIsSound(s)
  <2> DEFINE a == Installs(s)
  <2>1. /\ a \in {Database, Attachments} /\ InstallStep(a) = s /\ s \notin Targets
        /\ From(s) = At("new", a) /\ To(s) = At("active", a) /\ a \in 0 .. 5
        /\ Identity(s) = new
    BY DEF Installs, InstallStep, From, To, Identity, Targets, Database, Attachments, new
  <2>a. a = Installs(s)
    OBVIOUS
  <2> HIDE DEF a
  <2>2. /\ file[From(s)] = IF s < n THEN Absent ELSE new
        /\ file[To(s)] = IF a >= n THEN prev[a] ELSE IF s < n THEN new ELSE Absent
    BY <1>6, <2>1
  <2>3. CASE s < c
    <3>1. file[To(s)] = new
      BY <1>2, <2>1, <2>2, <2>3
    <3> QED
      BY <1>3, <2>1, <2>3, <3>1 DEF StepIsSound, c
  <2>4. CASE s = c /\ n = c + 1
    <3>1. file[To(s)] = new /\ file[From(s)] = Absent /\ i = s
      BY <1>2, <2>1, <2>2, <2>4
    <3> QED
      BY <1>3, <2>1, <2>4, <3>1 DEF StepIsSound, c, i
  <2>5. CASE s >= n
    <3>1. /\ file[From(s)] = new /\ s >= c
          /\ file[To(s)] = Absent \/ (c < 6 /\ file[To(s)] = prev[a])
      BY <1>2, <2>1, <2>2, <2>5
    <3> QED
      BY <1>3, <2>1, <2>a, <3>1 DEF StepIsSound, c, prev
  <2> QED
    BY <1>2, <2>3, <2>4, <2>5
<1>10. \A t \in {Database, Attachments} : Candidate(t) = new
  <2> TAKE t \in {Database, Attachments}
  <2>1. InstallStep(t) < n => ~(t >= n)
    BY <1>2, <1>7 DEF Database, Attachments
  <2> QED
    BY <1>3, <1>6, <2>1 DEF Candidate
<1>11. \A s \in Steps : s \in Targets \/ s \in {6, 7}
  BY DEF Steps, Targets
<1> QED
  BY <1>8, <1>9, <1>10, <1>11 DEF PlanIsSound, new

\* When every rename is done what is installed is the copy and nothing else.
LEMMA InstalledIsAccepted ==
  ASSUME RecoveryInv, pc = "validate" PROVE InstalledIsSound
<1>1. Unfinished(Disk) /\ journal.completed = 8
  BY DEF RecoveryInv, PcInv, PlanPcs, Last
<1>2. PICK n \in Nat : Made(journal, n) /\ file = Layout(journal, n)
  BY <1>1, DuePlan
<1>3. n = 8
  BY <1>1, <1>2 DEF Made, Last
<1>4. \A t \in {Database, Attachments} : ~(t >= 8) /\ InstallStep(t) < 8
  BY DEF InstallStep, Database, Attachments
<1>5. \A t \in Sidecars : t \in Targets /\ ~(t >= 8)
  BY DEF Sidecars, Targets
<1>6. \A t \in {Database, Attachments} : file[At("active", t)] = Copy(journal.op)
  BY <1>2, <1>3, <1>4, LayoutAt
<1>7. \A t \in Sidecars : file[At("active", t)] = Absent
  BY <1>2, <1>3, <1>5, LayoutAt
<1> QED
  BY <1>6, <1>7 DEF InstalledIsSound

=============================================================================
