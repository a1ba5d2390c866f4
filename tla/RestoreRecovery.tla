--------------------------- MODULE RestoreRecovery ---------------------------
(***************************************************************************)
(* The replacement of an installation's database and attachments by the    *)
(* verified copy of a backup.  The work is a plan of eight renames on one  *)
(* file system: six put the files in use away, two install the copy.  A    *)
(* journal beside the database records the rename about to be made and the *)
(* renames that are done, so that whoever opens the database next can      *)
(* finish the plan.  Every rename and every write of the journal is first  *)
(* visible and only durable once its directory has been synchronised: a    *)
(* process may die between the two, and a power failure undoes what was    *)
(* visible and not yet durable.                                            *)
(***************************************************************************)
EXTENDS Naturals

CONSTANTS
  NOps,      \* bound: the replacements a behaviour may issue
  Absent     \* what a place holds when no file is there

ASSUME OpsAssumption == NOps \in Nat

Ops == 1 .. NOps
Gens == 0 .. NOps          \* generation 0 is the installation's own

(* What a file holds: a copy of a generation, perhaps written to since. *)
Copies == [gen : Gens, written : BOOLEAN]
Contents == Copies \cup {Absent}

ASSUME AbsentAssumption == Absent \notin Copies

Copy(o) == [gen |-> o, written |-> FALSE]

(* The files in use: the database, the four files SQLite and the controller *)
(* keep beside it, and the directory of attachments.                        *)
Database == 0
Attachments == 5
Sidecars == 1 .. 4
Targets == 0 .. 5

(* Places: in use, put away, or staged for installation. *)
At(d, t) == [dir |-> d, target |-> t]
Places == {At(d, t) : d \in {"active", "previous"}, t \in Targets}
            \cup {At("new", Database), At("new", Attachments)}

Steps == 0 .. 7
NoStep == 8
Last == 8                  \* value of completed when every rename is done

(* The plan: steps 0-5 put a file in use away, 6 and 7 install the copy. *)
Installs(s) == IF s = 6 THEN Database ELSE Attachments
InstallStep(t) == IF t = Database THEN 6 ELSE 7
From(s) == IF s \in Targets THEN At("active", s) ELSE At("new", Installs(s))
To(s) == IF s \in Targets THEN At("previous", s) ELSE At("active", Installs(s))

Journals == [op : 0 .. NOps, completed : 0 .. Last, intent : 0 .. NoStep,
             verified : BOOLEAN, previous : [Targets -> Contents]]
NoJournal == [op |-> 0, completed |-> 0, intent |-> NoStep, verified |-> FALSE,
              previous |-> [t \in Targets |-> Absent]]

VARIABLES
  file,       \* what each place holds, as processes see it
  journal,    \* the journal in the .restore directory, as processes see it
  archived,   \* operations whose finished .restore directory was put aside
  stable,     \* file, journal and archived as they survive a power failure
  pc          \* where the one process that owns the installation is

diskVars == <<file, journal, archived, stable>>
recoveryVars == <<file, journal, archived, stable, pc>>

Disk == [file |-> file, journal |-> journal, archived |-> archived]
Sync == stable' = Disk

(* The file that a step moves, as the journal identifies it. *)
Identity(s) == IF s \in Targets THEN journal.previous[s] ELSE Copy(journal.op)

(* The check of one step of the plan before it is resumed. *)
StepIsSound(s) ==
  LET source == file[From(s)]
      destination == file[To(s)]
      installed == /\ s \in {Database, Attachments}
                   /\ \/ journal.completed > InstallStep(s)
                      \/ journal.intent = InstallStep(s)
                   /\ source = Copy(journal.op)
      old == /\ s \notin Targets /\ journal.completed < 6
             /\ destination = journal.previous[Installs(s)]
  IN  \/ /\ Identity(s) = Absent
         /\ destination = Absent
         /\ source = Absent \/ installed
      \/ /\ Identity(s) # Absent /\ s < journal.completed
         /\ destination = Identity(s)
      \/ /\ Identity(s) # Absent /\ s = journal.completed /\ journal.intent = s
         /\ source = Absent /\ destination = Identity(s)
      \/ /\ Identity(s) # Absent /\ s >= journal.completed
         /\ source = Identity(s)
         /\ destination = Absent \/ old

(* The copy to install, wherever the interrupted rename left it. *)
Candidate(t) ==
  IF file[At("new", t)] # Absent THEN file[At("new", t)] ELSE file[At("active", t)]

PlanIsSound ==
  /\ \A s \in Steps : StepIsSound(s)
  /\ Candidate(Database) = Copy(journal.op)
  /\ Candidate(Attachments) = Copy(journal.op)

InstalledIsSound ==
  /\ file[At("active", Database)] = Copy(journal.op)
  /\ file[At("active", Attachments)] = Copy(journal.op)
  /\ \A t \in Sidecars : file[At("active", t)] = Absent

NextTurn == IF journal.completed = Last THEN "validate" ELSE "intend"
\* Fault: a plan whose database is installed passes for a finished one.
CheckJournalTrusting ==
  /\ pc = "recover"
  /\ pc' = IF journal.op = 0 \/ journal.completed > 6 THEN "owned"
           ELSE IF PlanIsSound THEN NextTurn ELSE "stopped"
  /\ Sync
  /\ UNCHANGED <<file, journal, archived>>

(* An unfinished plan is resumed after it was checked whole, with every     *)
(* directory synchronised first; a finished one is only made durable.       *)
CheckJournal ==
  /\ pc = "recover"
  /\ \/ journal.op = 0 /\ pc' = "owned" /\ UNCHANGED stable
     \/ journal.op # 0 /\ journal.verified /\ Sync /\ pc' = "owned"
     \/ journal.op # 0 /\ ~journal.verified /\ Sync
        /\ pc' = IF PlanIsSound THEN NextTurn ELSE "stopped"
  /\ UNCHANGED <<file, journal, archived>>

(* One turn of the plan: the intent is written, the file moved, and the     *)
(* completion written, each made durable before the next.                   *)
Intend ==
  /\ pc = "intend"
  /\ journal' = [journal EXCEPT !.intent = journal.completed]
  /\ pc' = "intended"
  /\ UNCHANGED <<file, archived, stable>>

SyncIntent == pc = "intended" /\ Sync /\ pc' = "move" /\ UNCHANGED <<file, journal, archived>>
\* Fault: the file is copied and stays where it was.
MoveByCopy ==
  /\ pc = "move" /\ pc' = "moved"
  /\ file' = [file EXCEPT ![To(journal.completed)] = file[From(journal.completed)]]
  /\ UNCHANGED <<journal, archived, stable>>

Move ==
  LET s == journal.completed
      due == Identity(s) # Absent /\ file[From(s)] # Absent
      clear == file[To(s)] = Absent /\ file[From(s)] = Identity(s)
  IN  /\ pc = "move"
      /\ pc' = IF due /\ ~clear THEN "stopped" ELSE "moved"
      /\ file' = IF due /\ clear
                 THEN [file EXCEPT ![To(s)] = file[From(s)], ![From(s)] = Absent]
                 ELSE file
      /\ UNCHANGED <<journal, archived, stable>>

SyncMove == pc = "moved" /\ Sync /\ pc' = "complete" /\ UNCHANGED <<file, journal, archived>>

Complete ==
  /\ pc = "complete"
  /\ journal' = [journal EXCEPT !.completed = journal.completed + 1, !.intent = NoStep]
  /\ pc' = "completed"
  /\ UNCHANGED <<file, archived, stable>>

SyncComplete ==
  /\ pc = "completed"
  /\ Sync
  /\ pc' = NextTurn
  /\ UNCHANGED <<file, journal, archived>>

(* The installed files are validated where they are, and the marker that    *)
(* ends the operation is written.                                           *)
Validate ==
  /\ pc = "validate"
  /\ pc' = IF InstalledIsSound THEN "verifying" ELSE "stopped"
  /\ journal' = [journal EXCEPT !.verified = InstalledIsSound]
  /\ UNCHANGED <<file, archived, stable>>

SyncVerified == pc = "verifying" /\ Sync /\ pc' = "owned" /\ UNCHANGED <<file, journal, archived>>

(* A new operation is staged in a private directory: the finished           *)
(* operation's directory is renamed aside and the staged one published.     *)
Emptied == [p \in Places |-> IF p.dir = "active" THEN file[p] ELSE Absent]
\* Fault: the finished operation is deleted instead of put aside.
ArchiveForgets ==
  /\ pc = "prepare" /\ pc' = "archived"
  /\ file' = Emptied /\ journal' = NoJournal
  /\ UNCHANGED <<archived, stable>>

Archive ==
  /\ pc = "prepare"
  /\ pc' = IF journal.op # 0 /\ ~journal.verified THEN "stopped" ELSE "archived"
  /\ IF journal.verified
     THEN file' = Emptied /\ journal' = NoJournal /\ archived' = archived \cup {journal.op}
     ELSE UNCHANGED <<file, journal, archived>>
  /\ UNCHANGED stable

SyncArchive == pc = "archived" /\ Sync /\ pc' = "publish" /\ UNCHANGED <<file, journal, archived>>

Publish(o) ==
  /\ pc = "publish"
  /\ journal' = [op |-> o, completed |-> 0, intent |-> NoStep, verified |-> FALSE,
                 previous |-> [t \in Targets |-> file[At("active", t)]]]
  /\ file' = [p \in Places |-> IF p.dir = "new" THEN Copy(o) ELSE Emptied[p]]
  /\ pc' = "published"
  /\ UNCHANGED <<archived, stable>>

SyncPublish == pc = "published" /\ Sync /\ pc' = "recover" /\ UNCHANGED <<file, journal, archived>>

(* The steps of recovery that one process takes under the ownership lock. *)
Recover ==
  \/ CheckJournal
  \/ Intend \/ SyncIntent \/ Move \/ SyncMove \/ Complete \/ SyncComplete
  \/ Validate \/ SyncVerified

Prepare(o) == Archive \/ SyncArchive \/ Publish(o) \/ SyncPublish

(* Whether an operation has ended: its marker is in the active directory or *)
(* in an archived one.                                                      *)
Reached(o) == o \in archived \/ (journal.op = o /\ journal.verified)

RecoveryPcs == {"recover", "intend", "intended", "move", "moved", "complete", "completed",
                "validate", "verifying", "prepare", "archived", "publish", "published",
                "owned", "stopped"}

DiskType(d) ==
  /\ d.file \in [Places -> Contents]
  /\ d.journal \in Journals
  /\ d.archived \in SUBSET Ops

(***************************************************************************)
(* Properties of the replacement                                           *)
(***************************************************************************)

(* While a replacement is unfinished every file that was in use before it   *)
(* exists exactly once, in use or put away, whatever crashed and whatever   *)
(* was undone by a power failure: recoverOwnedRestore overwrites nothing.   *)
PreviousKept ==
  \A d \in {Disk, stable} :
    d.journal.op # 0 /\ ~d.journal.verified =>
      \A t \in Targets :
        LET old == d.journal.previous[t]
        IN  old # Absent =>
              (d.file[At("active", t)] = old) # (d.file[At("previous", t)] = old)
==============================================================================
