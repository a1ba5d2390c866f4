------------------------- MODULE ProjectControlProofs -------------------------
(***************************************************************************)
(* Theorems about ProjectControl for all constants: every live process is   *)
(* the one server its project's entry owns, and a shutdown that reports no  *)
(* failure leaves none.                                                     *)
(***************************************************************************)
EXTENDS ProjectControl, TLAPS

-----------------------------------------------------------------------------
(* Types of the building blocks of actions. *)

\* A pending call is a request.
LEMMA PendingTyped ==
  ASSUME TypeOK, NEW c \in Calls, Pending(c)
  PROVE  call[c] \in Requests /\ Of(c) \in Projects
  BY DEF TypeOK, Pending, Requests, Unused, Done, Stages, Of

\* A call that moves on is still a request.
LEMMA AtTyped ==
  ASSUME TypeOK, NEW c \in Calls, Pending(c), NEW s \in Stages
  PROVE  At(c, s) \in [Calls -> Requests \cup {Unused, Done}]
<1>1. call[c] \in Requests
  BY PendingTyped
<1>2. [call[c] EXCEPT !.stage = s] \in Requests
  BY <1>1 DEF Requests
<1> QED
  BY <1>2 DEF At, TypeOK

\* The end of a call keeps the types of calls and slots.
LEMMA FinishTyped ==
  ASSUME TypeOK, NEW c \in Calls, Finish(c)
  PROVE  call' \in [Calls -> Requests \cup {Unused, Done}] /\ pending' \subseteq Projects
  BY DEF TypeOK, Finish

\* A new entry is an entry.
LEMMA EntryTyped ==
  ASSUME NEW phase \in {"stopped", "starting", "failed"}, NEW w \in Worktrees \cup {NoEntry},
         NEW g \in 0..NCalls
  PROVE  Entry(phase, w, g) \in Runtimes
  BY DEF Entry, Runtimes

\* The entry of a confirmed stop is an entry.
LEMMA ConfirmedTyped ==
  ASSUME TypeOK, NEW p \in Projects
  PROVE  Confirmed(p) \in Runtimes
<1>1. rt[p] \in Runtimes
  BY DEF TypeOK
<1> QED
  BY <1>1, ControlAssumption DEF Confirmed, Runtimes

\* An entry in cleanup is an entry.
LEMMA CleanedTyped ==
  ASSUME TypeOK, NEW p \in Projects, NEW cause \in {"stop", "exit"}
  PROVE  Cleaned(p, cause) \in Runtimes /\ Stopping(p) \in Runtimes
<1>1. rt[p] \in Runtimes
  BY DEF TypeOK
<1>2. Cleaned(p, cause) \in Runtimes /\ Cleaned(p, "stop") \in Runtimes
  BY <1>1 DEF Cleaned, Runtimes
<1> QED
  BY <1>1, <1>2 DEF Stopping

\* A call that begins a stop keeps the types.
LEMMA StopsTyped ==
  ASSUME TypeOK, NEW c \in Calls, Pending(c), NEW held \in BOOLEAN, Stops(c, held)
  PROVE  /\ call' \in [Calls -> Requests \cup {Unused, Done}]
         /\ pending' \subseteq Projects
         /\ rt' \in [Projects -> Runtimes] /\ proc' = proc
<1>1. Of(c) \in Projects
  BY PendingTyped
<1>2. Stopped(Of(c)) \in Stages
  BY DEF Stopped, Stages
<1>3. call' \in [Calls -> Requests \cup {Unused, Done}]
  BY <1>2, AtTyped DEF Stops
<1>4. rt' \in [Projects -> Runtimes]
  BY <1>1, CleanedTyped DEF Stops, TypeOK
<1> QED
  BY <1>1, <1>3, <1>4 DEF Stops, TypeOK

\* A call that goes on to the port check, or is refused, keeps the types.
LEMMA LaunchesTyped ==
  ASSUME TypeOK, NEW c \in Calls, Pending(c), Launches(c)
  PROVE  /\ call' \in [Calls -> Requests \cup {Unused, Done}]
         /\ pending' \subseteq Projects
         /\ rt' = rt /\ proc' = proc
<1>1. Of(c) \in Projects
  BY PendingTyped
<1>2. "port" \in Stages
  BY DEF Stages
<1>3. At(c, "port") \in [Calls -> Requests \cup {Unused, Done}]
  BY <1>2, AtTyped
<1> QED
  BY <1>1, <1>3, FinishTyped DEF Launches, TypeOK, servers

\* Whoever awaited a cleanup is still a call.
LEMMA SettlesTyped ==
  ASSUME TypeOK, NEW p \in Projects, NEW ok \in BOOLEAN, CleanupSettles(p, ok)
  PROVE  /\ call' \in [Calls -> Requests \cup {Unused, Done}]
         /\ pending' \subseteq Projects
         /\ shut' \in Progress
<1>1. ASSUME NEW c \in Calls
      PROVE  Settled(p, ok)[c] \in Requests \cup {Unused, Done}
  <2>1. call[c] \in Requests \cup {Unused, Done}
    BY DEF TypeOK
  <2>2. CASE ~Waiting(c, p)
    BY <2>1, <2>2 DEF Settled
  <2>3. CASE Waiting(c, p)
    <3>1. Pending(c)
      BY <2>3 DEF Waiting, On
    <3>2. At(c, "stopped")[c] \in Requests \cup {Unused, Done}
      BY <3>1, AtTyped DEF Stages
    <3>3. At(c, "timed_out")[c] \in Requests \cup {Unused, Done}
      BY <3>1, AtTyped DEF Stages
    <3> QED
      BY <2>3, <3>2, <3>3 DEF Settled
  <2> QED
    BY <2>2, <2>3
<1>2. call' \in [Calls -> Requests \cup {Unused, Done}]
  BY <1>1 DEF CleanupSettles, Settled
<1>3. shut' \in Progress
  BY DEF CleanupSettles, TypeOK, Progress
<1> QED
  BY <1>2, <1>3 DEF CleanupSettles, TypeOK

-----------------------------------------------------------------------------
(* Every step keeps the types. *)

\* An operation that takes its turn keeps the types.
LEMMA TurnsTyped ==
  ASSUME TypeOK, NEW c \in Calls, Turns(c)
  PROVE  TypeOK'
<1> USE DEF locks, servers, work, control
<1>0. call[c].stage = "queued" /\ Pending(c)
  BY DEF Turns, TurnUnknown, TurnAsksGit, TurnStop, TurnProfile, TurnRemove, TurnRelease,
         TurnClaimed, Turn, Pending, Stages
<1>1. CASE TurnUnknown(c)
  BY <1>1, FinishTyped DEF TurnUnknown, TypeOK
<1>2. CASE TurnAsksGit(c)
  <2>1. At(c, "git") \in [Calls -> Requests \cup {Unused, Done}]
    BY <1>0, AtTyped DEF Stages
  <2> QED
    BY <1>2, <2>1 DEF TurnAsksGit, TypeOK
<1>3. CASE TurnStop(c)
  BY <1>0, <1>3, FinishTyped, StopsTyped DEF TurnStop, TypeOK
<1>4. CASE TurnProfile(c)
  BY <1>0, <1>4, FinishTyped, StopsTyped DEF TurnProfile, TypeOK
<1>5. CASE TurnRemove(c)
  BY <1>0, <1>5, FinishTyped, StopsTyped DEF TurnRemove, TypeOK
<1>6. CASE TurnRelease(c)
  BY <1>6, FinishTyped DEF TurnRelease, TypeOK
<1>7. CASE TurnClaimed(c)
  <2>1. CASE Finish(c) /\ UNCHANGED servers
    BY <1>7, <2>1, FinishTyped DEF TurnClaimed, TypeOK
  <2>2. CASE Stops(c, FALSE)
    BY <1>0, <1>7, <2>2, StopsTyped DEF TurnClaimed, TypeOK
  <2>3. CASE ~(Finish(c) /\ UNCHANGED servers) /\ ~Stops(c, FALSE)
    <3>1. /\ call' = [call EXCEPT ![c].stage = "git",
                ![c].had = IF call[c].kind = "claimed_start"
                           THEN ~(/\ rt[Of(c)].group = 0
                                  /\ rt[Of(c)].phase \notin {"starting", "stopping"})
                           ELSE rt[Of(c)].group # 0]
          /\ UNCHANGED <<pending, locks, servers, work, control>>
      BY <1>7, <2>3 DEF TurnClaimed
    <3>2. call[c] \in Requests
      BY <1>0, PendingTyped
    <3>3. \A b \in BOOLEAN : [call[c] EXCEPT !.stage = "git", !.had = b] \in Requests
      BY <3>2 DEF Requests, Stages
    <3>4. call'[c] \in Requests
      BY <3>1, <3>2, <3>3 DEF Requests, TypeOK
    <3>5. call' \in [Calls -> Requests \cup {Unused, Done}]
      BY <3>1, <3>4 DEF TypeOK
    <3> QED
      BY <3>1, <3>5 DEF TypeOK
  <2> QED
    BY <2>1, <2>2, <2>3
<1> QED
  BY <1>1, <1>2, <1>3, <1>4, <1>5, <1>6, <1>7 DEF Turns

\* An operation to which Git or the cleaner has answered keeps the types.
LEMMA AnswersTyped ==
  ASSUME TypeOK, NEW c \in Calls, Answers(c)
  PROVE  TypeOK'
<1> USE DEF locks, servers, work, control
<1>0. Pending(c)
  BY DEF Answers, GitFails, GitOperate, GitClaimed, GitClaim, GitReserve, GitTest,
         SourceObserved, GitClean, CacheRemoved, Pending, Stages
<1>a. call[c] \in Requests /\ Of(c) \in Projects
  BY <1>0, PendingTyped
<1>b. call[c].worktree \in Worktrees /\ call[c].owner \in Owners
  BY <1>a DEF Requests
<1>1. CASE GitFails(c)
  BY <1>1, FinishTyped DEF GitFails, TypeOK
<1>2. CASE GitOperate(c)
  BY <1>0, <1>2, FinishTyped, StopsTyped, LaunchesTyped DEF GitOperate, TypeOK
<1>3. CASE GitClaimed(c)
  BY <1>0, <1>3, FinishTyped, StopsTyped, LaunchesTyped DEF GitClaimed, TypeOK
<1>4. CASE GitClaim(c)
  <2>1. [id |-> c, owner |-> call[c].owner, worktree |-> call[c].worktree] \in Reservations
    BY <1>b DEF Reservations
  <2>2. resv' \in [Projects -> Reservations \cup {Free}]
    BY <1>4, <1>a, <2>1 DEF GitClaim, TypeOK
  <2>3. selected' \in [Projects -> Worktrees]
    BY <1>4, <1>a, <1>b DEF GitClaim, TypeOK
  <2> QED
    BY <1>0, <1>4, <2>2, <2>3, FinishTyped, StopsTyped, LaunchesTyped DEF GitClaim, TypeOK
<1>5. CASE GitReserve(c)
  <2>1. [id |-> c, owner |-> Human, worktree |-> call[c].worktree] \in Reservations
    BY <1>b DEF Reservations, Owners
  <2> QED
    BY <1>5, <1>a, <2>1, FinishTyped DEF GitReserve, TypeOK
<1>6. CASE GitTest(c)
  <2>1. At(c, "observe") \in [Calls -> Requests \cup {Unused, Done}]
    BY <1>0, AtTyped DEF Stages
  <2> QED
    BY <1>6, <2>1, FinishTyped DEF GitTest, TypeOK
<1>7. CASE SourceObserved(c)
  BY <1>7, <1>a, <1>b, FinishTyped DEF SourceObserved, TypeOK, Places
<1>8. CASE GitClean(c)
  <2>1. At(c, "cleaning") \in [Calls -> Requests \cup {Unused, Done}]
    BY <1>0, AtTyped DEF Stages
  <2> QED
    BY <1>8, <1>a, <1>b, <2>1, FinishTyped DEF GitClean, TypeOK, Places
<1>9. CASE CacheRemoved(c)
  BY <1>9, <1>a, <1>b, FinishTyped DEF CacheRemoved, TypeOK, Places
<1> QED
  BY <1>1, <1>2, <1>3, <1>4, <1>5, <1>6, <1>7, <1>8, <1>9 DEF Answers

\* An operation that starts a server or ends after a stop keeps the types.
LEMMA ServersTyped ==
  ASSUME TypeOK, NEW c \in Calls, Servers(c)
  PROVE  TypeOK'
<1> USE DEF locks, servers, work, control
<1>0. Pending(c)
  BY DEF Servers, AfterStop, PortTaken, PortFree, Healthy, Aborted, Deadline, TimedOut,
         Pending, Stages
<1>a. call[c] \in Requests /\ Of(c) \in Projects
  BY <1>0, PendingTyped
<1>b. call[c].worktree \in Worktrees /\ Target(c) \in Worktrees
  BY <1>a DEF Requests, Target, TypeOK
<1>c. rt[Of(c)] \in Runtimes
  BY <1>a DEF TypeOK
<1>1. CASE AfterStop(c)
  <2>1. At(c, "git") \in [Calls -> Requests \cup {Unused, Done}]
    BY <1>0, AtTyped DEF Stages
  <2>2. UNCHANGED <<work, control>>
    BY <1>1 DEF AfterStop
  <2>3. CASE /\ call[c].kind \in {"stop", "claimed_stop"}
             /\ Finish(c) /\ UNCHANGED <<locks, servers>>
    BY <2>2, <2>3, FinishTyped DEF TypeOK
  <2>4. CASE /\ Finish(c) /\ reg' = reg \ {Of(c)} /\ resv' = [resv EXCEPT ![Of(c)] = Free]
             /\ UNCHANGED <<selected, servers>>
    BY <1>a, <2>2, <2>4, FinishTyped DEF TypeOK
  <2>5. CASE call' = At(c, "git") /\ UNCHANGED <<pending, locks, servers>>
    BY <2>1, <2>2, <2>5 DEF TypeOK
  <2>6. CASE /\ Launches(c)
             /\ selected' = IF call[c].kind = "restart" THEN selected
                            ELSE [selected EXCEPT ![Of(c)] = call[c].worktree]
             /\ UNCHANGED <<resv, reg>>
    BY <1>0, <1>a, <1>b, <2>2, <2>6, LaunchesTyped DEF TypeOK
  <2>7. CASE /\ IF InForce(c) THEN Launches(c) ELSE Finish(c) /\ UNCHANGED servers
             /\ UNCHANGED locks
    BY <1>0, <2>2, <2>7, LaunchesTyped, FinishTyped DEF TypeOK
  <2>8. CASE /\ Finish(c) /\ UNCHANGED <<resv, reg, servers>>
             /\ selected' = IF call[c].kind = "switch"
                            THEN [selected EXCEPT ![Of(c)] = call[c].worktree] ELSE selected
    BY <1>a, <1>b, <2>2, <2>8, FinishTyped DEF TypeOK
  <2> QED
    BY <1>1, <2>3, <2>4, <2>5, <2>6, <2>7, <2>8 DEF AfterStop
<1>2. CASE PortTaken(c)
  <2>1. rt' \in [Projects -> Runtimes]
    BY <1>2, <1>a, <1>b, EntryTyped, ControlAssumption DEF PortTaken, TypeOK
  <2> QED
    BY <1>2, <2>1, FinishTyped DEF PortTaken, TypeOK
<1>3. CASE PortFree(c)
  <2>1. CASE MaySpawn(c)
    <3>1. rt' \in [Projects -> Runtimes]
      BY <1>3, <1>a, <1>b, <2>1, EntryTyped DEF PortFree, TypeOK, Calls
    <3>2. proc' \in [Calls -> Groups \cup {NoGroup}]
      BY <1>3, <1>a, <1>b, <2>1 DEF PortFree, TypeOK, Groups
    <3>3. At(c, "health") \in [Calls -> Requests \cup {Unused, Done}]
      BY <1>0, AtTyped DEF Stages
    <3> QED
      BY <1>3, <2>1, <3>1, <3>2, <3>3 DEF PortFree, TypeOK
  <2>2. CASE ~MaySpawn(c)
    BY <1>3, <2>2, FinishTyped DEF PortFree, TypeOK
  <2> QED
    BY <2>1, <2>2
<1>4. CASE Healthy(c)
  <2>1. rt' \in [Projects -> Runtimes]
    BY <1>4, <1>a, <1>c DEF Healthy, TypeOK, Runtimes
  <2> QED
    BY <1>4, <2>1, FinishTyped DEF Healthy, TypeOK
<1>5. CASE Aborted(c)
  <2>1. At(c, "abort") \in [Calls -> Requests \cup {Unused, Done}]
    BY <1>0, AtTyped DEF Stages
  <2>2. [rt EXCEPT ![Of(c)] = Stopping(Of(c))] \in [Projects -> Runtimes]
    BY <1>a, CleanedTyped DEF TypeOK
  <2> QED
    BY <1>5, <2>1, <2>2, FinishTyped DEF Aborted, TypeOK
<1>6. CASE Deadline(c)
  <2>1. At(c, "late") \in [Calls -> Requests \cup {Unused, Done}]
    BY <1>0, AtTyped DEF Stages
  <2>2. [rt EXCEPT ![Of(c)] = Stopping(Of(c))] \in [Projects -> Runtimes]
    BY <1>a, CleanedTyped DEF TypeOK
  <2> QED
    BY <1>6, <2>1, <2>2 DEF Deadline, TypeOK
<1>7. CASE TimedOut(c)
  <2>1. rt' \in [Projects -> Runtimes]
    BY <1>7, <1>a, <1>c DEF TimedOut, TypeOK, Runtimes
  <2> QED
    BY <1>7, <2>1, FinishTyped DEF TimedOut, TypeOK
<1> QED
  BY <1>1, <1>2, <1>3, <1>4, <1>5, <1>6, <1>7 DEF Servers

\* The end of a cleanup and the events of processes keep the types.
LEMMA EventsTyped ==
  ASSUME TypeOK, GroupKnown,
         \/ \E p \in Projects : CleanupSettled(p)
         \/ \E g \in Calls : LeaderExit(g) \/ MembersExit(g) \/ SpawnError(g)
  PROVE  TypeOK'
<1> USE DEF locks, servers, work, control
<1>1. ASSUME NEW p \in Projects, CleanupEnds(p)
      PROVE  TypeOK'
  <2>1. rt' \in [Projects -> Runtimes]
    BY <1>1, ConfirmedTyped DEF CleanupEnds, TypeOK
  <2>2. proc' \in [Calls -> Groups \cup {NoGroup}]
    <3>1. CASE rt[p].group = 0
      BY <1>1, <3>1 DEF CleanupEnds, TypeOK
    <3>2. CASE rt[p].group # 0
      <4> DEFINE g == rt[p].group
      <4>1. g \in Calls
        BY <3>2 DEF TypeOK, Runtimes, Calls
      <4>2. proc[g] \in Groups
        BY <3>2, <4>1 DEF GroupKnown, TypeOK, NoGroup
      <4>3. [proc[g] EXCEPT !.state = "gone"] \in Groups
        BY <4>2 DEF Groups
      <4> QED
        BY <1>1, <3>2, <4>1, <4>3 DEF CleanupEnds, TypeOK
    <3> QED
      BY <3>1, <3>2
  <2> QED
    BY <1>1, <2>1, <2>2, SettlesTyped DEF CleanupEnds, TypeOK
<1>2. ASSUME NEW p \in Projects, CleanupUnconfirmed(p)
      PROVE  TypeOK'
  <2>1. rt[p] \in Runtimes
    BY DEF TypeOK
  <2>2. rt' \in [Projects -> Runtimes]
    BY <1>2, <2>1 DEF CleanupUnconfirmed, TypeOK, Runtimes
  <2> QED
    BY <1>2, <2>2, SettlesTyped DEF CleanupUnconfirmed, TypeOK
<1>3. ASSUME NEW g \in Calls, proc[g].state \in {"unborn", "leader", "lingering"}
      PROVE  /\ proc[g] \in Groups /\ proc[g].project \in Projects
             /\ \A s \in {"lingering", "gone"} : [proc[g] EXCEPT !.state = s] \in Groups
  BY <1>3 DEF TypeOK, Groups, NoGroup
<1>4. ASSUME NEW g \in Calls, LeaderExit(g)
      PROVE  TypeOK'
  <2>1. proc[g].project \in Projects
    BY <1>3, <1>4 DEF LeaderExit
  <2>2. [Cleaned(proc[g].project, "exit") EXCEPT !.child = FALSE] \in Runtimes
    BY <2>1, CleanedTyped DEF Runtimes
  <2>3. rt' \in [Projects -> Runtimes]
    BY <1>4, <2>1, <2>2 DEF LeaderExit, TypeOK
  <2>4. proc' \in [Calls -> Groups \cup {NoGroup}]
    BY <1>3, <1>4 DEF LeaderExit, TypeOK
  <2> QED
    BY <1>4, <2>3, <2>4 DEF LeaderExit, TypeOK
<1>5. ASSUME NEW g \in Calls, MembersExit(g)
      PROVE  TypeOK'
  BY <1>3, <1>5 DEF MembersExit, TypeOK
<1>6. ASSUME NEW g \in Calls, SpawnError(g)
      PROVE  TypeOK'
  <2>1. proc[g].project \in Projects /\ rt[proc[g].project] \in Runtimes
    BY <1>3, <1>6 DEF SpawnError, TypeOK
  <2>2. rt' \in [Projects -> Runtimes]
    <3>1. \A e \in Runtimes : [e EXCEPT !.phase = "failed"] \in Runtimes
      BY DEF Runtimes
    <3>2. \A e \in Runtimes : [e EXCEPT !.group = 0] \in Runtimes
      BY ControlAssumption DEF Runtimes
    <3>3. \A e \in Runtimes : [e EXCEPT !.child = FALSE] \in Runtimes
      BY DEF Runtimes
    <3> QED
      BY <1>6, <2>1, <3>1, <3>2, <3>3 DEF SpawnError, TypeOK
  <2>3. proc' \in [Calls -> Groups \cup {NoGroup}]
    BY <1>3, <1>6 DEF SpawnError, TypeOK
  <2> QED
    BY <1>6, <2>2, <2>3 DEF SpawnError, TypeOK
<1> QED
  BY <1>1, <1>2, <1>4, <1>5, <1>6 DEF CleanupSettled

\* Every step keeps the types.
LEMMA TypeStep ==
  ASSUME TypeOK, GroupKnown, [Next]_vars
  PROVE  TypeOK'
<1> USE DEF locks, servers, work, control
<1>1. ASSUME NEW c \in Calls, NEW k \in Kinds, NEW p \in Projects, NEW w \in Worktrees,
             NEW a \in Owners, Arrives(c, k, p, w, a)
      PROVE  TypeOK'
  <2>1. resv[p] # Free => resv[p].id \in 0..NCalls
    BY DEF TypeOK, Reservations, Calls
  <2>2. [kind |-> k, stage |-> "queued", project |-> p, worktree |-> w, owner |-> a,
         claim |-> IF k \in ClaimedKinds THEN resv[p].id ELSE 0, had |-> FALSE] \in Requests
    BY <1>1, <2>1, ControlAssumption DEF Arrives, Requests, Stages
  <2> QED
    BY <1>1, <2>2 DEF Arrives, TypeOK
<1>2. ASSUME NEW p \in Projects, ClaimLapses(p)
      PROVE  TypeOK'
  BY <1>2 DEF ClaimLapses, TypeOK
<1>3. ASSUME NEW n \in Limits, SetCapacity(n)
      PROVE  TypeOK'
  BY <1>3 DEF SetCapacity, TypeOK
<1>4. ASSUME NEW place \in Places, ScanStarts(place) \/ ScanEnds(place) \/ TestsEnd(place)
      PROVE  TypeOK'
  BY <1>4 DEF ScanStarts, ScanEnds, TestsEnd, TypeOK
<1>5. CASE CloseAdmission
  BY <1>5 DEF CloseAdmission, TypeOK
<1>6. CASE Shutdown
  <2>1. rt' \in [Projects -> Runtimes]
    BY <1>6, CleanedTyped DEF Shutdown
  <2>2. shut' \in Progress
    BY <1>6 DEF Shutdown, Progress
  <2> QED
    BY <1>6, <2>1, <2>2 DEF Shutdown, TypeOK
<1>7. CASE ShutdownEnds
  BY <1>7 DEF ShutdownEnds, TypeOK, Progress
<1>8. CASE UNCHANGED vars
  BY <1>8 DEF vars, TypeOK
<1> QED
  BY <1>1, <1>2, <1>3, <1>4, <1>5, <1>6, <1>7, <1>8, TurnsTyped, AnswersTyped, ServersTyped,
     EventsTyped DEF Next, Continues

-----------------------------------------------------------------------------
(* What a step does to the calls and the servers. *)

\* A pending call goes on or ends; it keeps its project and leaves the queue.
Proceeds(c) ==
  /\ Pending(c)
  /\ \/ call'[c] = Done
     \/ /\ call'[c] \in Requests /\ call'[c].project = call[c].project
        /\ call'[c].stage # "queued"
\* It is the only call that moves.
Moves(c) == Proceeds(c) /\ \A d \in Calls : d # c => call'[d] = call[d]
\* Only the head of a chain leaves the queue.
ChainStep == \A d \in Calls :
  \/ call'[d] = call[d]
  \/ Proceeds(d) /\ (call[d].stage = "queued" => Turn(d))
\* Whoever checks the port found no group.
PortStep == \A d \in Calls :
  call'[d].stage = "port" =>
    call'[d].project = call[d].project /\ rt[call[d].project].group = 0
\* No entry gains a group and no group comes to life; a living one stays owned.
Shrinks ==
  /\ \A p \in Projects : rt'[p].group \in {0, rt[p].group}
  /\ \A p \in Projects : rt'[p].group # 0 => rt'[p].worktree = rt[p].worktree
  /\ \A g \in Calls : proc[g].state # "none" => proc'[g].state # "none"
  /\ \A g \in Calls : Alive(g)' =>
       /\ Alive(g) /\ proc'[g].project = proc[g].project
       /\ proc'[g].worktree = proc[g].worktree
       /\ rt[proc[g].project].group = g => rt'[proc[g].project].group = g
Quiet == ChainStep /\ PortStep /\ Shrinks /\ shut' = shut /\ closing' = closing

\* A call that goes on to a stage moves alone.
LEMMA AtMoves ==
  ASSUME TypeOK, NEW c \in Calls, Pending(c), NEW s \in Stages \ {"queued"},
         call' = At(c, s)
  PROVE  Moves(c) /\ call'[c].stage = s /\ call'[c].project = call[c].project
<1>1. call[c] \in Requests
  BY PendingTyped
<1>2. [call[c] EXCEPT !.stage = s] \in Requests
  BY <1>1 DEF Requests
<1>3. call'[c] = [call[c] EXCEPT !.stage = s]
  BY DEF At, TypeOK
<1>4. call'[c].stage = s /\ call'[c].project = call[c].project
  BY <1>1, <1>3 DEF Requests
<1>5. \A d \in Calls : d # c => call'[d] = call[d]
  BY DEF At, TypeOK
<1> QED
  BY <1>2, <1>3, <1>4, <1>5 DEF Moves, Proceeds

\* A call that ends moves alone.
LEMMA FinishMoves ==
  ASSUME TypeOK, NEW c \in Calls, Pending(c), Finish(c)
  PROVE  Moves(c) /\ call'[c] = Done
  BY DEF Finish, TypeOK, Moves, Proceeds

\* One call that moves, out of the queue only in its turn, is a step of its chain.
LEMMA MovesChain ==
  ASSUME NEW c \in Calls, Moves(c), call[c].stage = "queued" => Turn(c)
  PROVE  ChainStep
  BY DEF Moves, ChainStep

\* The check of the port is left alone when the one call that moves is elsewhere.
LEMMA MovesPort ==
  ASSUME TypeOK, PortIsFree, NEW c \in Calls, Moves(c), call'[c].stage # "port"
  PROVE  PortStep
  BY DEF Moves, PortStep, PortIsFree, Of

\* A cleanup that begins takes no group away.
LEMMA StoppingKeeps ==
  ASSUME TypeOK, NEW p \in Projects
  PROVE  Stopping(p).group = rt[p].group /\ Stopping(p).worktree = rt[p].worktree
<1>1. rt[p] \in Runtimes
  BY DEF TypeOK
<1> QED
  BY <1>1 DEF Stopping, Cleaned, Runtimes

\* Entries that keep their groups and worktrees, and no change of processes.
LEMMA KeepsShrinks ==
  ASSUME TypeOK, proc' = proc,
         \A p \in Projects : rt'[p].group = rt[p].group /\
           (rt[p].group # 0 => rt'[p].worktree = rt[p].worktree)
  PROVE  Shrinks
<1>1. \A g \in Calls : Alive(g)' => Alive(g)
  BY DEF Alive
<1>2. \A g \in Calls : Alive(g) => proc[g].project \in Projects
  BY DEF Alive, TypeOK, Groups, NoGroup
<1>3. \A g \in Calls : Alive(g)' =>
        /\ Alive(g) /\ proc'[g].project = proc[g].project
        /\ proc'[g].worktree = proc[g].worktree
        /\ rt[proc[g].project].group = g => rt'[proc[g].project].group = g
  BY <1>1, <1>2
<1>4. \A p \in Projects : rt'[p].group \in {0, rt[p].group}
  OBVIOUS
<1>5. \A p \in Projects : rt'[p].group # 0 => rt'[p].worktree = rt[p].worktree
  OBVIOUS
<1>6. \A g \in Calls : proc[g].state # "none" => proc'[g].state # "none"
  OBVIOUS
<1> QED
  BY <1>3, <1>4, <1>5, <1>6 DEF Shrinks

\* A stop that begins is quiet.
LEMMA StopsQuiet ==
  ASSUME TypeOK, PortIsFree, NEW c \in Calls, Pending(c), NEW held \in BOOLEAN,
         Stops(c, held)
  PROVE  Moves(c) /\ PortStep /\ Shrinks
<1>1. Of(c) \in Projects
  BY PendingTyped
<1>2. Stopped(Of(c)) \in Stages \ {"queued"} /\ Stopped(Of(c)) # "port"
  BY DEF Stopped, Stages
<1>3. Moves(c) /\ call'[c].stage # "port"
  BY <1>2, AtMoves DEF Stops
<1>4. PortStep
  BY <1>3, MovesPort
<1>5. \A p \in Projects : rt'[p].group = rt[p].group /\ rt'[p].worktree = rt[p].worktree
  BY <1>1, StoppingKeeps DEF Stops, TypeOK
<1> QED
  BY <1>3, <1>4, <1>5, KeepsShrinks DEF Stops

\* A call that goes on to the port check is quiet.
LEMMA LaunchesQuiet ==
  ASSUME TypeOK, PortIsFree, NEW c \in Calls, Pending(c), Launches(c)
  PROVE  Moves(c) /\ PortStep /\ Shrinks
<1>1. rt' = rt /\ proc' = proc
  BY DEF Launches, servers
<1>2. Shrinks
  BY <1>1, KeepsShrinks
<1>3. CASE Finish(c)
  BY <1>2, <1>3, FinishMoves, MovesPort DEF Done
<1>4. CASE ~Finish(c)
  <2>1. call' = At(c, "port") /\ rt[Of(c)].group = 0
    BY <1>4 DEF Launches
  <2>2. Moves(c) /\ call'[c].project = call[c].project
    BY <2>1, AtMoves DEF Stages
  <2>3. PortStep
    BY <2>1, <2>2 DEF PortStep, PortIsFree, Moves, Of
  <2> QED
    BY <1>2, <2>2, <2>3
<1> QED
  BY <1>3, <1>4

\* A call that ends while the servers stay as they are is quiet.
LEMMA FinishQuiet ==
  ASSUME TypeOK, PortIsFree, NEW c \in Calls, Pending(c), Finish(c), UNCHANGED servers
  PROVE  Moves(c) /\ PortStep /\ Shrinks
  BY FinishMoves, MovesPort, KeepsShrinks DEF Done, servers

-----------------------------------------------------------------------------
(* Which steps are quiet. *)

\* An operation that takes its turn is quiet.
LEMMA TurnsQuiet ==
  ASSUME TypeOK, PortIsFree, NEW c \in Calls, Turns(c)
  PROVE  Quiet
<1>0. Turn(c) /\ Pending(c) /\ shut' = shut /\ closing' = closing
  BY DEF Turns, TurnUnknown, TurnAsksGit, TurnStop, TurnProfile, TurnRemove, TurnRelease,
         TurnClaimed, Turn, Pending, Stages, control
<1> SUFFICES Moves(c) /\ PortStep /\ Shrinks
  BY <1>0, MovesChain DEF Quiet
<1>1. CASE TurnUnknown(c)
  BY <1>0, <1>1, FinishQuiet DEF TurnUnknown
<1>2. CASE TurnAsksGit(c)
  <2>1. Moves(c) /\ call'[c].stage # "port"
    BY <1>0, <1>2, AtMoves DEF TurnAsksGit, Stages
  <2> QED
    BY <1>2, <2>1, MovesPort, KeepsShrinks DEF TurnAsksGit, servers
<1>3. CASE TurnStop(c)
  BY <1>0, <1>3, FinishQuiet, StopsQuiet DEF TurnStop
<1>4. CASE TurnProfile(c)
  BY <1>0, <1>4, FinishQuiet, StopsQuiet DEF TurnProfile
<1>5. CASE TurnRemove(c)
  BY <1>0, <1>5, FinishQuiet, StopsQuiet DEF TurnRemove
<1>6. CASE TurnRelease(c)
  BY <1>0, <1>6, FinishQuiet DEF TurnRelease
<1>7. CASE TurnClaimed(c)
  <2>1. CASE Finish(c) /\ UNCHANGED servers
    BY <1>0, <2>1, FinishQuiet
  <2>2. CASE Stops(c, FALSE)
    BY <1>0, <2>2, StopsQuiet
  <2>3. CASE ~(Finish(c) /\ UNCHANGED servers) /\ ~Stops(c, FALSE)
    <3>1. PICK b \in BOOLEAN :
            call' = [call EXCEPT ![c].stage = "git", ![c].had = b]
            /\ UNCHANGED <<pending, servers>>
      BY <1>7, <2>3 DEF TurnClaimed
    <3>2. call[c] \in Requests
      BY <1>0, PendingTyped
    <3>3. /\ [[call[c] EXCEPT !.stage = "git"] EXCEPT !.had = b] \in Requests
          /\ [[call[c] EXCEPT !.stage = "git"] EXCEPT !.had = b].stage = "git"
          /\ [[call[c] EXCEPT !.stage = "git"] EXCEPT !.had = b].project = call[c].project
      BY <3>2 DEF Requests, Stages
    <3>4. /\ call'[c] = [[call[c] EXCEPT !.stage = "git"] EXCEPT !.had = b]
          /\ \A d \in Calls : d # c => call'[d] = call[d]
      BY <3>1, <3>2 DEF TypeOK, Requests
    <3>5. Moves(c) /\ call'[c].stage # "port"
      BY <1>0, <3>3, <3>4 DEF Moves, Proceeds
    <3> QED
      BY <3>1, <3>5, MovesPort, KeepsShrinks DEF servers
  <2> QED
    BY <2>1, <2>2, <2>3
<1> QED
  BY <1>1, <1>2, <1>3, <1>4, <1>5, <1>6, <1>7 DEF Turns

\* An operation to which Git or the cleaner has answered is quiet.
LEMMA AnswersQuiet ==
  ASSUME TypeOK, PortIsFree, NEW c \in Calls, Answers(c)
  PROVE  Quiet
<1>0. Pending(c) /\ call[c].stage # "queued" /\ shut' = shut /\ closing' = closing
  BY DEF Answers, GitFails, GitOperate, GitClaimed, GitClaim, GitReserve, GitTest,
         SourceObserved, GitClean, CacheRemoved, Pending, Stages, control
<1> SUFFICES Moves(c) /\ PortStep /\ Shrinks
  BY <1>0, MovesChain DEF Quiet
<1>1. CASE GitFails(c) \/ GitReserve(c) \/ SourceObserved(c) \/ CacheRemoved(c)
  BY <1>0, <1>1, FinishQuiet DEF GitFails, GitReserve, SourceObserved, CacheRemoved
<1>2. CASE GitOperate(c)
  BY <1>0, <1>2, FinishQuiet, StopsQuiet, LaunchesQuiet DEF GitOperate
<1>3. CASE GitClaimed(c)
  BY <1>0, <1>3, FinishQuiet, StopsQuiet, LaunchesQuiet DEF GitClaimed
<1>4. CASE GitClaim(c)
  BY <1>0, <1>4, FinishQuiet, StopsQuiet, LaunchesQuiet DEF GitClaim
<1>5. CASE GitTest(c)
  <2>1. ASSUME call' = At(c, "observe")
        PROVE  Moves(c) /\ call'[c].stage # "port"
    BY <1>0, <2>1, AtMoves DEF Stages
  <2> QED
    BY <1>0, <1>5, <2>1, FinishQuiet, MovesPort, KeepsShrinks DEF GitTest, servers
<1>6. CASE GitClean(c)
  <2>1. ASSUME call' = At(c, "cleaning")
        PROVE  Moves(c) /\ call'[c].stage # "port"
    BY <1>0, <2>1, AtMoves DEF Stages
  <2> QED
    BY <1>0, <1>6, <2>1, FinishQuiet, MovesPort, KeepsShrinks DEF GitClean, servers
<1> QED
  BY <1>1, <1>2, <1>3, <1>4, <1>5, <1>6 DEF Answers

\* An operation that starts a server is quiet but for the spawn itself.
LEMMA ServersQuiet ==
  ASSUME TypeOK, PortIsFree, NEW c \in Calls, Servers(c), ~(PortFree(c) /\ MaySpawn(c))
  PROVE  Quiet
<1>0. Pending(c) /\ call[c].stage # "queued" /\ shut' = shut /\ closing' = closing
  BY DEF Servers, AfterStop, PortTaken, PortFree, Healthy, Aborted, Deadline, TimedOut,
         Pending, Stages, control
<1> SUFFICES Moves(c) /\ PortStep /\ Shrinks
  BY <1>0, MovesChain DEF Quiet
<1>a. Of(c) \in Projects
  BY <1>0, PendingTyped
<1>b. rt[Of(c)] \in Runtimes
  BY <1>a DEF TypeOK
<1>f. ASSUME Finish(c), proc' = proc,
             \A p \in Projects : rt'[p].group = rt[p].group /\
               (rt[p].group # 0 => rt'[p].worktree = rt[p].worktree)
      PROVE  Moves(c) /\ PortStep /\ Shrinks
  BY <1>0, <1>f, FinishMoves, MovesPort, KeepsShrinks DEF Done
<1>1. CASE AfterStop(c)
  <2>1. ASSUME call' = At(c, "git"), UNCHANGED servers
        PROVE  Moves(c) /\ PortStep /\ Shrinks
    <3>1. Moves(c) /\ call'[c].stage # "port"
      BY <1>0, <2>1, AtMoves DEF Stages
    <3> QED
      BY <2>1, <3>1, MovesPort, KeepsShrinks DEF servers
  <2> QED
    BY <1>0, <1>1, <2>1, FinishQuiet, LaunchesQuiet DEF AfterStop
<1>2. CASE PortTaken(c)
  <2>1. rt[Of(c)].group = 0 /\ rt'[Of(c)].group = 0
    BY <1>2, <1>a DEF PortTaken, PortIsFree, Entry, TypeOK
  <2>2. \A p \in Projects : p # Of(c) => rt'[p] = rt[p]
    BY <1>2, <1>a DEF PortTaken, TypeOK
  <2> QED
    BY <1>2, <1>f, <2>1, <2>2 DEF PortTaken
<1>3. CASE PortFree(c)
  BY <1>0, <1>3, FinishQuiet DEF PortFree
<1>4. CASE Healthy(c) \/ TimedOut(c)
  <2>1. \A p \in Projects : rt'[p].group = rt[p].group /\ rt'[p].worktree = rt[p].worktree
    BY <1>4, <1>a, <1>b DEF Healthy, TimedOut, TypeOK, Runtimes
  <2> QED
    BY <1>4, <1>f, <2>1 DEF Healthy, TimedOut, servers
<1>5. CASE Aborted(c) \/ Deadline(c)
  <2>1. CASE Finish(c) /\ UNCHANGED servers
    BY <1>0, <2>1, FinishQuiet
  <2>2. CASE ~(Finish(c) /\ UNCHANGED servers)
    <3>1. /\ call' = At(c, "abort") \/ call' = At(c, "late")
          /\ rt' = [rt EXCEPT ![Of(c)] = Stopping(Of(c))] /\ proc' = proc
      BY <1>5, <2>2 DEF Aborted, Deadline
    <3>2. Moves(c) /\ call'[c].stage # "port"
      BY <1>0, <3>1, AtMoves DEF Stages
    <3>3. \A p \in Projects :
            rt'[p].group = rt[p].group /\ rt'[p].worktree = rt[p].worktree
      BY <1>a, <3>1, StoppingKeeps DEF TypeOK
    <3> QED
      BY <3>1, <3>2, <3>3, MovesPort, KeepsShrinks
  <2> QED
    BY <2>1, <2>2
<1> QED
  BY <1>1, <1>2, <1>3, <1>4, <1>5 DEF Servers

\* The end of a cleanup moves only calls that awaited it.
LEMMA SettlesChain ==
  ASSUME TypeOK, PortIsFree, NEW p \in Projects, NEW ok \in BOOLEAN, CleanupSettles(p, ok)
  PROVE  ChainStep /\ PortStep
<1>1. ASSUME NEW c \in Calls
      PROVE  \/ call'[c] = call[c]
             \/ Proceeds(c) /\ call[c].stage # "queued" /\ call'[c].stage # "port"
  <2>1. CASE ~Waiting(c, p)
    BY <2>1 DEF CleanupSettles, Settled
  <2>2. CASE Waiting(c, p)
    <3>1. Pending(c) /\ call[c].stage # "queued" /\ call[c] \in Requests
      BY <2>2, PendingTyped DEF Waiting, On
    <3>2. \A s \in Stages : /\ [call[c] EXCEPT !.stage = s] \in Requests
                           /\ [call[c] EXCEPT !.stage = s].stage = s
                           /\ [call[c] EXCEPT !.stage = s].project = call[c].project
      BY <3>1 DEF Requests
    <3>3. \A s \in Stages : At(c, s)[c] = [call[c] EXCEPT !.stage = s]
      BY DEF At, TypeOK
    <3>4. call'[c] \in {At(c, "stopped")[c], At(c, "timed_out")[c], Done}
      BY <2>2 DEF CleanupSettles, Settled
    <3>5. {"stopped", "timed_out"} \subseteq Stages
      BY DEF Stages
    <3>6. CASE call'[c] = Done
      BY <3>1, <3>6 DEF Proceeds, Done
    <3>7. CASE call'[c] # Done
      <4>1. PICK s \in {"stopped", "timed_out"} : call'[c] = [call[c] EXCEPT !.stage = s]
        BY <3>3, <3>4, <3>5, <3>7
      <4>2. /\ call'[c] \in Requests /\ call'[c].stage = s
            /\ call'[c].project = call[c].project
        BY <3>2, <3>5, <4>1
      <4> QED
        BY <3>1, <4>2 DEF Proceeds
    <3> QED
      BY <3>6, <3>7
  <2> QED
    BY <2>1, <2>2
<1> QED
  BY <1>1 DEF ChainStep, PortStep, PortIsFree, Of

\* The end of a cleanup, confirmed or not, only takes groups away.
LEMMA CleanupShrinks ==
  ASSUME TypeOK, GroupKnown, NEW p \in Projects, CleanupSettled(p)
  PROVE  Shrinks /\ \A q \in Projects : q # p => rt'[q] = rt[q]
<1>1. rt[p] \in Runtimes
  BY DEF TypeOK
<1>2. \A q \in Projects : q # p => rt'[q] = rt[q]
  BY DEF CleanupSettled, CleanupEnds, CleanupUnconfirmed, TypeOK
<1>3. CASE CleanupUnconfirmed(p)
  <2>1. rt'[p].group = rt[p].group /\ rt'[p].worktree = rt[p].worktree
    BY <1>1, <1>3 DEF CleanupUnconfirmed, TypeOK, Runtimes
  <2> QED
    BY <1>2, <1>3, <2>1, KeepsShrinks DEF CleanupUnconfirmed
<1>4. CASE CleanupEnds(p)
  <2> DEFINE h == rt[p].group
  <2>1. rt'[p].group = 0
    BY <1>4 DEF CleanupEnds, Confirmed, TypeOK
  <2>2. CASE h = 0
    BY <1>2, <1>4, <2>1, <2>2, KeepsShrinks DEF CleanupEnds
  <2>3. CASE h # 0
    <3>1. h \in Calls /\ proc[h] \in Groups
      BY <1>1, <2>3 DEF GroupKnown, Runtimes, Calls, TypeOK, NoGroup
    <3>2. proc'[h].state = "gone" /\ \A g \in Calls : g # h => proc'[g] = proc[g]
      BY <1>4, <2>3, <3>1 DEF CleanupEnds, TypeOK, Groups
    <3>3. \A g \in Calls : Alive(g)' => Alive(g) /\ g # h /\ proc'[g] = proc[g]
      BY <3>2 DEF Alive
    <3>4. \A g \in Calls : Alive(g) => proc[g].project \in Projects
      BY DEF Alive, TypeOK, Groups, NoGroup
    <3>5. \A g \in Calls : Alive(g)' =>
            /\ Alive(g) /\ proc'[g].project = proc[g].project
            /\ proc'[g].worktree = proc[g].worktree
            /\ rt[proc[g].project].group = g => rt'[proc[g].project].group = g
      BY <1>2, <3>3, <3>4
    <3>6. \A g \in Calls : proc[g].state # "none" => proc'[g].state # "none"
      BY <3>2
    <3>7. \A q \in Projects : rt'[q].group \in {0, rt[q].group}
      BY <1>2, <2>1
    <3>8. \A q \in Projects : rt'[q].group # 0 => rt'[q].worktree = rt[q].worktree
      BY <1>2, <2>1
    <3> QED
      BY <1>2, <3>5, <3>6, <3>7, <3>8 DEF Shrinks
  <2> QED
    BY <2>2, <2>3
<1> QED
  BY <1>2, <1>3, <1>4 DEF CleanupSettled

\* An exit or a failed spawn only takes life away.
LEMMA ExitsQuiet ==
  ASSUME TypeOK, PortIsFree, NEW g \in Calls, LeaderExit(g) \/ MembersExit(g) \/ SpawnError(g)
  PROVE  Quiet
<1> DEFINE p == proc[g].project
<1>1. proc[g] \in Groups /\ p \in Projects
  BY DEF LeaderExit, MembersExit, SpawnError, TypeOK, Groups, NoGroup
<1>2. rt[p] \in Runtimes
  BY <1>1 DEF TypeOK
<1>3. PICK s \in {"lingering", "gone"} :
        /\ proc' = [proc EXCEPT ![g].state = s]
        /\ s = "gone" \/ LeaderExit(g)
  BY DEF LeaderExit, MembersExit, SpawnError
<1>4. /\ proc'[g] = [proc[g] EXCEPT !.state = s]
      /\ \A h \in Calls : h # g => proc'[h] = proc[h]
  BY <1>3 DEF TypeOK
<1>5. /\ proc'[g].state = s /\ proc'[g].project = p
      /\ proc'[g].worktree = proc[g].worktree
  BY <1>1, <1>4 DEF Groups
<1>6. \A q \in Projects : q # p => rt'[q] = rt[q]
  BY <1>1 DEF LeaderExit, MembersExit, SpawnError, TypeOK
<1>7. rt[p].group # g => rt'[p] = rt[p]
  BY <1>1 DEF LeaderExit, MembersExit, SpawnError
<1>8. \/ rt'[p].group = rt[p].group /\ rt'[p].worktree = rt[p].worktree
      \/ rt'[p].group = 0 /\ rt[p].group = g /\ s = "gone"
  <2>1. CASE SpawnError(g) /\ rt[p].group = g
    <3>1. rt' = [rt EXCEPT ![p].phase = "failed", ![p].group = 0, ![p].child = FALSE]
      BY <2>1 DEF SpawnError
    <3>2. rt'[p].group = 0
      BY <1>1, <1>2, <3>1 DEF TypeOK, Runtimes
    <3>3. s = "gone"
      BY <1>1, <1>3, <2>1 DEF SpawnError, LeaderExit
    <3> QED
      BY <2>1, <3>2, <3>3
  <2>2. CASE LeaderExit(g) /\ rt[p].group = g
    <3>1. rt'[p] = [Cleaned(p, "exit") EXCEPT !.child = FALSE]
      BY <1>1, <2>2 DEF LeaderExit, TypeOK
    <3>2. Cleaned(p, "exit") \in Runtimes
      BY <1>1, CleanedTyped
    <3>3. /\ rt'[p].group = Cleaned(p, "exit").group
          /\ rt'[p].worktree = Cleaned(p, "exit").worktree
      BY <3>1, <3>2 DEF Runtimes
    <3>4. /\ Cleaned(p, "exit").group = rt[p].group
          /\ Cleaned(p, "exit").worktree = rt[p].worktree
      BY <1>2 DEF Cleaned, Runtimes
    <3> QED
      BY <3>3, <3>4
  <2>3. CASE MembersExit(g)
    BY <2>3 DEF MembersExit
  <2> QED
    BY <1>7, <2>1, <2>2, <2>3
<1>9. ASSUME NEW h \in Calls, Alive(h)'
      PROVE  /\ Alive(h) /\ proc'[h].project = proc[h].project
             /\ proc'[h].worktree = proc[h].worktree
             /\ rt[proc[h].project].group = h => rt'[proc[h].project].group = h
  <2>1. Alive(h) /\ proc'[h].project = proc[h].project /\ proc'[h].worktree = proc[h].worktree
    BY <1>3, <1>4, <1>5, <1>9 DEF Alive, LeaderExit
  <2>2. h = g => s = "lingering"
    BY <1>5, <1>9 DEF Alive
  <2>3. proc[h].project \in Projects
    BY <2>1 DEF Alive, TypeOK, Groups, NoGroup
  <2> QED
    BY <1>6, <1>8, <2>1, <2>2, <2>3
<1>10. Shrinks
  <2>1. \A q \in Projects : rt'[q].group \in {0, rt[q].group}
    BY <1>6, <1>8
  <2>2. \A q \in Projects : rt'[q].group # 0 => rt'[q].worktree = rt[q].worktree
    BY <1>6, <1>8
  <2>3. \A h \in Calls : proc[h].state # "none" => proc'[h].state # "none"
    BY <1>4, <1>5
  <2> QED
    BY <1>9, <2>1, <2>2, <2>3 DEF Shrinks
<1> QED
  BY <1>10 DEF Quiet, ChainStep, PortStep, PortIsFree, Of, LeaderExit, MembersExit, SpawnError,
       control

-----------------------------------------------------------------------------
(* The invariant. *)

\* A step of the chains keeps their order.
LEMMA OrderKept ==
  ASSUME TypeOK, InOrder, ChainStep
  PROVE  InOrder'
<1>1. SUFFICES ASSUME NEW c \in Calls, NEW d \in Calls, c < d
               PROVE  /\ call'[c] = Unused => call'[d] = Unused
                      /\ Pending(c)' /\ Pending(d)' /\ Of(c)' = Of(d)'
                           => call'[d].stage = "queued"
  BY DEF InOrder
<1>2. ASSUME NEW e \in Calls
      PROVE  /\ call'[e] = Unused <=> call[e] = Unused
             /\ Pending(e)' => Pending(e) /\ Of(e)' = Of(e)
  BY DEF ChainStep, Proceeds, Unused, Done, Pending, Stages, Requests, Of
<1>3. call'[c] = Unused => call'[d] = Unused
  BY <1>1, <1>2 DEF InOrder
<1>4. ASSUME Pending(c)', Pending(d)', Of(c)' = Of(d)'
      PROVE  call'[d].stage = "queued"
  <2>1. Pending(c) /\ Pending(d) /\ Of(c) = Of(d)
    BY <1>2, <1>4
  <2>2. call[d].stage = "queued"
    BY <1>1, <2>1 DEF InOrder
  <2>3. ~Turn(d)
    BY <1>1, <2>1 DEF Turn, On, Of
  <2> QED
    BY <2>2, <2>3 DEF ChainStep
<1> QED
  BY <1>3, <1>4

\* When nothing gains a group, known groups stay known and living ones owned.
LEMMA OwnersKept ==
  ASSUME TypeOK, TypeOK', GroupKnown, OneServer, Shrinks
  PROVE  GroupKnown' /\ OneServer'
<1>1. ASSUME NEW p \in Projects, rt'[p].group # 0
      PROVE  proc'[rt'[p].group].state # "none"
  <2>1. rt'[p].group = rt[p].group /\ rt[p].group \in Calls
    BY <1>1 DEF Shrinks, TypeOK, Runtimes, Calls
  <2> QED
    BY <1>1, <2>1 DEF Shrinks, GroupKnown
<1>2. ASSUME NEW g \in Calls, Alive(g)'
      PROVE  /\ rt'[proc'[g].project].group = g
             /\ rt'[proc'[g].project].worktree = proc'[g].worktree
  <2>1. /\ Alive(g) /\ proc'[g].project = proc[g].project
        /\ proc'[g].worktree = proc[g].worktree
        /\ rt[proc[g].project].group = g => rt'[proc[g].project].group = g
    BY <1>2 DEF Shrinks
  <2>2. proc[g].project \in Projects
    BY <2>1 DEF Alive, TypeOK, Groups, NoGroup
  <2>3. g # 0
    BY DEF Calls
  <2> QED
    BY <2>1, <2>2, <2>3 DEF OneServer, Shrinks
<1> QED
  BY <1>1, <1>2 DEF GroupKnown, OneServer

\* A quiet step keeps the invariant.
LEMMA QuietKept ==
  ASSUME IInv, TypeOK', Quiet
  PROVE  IInv'
<1> USE DEF IInv
<1>1. InOrder'
  BY OrderKept DEF Quiet
<1>2. GroupKnown' /\ OneServer'
  BY OwnersKept DEF Quiet
<1>3. PortIsFree'
  <2>1. SUFFICES ASSUME NEW c \in Calls, call'[c].stage = "port"
                 PROVE  rt'[call'[c].project].group = 0
    BY DEF PortIsFree, Of
  <2>2. call'[c].project \in Projects
    BY <2>1 DEF TypeOK, Requests, Unused, Done
  <2> QED
    BY <2>1, <2>2 DEF Quiet, PortStep, Shrinks
<1>4. ShutdownCovers'
  BY DEF Quiet, Shrinks, ShutdownCovers
<1> QED
  BY <1>1, <1>2, <1>3, <1>4

\* The spawn of a server, on the port of a project without one.
LEMMA SpawnKept ==
  ASSUME IInv, TypeOK', NEW c \in Calls, PortFree(c), MaySpawn(c)
  PROVE  IInv'
<1> USE DEF IInv
<1> DEFINE p == Of(c)
<1>0. Pending(c) /\ call[c].stage = "port" /\ p \in Projects /\ Target(c) \in Worktrees
  <2>1. Pending(c) /\ call[c].stage = "port"
    BY DEF PortFree, Pending, Stages
  <2> QED
    BY <2>1, PendingTyped DEF Target, TypeOK, Requests
<1>1. rt[p].group = 0
  BY <1>0 DEF PortIsFree
<1>2. PICK s \in {"unborn", "leader"} :
        /\ call' = At(c, "health")
        /\ rt' = [rt EXCEPT ![p] = Entry("starting", Target(c), c)]
        /\ proc' = [proc EXCEPT ![c] = [state |-> s, project |-> p, worktree |-> Target(c)]]
        /\ shut' = shut /\ closing' = closing
  BY DEF PortFree, control
<1>3. Moves(c) /\ call'[c].stage = "health" /\ call'[c].project = p
  BY <1>0, <1>2, AtMoves DEF Stages, Of
<1>4. /\ rt'[p].group = c /\ rt'[p].worktree = Target(c)
      /\ \A q \in Projects : q # p => rt'[q] = rt[q]
  BY <1>0, <1>2 DEF TypeOK, Entry
<1>5. /\ proc'[c].state = s /\ proc'[c].project = p /\ proc'[c].worktree = Target(c)
      /\ \A g \in Calls : g # c => proc'[g] = proc[g]
  BY <1>2 DEF TypeOK
<1>6. InOrder'
  BY <1>0, <1>3, MovesChain, OrderKept
<1>7. PortIsFree'
  <2>1. SUFFICES ASSUME NEW d \in Calls, call'[d].stage = "port"
                 PROVE  rt'[call'[d].project].group = 0
    BY DEF PortIsFree, Of
  <2>2. d # c /\ call'[d] = call[d] /\ Pending(d)
    BY <1>3, <2>1 DEF Moves, Pending, Stages
  <2>3. Of(d) # p
    BY <1>0, <2>1, <2>2 DEF InOrder, Calls
  <2>4. Of(d) \in Projects
    BY <2>2, PendingTyped
  <2> QED
    BY <1>4, <2>1, <2>2, <2>3, <2>4 DEF PortIsFree, Of
<1>8. GroupKnown'
  <2>1. SUFFICES ASSUME NEW q \in Projects, rt'[q].group # 0
                 PROVE  proc'[rt'[q].group].state # "none"
    BY DEF GroupKnown
  <2>2. CASE q = p
    BY <1>4, <1>5, <2>2
  <2>3. CASE q # p
    BY <1>4, <1>5, <2>1, <2>3 DEF GroupKnown, TypeOK, Runtimes, Calls
  <2> QED
    BY <2>2, <2>3
<1>9. OneServer'
  <2>1. SUFFICES ASSUME NEW g \in Calls, Alive(g)'
                 PROVE  /\ rt'[proc'[g].project].group = g
                        /\ rt'[proc'[g].project].worktree = proc'[g].worktree
    BY DEF OneServer
  <2>2. CASE g = c
    BY <1>4, <1>5, <2>2
  <2>3. CASE g # c
    <3>1. Alive(g) /\ proc'[g] = proc[g] /\ proc[g].project \in Projects
      BY <1>5, <2>1, <2>3 DEF Alive, TypeOK, Groups, NoGroup
    <3>2. proc[g].project # p
      BY <1>1, <3>1 DEF OneServer, Calls
    <3> QED
      BY <1>4, <3>1, <3>2 DEF OneServer
  <2> QED
    BY <2>2, <2>3
<1>10. ShutdownCovers'
  <2>1. ~closing /\ shut.phase = "no"
    BY DEF MaySpawn, ShutdownCovers
  <2>2. \A q \in Projects : rt'[q].group # 0 => rt'[q].worktree # NoEntry
    BY <1>0, <1>4, ControlAssumption DEF ShutdownCovers
  <2> QED
    BY <1>2, <2>1, <2>2 DEF ShutdownCovers
<1> QED
  BY <1>6, <1>7, <1>8, <1>9, <1>10

\* The end of a cleanup: what stopAll() waits for shrinks with the groups.
LEMMA CleanupKept ==
  ASSUME IInv, TypeOK', NEW p \in Projects, CleanupSettled(p)
  PROVE  IInv'
<1> USE DEF IInv
<1>1. PICK ok \in BOOLEAN :
        /\ CleanupSettles(p, ok) /\ closing' = closing
        /\ ok => rt'[p].group = 0
        /\ ~ok => rt[p].group # 0
  <2>1. CASE CleanupEnds(p)
    <3>1. rt'[p].group = 0
      BY <2>1 DEF CleanupEnds, Confirmed, TypeOK
    <3>2. CleanupSettles(p, TRUE) /\ closing' = closing
      BY <2>1 DEF CleanupEnds
    <3> QED
      BY <3>1, <3>2
  <2>2. CASE CleanupUnconfirmed(p)
    <3>1. CleanupSettles(p, FALSE) /\ closing' = closing /\ rt[p].group # 0
      BY <2>2 DEF CleanupUnconfirmed
    <3> QED
      BY <3>1
  <2> QED
    BY <2>1, <2>2 DEF CleanupSettled
<1>2. ChainStep /\ PortStep
  BY <1>1, SettlesChain
<1>3. Shrinks /\ \A q \in Projects : q # p => rt'[q] = rt[q]
  BY CleanupShrinks
<1>4. InOrder' /\ GroupKnown' /\ OneServer'
  BY <1>2, <1>3, OrderKept, OwnersKept
<1>5. PortIsFree'
  <2>1. SUFFICES ASSUME NEW c \in Calls, call'[c].stage = "port"
                 PROVE  rt'[call'[c].project].group = 0
    BY DEF PortIsFree, Of
  <2>2. call'[c].project \in Projects
    BY <2>1 DEF TypeOK, Requests, Unused, Done
  <2> QED
    BY <1>2, <1>3, <2>1, <2>2 DEF PortStep, Shrinks
<1>6. /\ shut'.phase = shut.phase /\ shut'.waits = shut.waits \ {p}
      /\ shut'.failures = IF ok THEN shut.failures
                          ELSE shut.failures \cup ({p} \cap shut.waits)
  BY <1>1 DEF CleanupSettles
<1>7. ShutdownCovers'
  <2>1. \A q \in Projects : rt'[q].group # 0 => rt'[q].worktree # NoEntry
    BY <1>3 DEF Shrinks, ShutdownCovers
  <2>2. ASSUME shut.phase # "no", shut'.failures = {}, NEW q \in Projects, rt'[q].group # 0
        PROVE  q \in shut.waits \ {p}
    <3>1. shut.failures = {} /\ rt[q].group # 0
      BY <1>3, <1>6, <2>2 DEF Shrinks
    <3>2. q \in shut.waits
      BY <2>2, <3>1 DEF ShutdownCovers
    <3>3. q # p
      BY <1>1, <1>6, <2>2, <3>2
    <3> QED
      BY <3>2, <3>3
  <2>3. shut.phase = "done" => shut.waits \ {p} = {}
    BY DEF ShutdownCovers
  <2>4. shut.phase # "no" => closing'
    BY <1>1 DEF ShutdownCovers
  <2> QED
    BY <1>6, <2>1, <2>2, <2>3, <2>4 DEF ShutdownCovers
<1> QED
  BY <1>4, <1>5, <1>7

\* A call that arrives goes to the end of its chain.
LEMMA ArrivesKept ==
  ASSUME IInv, TypeOK', NEW c \in Calls, NEW k \in Kinds, NEW p \in Projects,
         NEW w \in Worktrees, NEW a \in Owners, Arrives(c, k, p, w, a)
  PROVE  IInv'
<1> USE DEF IInv
<1>1. /\ call[c] = Unused /\ \A d \in Calls : call[d] = Unused => c <= d
      /\ \A d \in Calls : d # c => call'[d] = call[d]
      /\ rt' = rt /\ proc' = proc /\ shut' = shut /\ closing' = closing
  BY DEF Arrives, TypeOK, servers, control
<1>2. call'[c].stage = "queued" /\ call'[c] # Unused
  BY DEF Arrives, TypeOK, Unused
<1>3. InOrder'
  <2>1. SUFFICES ASSUME NEW x \in Calls, NEW y \in Calls, x < y
                 PROVE  /\ call'[x] = Unused => call'[y] = Unused
                        /\ Pending(x)' /\ Pending(y)' /\ Of(x)' = Of(y)'
                             => call'[y].stage = "queued"
    BY DEF InOrder
  <2>2. x \in Nat /\ y \in Nat /\ c \in Nat
    BY ControlAssumption DEF Calls
  <2>3. CASE x = c
    <3>1. y # c /\ call'[y] = Unused
      BY <1>1, <2>1, <2>2, <2>3 DEF InOrder
    <3> QED
      BY <3>1, <1>2, <2>3 DEF Pending, Stages, Unused
  <2>4. CASE y = c
    <3>1. x # c /\ call'[x] = call[x]
      BY <1>1, <2>1, <2>2, <2>4
    <3>2. call[x] # Unused
      BY <1>1, <2>1, <2>2, <2>4
    <3> QED
      BY <1>2, <2>4, <3>1, <3>2
  <2>5. CASE x # c /\ y # c
    BY <1>1, <2>1, <2>5 DEF InOrder, Pending, Of
  <2> QED
    BY <2>3, <2>4, <2>5
<1>4. PortIsFree'
  BY <1>1, <1>2 DEF PortIsFree, Of
<1>5. GroupKnown' /\ OneServer' /\ ShutdownCovers'
  BY <1>1 DEF GroupKnown, OneServer, ShutdownCovers, Alive
<1> QED
  BY <1>3, <1>4, <1>5

\* shutdown() sets out to stop every group.
LEMMA ShutdownKept ==
  ASSUME IInv, TypeOK', Shutdown \/ ShutdownEnds \/ CloseAdmission
  PROVE  IInv'
<1> USE DEF IInv
<1>1. call' = call /\ proc' = proc /\ closing' \in {TRUE, closing}
  BY DEF Shutdown, ShutdownEnds, CloseAdmission, servers
<1>2. \A p \in Projects : rt'[p].group = rt[p].group /\ rt'[p].worktree = rt[p].worktree
  BY StoppingKeeps DEF Shutdown, ShutdownEnds, CloseAdmission, servers
<1>3. Shrinks
  BY <1>1, <1>2, KeepsShrinks
<1>4. ChainStep /\ PortStep
  BY <1>1 DEF ChainStep, PortStep, PortIsFree, Of
<1>5. InOrder' /\ GroupKnown' /\ OneServer'
  BY <1>3, <1>4, OrderKept, OwnersKept
<1>6. PortIsFree'
  <2>1. \A c \in Calls : call[c].stage = "port" => Of(c) \in Projects
    BY PendingTyped DEF Pending, Stages
  <2> QED
    BY <1>1, <1>2, <2>1 DEF PortIsFree, Of
<1>7. ShutdownCovers'
  <2>1. \A p \in Projects : rt'[p].group # 0 => rt'[p].worktree # NoEntry
    BY <1>2 DEF ShutdownCovers
  <2>2. CASE Shutdown
    BY <1>2, <2>1, <2>2 DEF Shutdown, ShutdownCovers
  <2>3. CASE ShutdownEnds
    <3>1. /\ shut.phase = "stopping" /\ shut'.phase = "done" /\ shut'.waits = {}
          /\ shut.waits = {} /\ shut'.failures = shut.failures /\ closing' = closing
      BY <2>3 DEF ShutdownEnds, TypeOK, Progress
    <3> QED
      BY <1>2, <2>1, <3>1 DEF ShutdownCovers
  <2>4. CASE CloseAdmission
    BY <1>2, <2>1, <2>4 DEF CloseAdmission, ShutdownCovers
  <2> QED
    BY <2>2, <2>3, <2>4
<1> QED
  BY <1>5, <1>6, <1>7

\* Steps beside the chains.
LEMMA OthersQuiet ==
  ASSUME IInv,
         \/ \E p \in Projects : ClaimLapses(p)
         \/ \E n \in Limits : SetCapacity(n)
         \/ \E place \in Places : ScanStarts(place) \/ ScanEnds(place) \/ TestsEnd(place)
         \/ UNCHANGED vars
  PROVE  Quiet
<1>1. call' = call /\ rt' = rt /\ proc' = proc /\ shut' = shut /\ closing' = closing
  BY DEF ClaimLapses, SetCapacity, ScanStarts, ScanEnds, TestsEnd, vars, servers, control
<1>2. Shrinks
  BY <1>1, KeepsShrinks DEF IInv
<1> QED
  BY <1>1, <1>2 DEF Quiet, ChainStep, PortStep, PortIsFree, Of, IInv

\* The invariant holds at the start.
LEMMA Initially ==
  ASSUME Init
  PROVE  IInv
<1>1. Unused \in Requests \cup {Unused, Done} /\ NoGroup \in Groups \cup {NoGroup}
  OBVIOUS
<1>2. \A p \in Projects : rt[p] = Entry("stopped", NoEntry, 0) /\ rt[p].group = 0
  BY DEF Init, Entry
<1>3. Entry("stopped", NoEntry, 0) \in Runtimes
  BY EntryTyped, ControlAssumption
<1>4. TypeOK
  BY <1>1, <1>3 DEF Init, TypeOK, Progress
<1>5. InOrder
  BY DEF Init, InOrder, Pending, Unused, Stages
<1>6. PortIsFree
  BY DEF Init, PortIsFree, Unused
<1>7. OneServer
  BY DEF Init, OneServer, Alive, NoGroup
<1>8. GroupKnown /\ ShutdownCovers
  BY <1>2 DEF Init, GroupKnown, ShutdownCovers
<1> QED
  BY <1>4, <1>5, <1>6, <1>7, <1>8 DEF IInv

\* Every step keeps the invariant.
LEMMA Inductive ==
  ASSUME IInv, [Next]_vars
  PROVE  IInv'
<1>1. TypeOK'
  BY TypeStep DEF IInv
<1>2. ASSUME NEW c \in Calls, Continues(c)
      PROVE  IInv'
  <2>1. CASE PortFree(c) /\ MaySpawn(c)
    BY <1>1, <2>1, SpawnKept
  <2>2. CASE ~(PortFree(c) /\ MaySpawn(c))
    BY <1>1, <1>2, <2>2, TurnsQuiet, AnswersQuiet, ServersQuiet, QuietKept DEF Continues, IInv
  <2> QED
    BY <2>1, <2>2
<1>3. ASSUME NEW g \in Calls, LeaderExit(g) \/ MembersExit(g) \/ SpawnError(g)
      PROVE  IInv'
  BY <1>1, <1>3, ExitsQuiet, QuietKept DEF IInv
<1> QED
  BY <1>1, <1>2, <1>3, CleanupKept, ArrivesKept, ShutdownKept, OthersQuiet, QuietKept DEF Next

-----------------------------------------------------------------------------
(* What holds of every behaviour. *)

\* The invariant of chains, entries, groups and shutdown.
THEOREM Invariance == Spec => []IInv
<1>1. Init => IInv
  BY Initially
<1>2. IInv /\ [Next]_vars => IInv'
  BY Inductive
<1> QED
  BY <1>1, <1>2, PTL DEF Spec

\* Every variable of the controller always holds a value of its type.
THEOREM TypesHold == Spec => []TypeOK
<1>1. IInv => TypeOK
  BY DEF IInv
<1> QED
  BY <1>1, Invariance, PTL

\* One managed server slot per project: every live process is the one its
\* project's entry owns, for any projects, operations, exits and failed stops.
THEOREM OneServerEach == Spec => []OneServer
<1>1. IInv => OneServer
  BY DEF IInv
<1> QED
  BY <1>1, Invariance, PTL

\* A shutdown that ends without a reported failure leaves no live process.
THEOREM ShutdownIsClean == Spec => []ShutdownLeavesNothing
<1>1. IInv => ShutdownLeavesNothing
  <2>1. SUFFICES ASSUME IInv, shut.phase = "done", shut.failures = {}, NEW g \in Calls, Alive(g)
                 PROVE  FALSE
    BY DEF ShutdownLeavesNothing
  <2>2. proc[g].project \in Projects /\ rt[proc[g].project].group = g
    BY <2>1 DEF IInv, OneServer, Alive, TypeOK, Groups, NoGroup
  <2> QED
    BY <2>1, <2>2 DEF IInv, ShutdownCovers, Calls
<1> QED
  BY <1>1, Invariance, PTL
=============================================================================
