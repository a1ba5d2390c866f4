----------------------- MODULE ProjectControlOwnerProofs -----------------------
(***************************************************************************)
(* Theorems about the operations of ProjectControl, for all constants.      *)
(*                                                                          *)
(* First the owners: nobody's server is spawned or stopped against a        *)
(* reservation, and a server spawned under a claim starts while that claim  *)
(* is in force, in its worktree.  Then the slots: none leaks or exceeds the *)
(* limit, a deletion is undisturbed, and a project that was removed stays   *)
(* without processes and tests.                                             *)
(***************************************************************************)
EXTENDS ProjectControlProofs, FiniteSetTheorems

-----------------------------------------------------------------------------
(* What a step does to the calls and the reservations. *)

Makers == {"claim", "reserve"}

\* A call that goes on stays the request it was.
Kept(c) ==
  \/ call'[c] = Done
  \/ /\ call'[c] \in Requests /\ call'[c].stage # "queued"
     /\ call'[c].project = call[c].project /\ call'[c].kind = call[c].kind
     /\ call'[c].worktree = call[c].worktree /\ call'[c].owner = call[c].owner
     /\ call'[c].claim = call[c].claim
\* It operates its project once the reservation, if any, was found its owner's.
Judged(c) == call'[c].stage \in Operating =>
  call[c].stage \in Operating \/ (resv'[Of(c)] # Free => resv'[Of(c)].owner = call[c].owner)
\* It asks Git at most once before it makes a reservation.
AsksOnce(c) == call[c].kind \in Makers /\ call[c].stage # "queued" => call'[c].stage # "git"
Goes(c) == Pending(c) /\ Kept(c) /\ Judged(c) /\ AsksOnce(c)
\* It makes the reservation of its number.
Takes(c) ==
  /\ call[c].kind \in Makers /\ call[c].stage = "git"
  /\ resv'[Of(c)] = [id |-> c, owner |-> call[c].owner, worktree |-> call[c].worktree]

\* Reservations are given up, or taken by calls that go on.
Booking ==
  /\ \A c \in Calls : call'[c] = call[c] \/ Goes(c)
  /\ \A p \in Projects : \/ resv'[p] \in {resv[p], Free}
                         \/ \E c \in Calls : Takes(c) /\ Goes(c) /\ Of(c) = p

\* What one call does to the reservations.
Books(c) ==
  \A p \in Projects : resv'[p] \in {resv[p], Free} \/ (p = Of(c) /\ Takes(c))
\* If a stop begins, it is of the call's project, which is its owner's or nobody's.
Begins(c) ==
  \A p \in Projects : rt[p].cleanup = "no" /\ rt'[p].cleanup = "stop" /\ ~closing' =>
    /\ p = Of(c) /\ call'[c] # call[c]
    /\ resv[p] # Free => resv[p].owner = call[c].owner

\* A call that ends leaves the others and stays within its rights.
LEMMA FinishBooks ==
  ASSUME TypeOK, NEW c \in Calls, Pending(c), Finish(c), Books(c)
  PROVE  Booking
<1>1. Goes(c)
  BY DEF Goes, Finish, TypeOK, Kept, Judged, AsksOnce, Operating, Done
<1>2. \A d \in Calls : d # c => call'[d] = call[d]
  BY DEF Finish, TypeOK
<1> QED
  BY <1>1, <1>2 DEF Booking, Books

\* So does a call that goes on to a stage.
LEMMA AtBooks ==
  ASSUME TypeOK, NEW c \in Calls, Pending(c), NEW s \in Stages \ {"queued"},
         call' = At(c, s), Books(c),
         s \in Operating => \/ call[c].stage \in Operating
                            \/ resv'[Of(c)] # Free => resv'[Of(c)].owner = call[c].owner,
         s = "git" => call[c].stage = "queued" \/ call[c].kind \notin Makers
  PROVE  Booking /\ call'[c].stage = s
<1>1. call[c] \in Requests
  BY PendingTyped
<1>2. call'[c] = [call[c] EXCEPT !.stage = s] /\ \A d \in Calls : d # c => call'[d] = call[d]
  BY DEF At, TypeOK
<1>3. /\ call'[c] \in Requests /\ call'[c].stage = s
      /\ call'[c].project = call[c].project /\ call'[c].kind = call[c].kind
      /\ call'[c].worktree = call[c].worktree /\ call'[c].owner = call[c].owner
      /\ call'[c].claim = call[c].claim
  BY <1>1, <1>2 DEF Requests
<1>4. Kept(c) /\ Judged(c) /\ AsksOnce(c)
  BY <1>3 DEF Kept, Judged, AsksOnce
<1> QED
  BY <1>2, <1>3, <1>4 DEF Goes, Booking, Books

\* Entries that begin no cleanup.
LEMMA NothingBegins ==
  ASSUME NEW c \in Calls,
         \A p \in Projects : rt'[p].cleanup \in {rt[p].cleanup, "no", "exit"}
  PROVE  Begins(c)
  BY DEF Begins

\* A call that stops its project's server, as its owner.
LEMMA StopsBooks ==
  ASSUME TypeOK, NEW c \in Calls, call[c].stage \in {"queued", "git"}, NEW held \in BOOLEAN,
         Stops(c, held), Books(c),
         resv[Of(c)] # Free => resv[Of(c)].owner = call[c].owner,
         resv'[Of(c)] # Free => resv'[Of(c)].owner = call[c].owner
  PROVE  Booking /\ Begins(c)
<1>1. Pending(c) /\ Of(c) \in Projects
  <2>1. Pending(c)
    BY DEF Pending, Stages
  <2> QED
    BY <2>1, PendingTyped
<1>2. Stopped(Of(c)) \in {"stop", "stopped"}
  BY DEF Stopped
<1>3. Booking /\ call'[c].stage \in {"stop", "stopped"}
  BY <1>1, <1>2, AtBooks DEF Stops, Stages
<1>4. \A p \in Projects : p # Of(c) => rt'[p] = rt[p]
  BY DEF Stops, TypeOK
<1> QED
  BY <1>3, <1>4 DEF Begins

\* A call that goes on to the port check, as the owner.
LEMMA LaunchesBooks ==
  ASSUME TypeOK, NEW c \in Calls, Pending(c), Launches(c), Books(c),
         \/ call[c].stage \in Operating
         \/ resv'[Of(c)] # Free => resv'[Of(c)].owner = call[c].owner
  PROVE  Booking /\ Begins(c)
<1>1. Begins(c)
  BY NothingBegins DEF Launches, servers
<1>2. Booking
  BY FinishBooks, AtBooks DEF Launches, Stages
<1> QED
  BY <1>1, <1>2

-----------------------------------------------------------------------------
(* The operations. *)

\* A person's operation that is allowed, and one under a claim in force, are the
\* owner's.
LEMMA OwnersAllowed ==
  ASSUME OwnerInv, NEW c \in Calls, Pending(c),
         \/ call[c].kind \in HumanKinds /\ \E w \in Worktrees \cup {NoEntry} : Allows(Of(c), w, Human)
         \/ call[c].kind \in ClaimedKinds /\ InForce(c)
  PROVE  resv[Of(c)] # Free => resv[Of(c)].owner = call[c].owner
  BY DEF OwnerInv, OperatorsMatch, ClaimsMatch, Allows

\* The worktree an operation is judged by is one.
LEMMA JudgedByWorktree ==
  ASSUME TypeOK, NEW c \in Calls, Pending(c)
  PROVE  /\ Target(c) \in Worktrees /\ selected[Of(c)] \in Worktrees
         /\ Current(Of(c)) \in Worktrees \cup {NoEntry}
<1>1. call[c] \in Requests /\ Of(c) \in Projects
  BY PendingTyped
<1>2. rt[Of(c)].worktree \in Worktrees \cup {NoEntry}
  BY <1>1 DEF TypeOK, Runtimes
<1> QED
  BY <1>1, <1>2 DEF Target, Current, TypeOK, Requests

\* An operation that takes its turn.
LEMMA TurnsBook ==
  ASSUME IInv, OwnerInv, NEW c \in Calls, Turns(c)
  PROVE  Booking /\ Begins(c)
<1> USE DEF IInv, locks
<1>0. call[c].stage = "queued" /\ Pending(c)
  BY DEF Turns, TurnUnknown, TurnAsksGit, TurnStop, TurnProfile, TurnRemove, TurnRelease,
         TurnClaimed, Turn, Pending, Stages
<1>a. call[c] \in Requests /\ Of(c) \in Projects
  BY <1>0, PendingTyped
<1>s. ASSUME UNCHANGED servers
      PROVE  Begins(c)
  BY <1>s, NothingBegins DEF servers
<1>f. ASSUME Finish(c), UNCHANGED <<locks, servers>>
      PROVE  Booking /\ Begins(c)
  BY <1>0, <1>f, <1>s, FinishBooks DEF Books
<1>p. ASSUME Stops(c, FALSE) \/ Stops(c, TRUE), UNCHANGED locks,
             resv[Of(c)] # Free => resv[Of(c)].owner = call[c].owner
      PROVE  Booking /\ Begins(c)
  BY <1>0, <1>p, StopsBooks DEF Books
<1>h. ASSUME call[c].kind \in HumanKinds,
             Allows(Of(c), Current(Of(c)), Human)
      PROVE  resv[Of(c)] # Free => resv[Of(c)].owner = call[c].owner
  BY <1>0, <1>h, OwnersAllowed, JudgedByWorktree
<1>1. CASE TurnUnknown(c)
  BY <1>1, <1>f DEF TurnUnknown
<1>2. CASE TurnAsksGit(c)
  <2>1. Booking
    BY <1>0, <1>2, AtBooks DEF TurnAsksGit, Stages, Operating, Books
  <2> QED
    BY <1>2, <1>s, <2>1 DEF TurnAsksGit
<1>3. CASE TurnStop(c)
  BY <1>3, <1>f, <1>p, <1>h DEF TurnStop, HumanKinds
<1>4. CASE TurnProfile(c)
  BY <1>4, <1>f, <1>p, <1>h DEF TurnProfile, HumanKinds
<1>5. CASE TurnRemove(c)
  BY <1>5, <1>f, <1>p, <1>h DEF TurnRemove, HumanKinds
<1>6. CASE TurnRelease(c)
  <2>1. Books(c)
    BY <1>6, <1>a DEF TurnRelease, Books, TypeOK
  <2> QED
    BY <1>0, <1>6, <1>s, <2>1, FinishBooks DEF TurnRelease
<1>7. CASE TurnClaimed(c)
  <2>0. UNCHANGED locks /\ call[c].kind \in ClaimedKinds
    BY <1>7 DEF TurnClaimed
  <2>1. CASE Finish(c) /\ UNCHANGED servers
    BY <2>0, <2>1, <1>f
  <2>2. CASE ~(Finish(c) /\ UNCHANGED servers) /\ Stops(c, FALSE)
    <3>1. InForce(c)
      BY <1>7, <2>2 DEF TurnClaimed
    <3> QED
      BY <1>0, <1>p, <2>0, <2>2, <3>1, OwnersAllowed
  <2>3. CASE ~(Finish(c) /\ UNCHANGED servers) /\ ~Stops(c, FALSE)
    <3>1. PICK b \in BOOLEAN :
            call' = [call EXCEPT ![c].stage = "git", ![c].had = b]
            /\ UNCHANGED <<pending, servers>>
      BY <1>7, <2>3 DEF TurnClaimed
    <3> DEFINE r == [[call[c] EXCEPT !.stage = "git"] EXCEPT !.had = b]
    <3>2. /\ r \in Requests /\ r.stage = "git"
          /\ r.project = call[c].project /\ r.kind = call[c].kind
          /\ r.worktree = call[c].worktree /\ r.owner = call[c].owner
          /\ r.claim = call[c].claim
      BY <1>a DEF Requests, Stages
    <3>3. call'[c] = r /\ \A d \in Calls : d # c => call'[d] = call[d]
      BY <3>1, <1>a DEF TypeOK, Requests
    <3>4. Goes(c)
      BY <1>0, <2>0, <3>2, <3>3
         DEF Goes, Kept, Judged, AsksOnce, Operating, Makers, ClaimedKinds
    <3>5. Booking
      BY <2>0, <3>3, <3>4 DEF Booking
    <3> QED
      BY <1>s, <3>1, <3>5
  <2> QED
    BY <2>1, <2>2, <2>3
<1> QED
  BY <1>1, <1>2, <1>3, <1>4, <1>5, <1>6, <1>7 DEF Turns

\* An operation to which Git or the cleaner has answered.
LEMMA AnswersBook ==
  ASSUME IInv, OwnerInv, NEW c \in Calls, Answers(c)
  PROVE  Booking /\ Begins(c)
<1> USE DEF IInv, locks
<1>0. Pending(c) /\ call[c].stage \in {"git", "observe", "cleaning"}
  BY DEF Answers, GitFails, GitOperate, GitClaimed, GitClaim, GitReserve, GitTest,
         SourceObserved, GitClean, CacheRemoved, Pending, Stages
<1>a. call[c] \in Requests /\ Of(c) \in Projects
  BY <1>0, PendingTyped
<1>s. ASSUME UNCHANGED servers
      PROVE  Begins(c)
  BY <1>s, NothingBegins DEF servers
<1>f. ASSUME Finish(c), UNCHANGED <<locks, servers>>
      PROVE  Booking /\ Begins(c)
  BY <1>0, <1>f, <1>s, FinishBooks DEF Books
<1>p. ASSUME call[c].stage = "git", UNCHANGED resv,
             resv[Of(c)] # Free => resv[Of(c)].owner = call[c].owner,
             Stops(c, TRUE) \/ Launches(c)
      PROVE  Booking /\ Begins(c)
  BY <1>0, <1>p, StopsBooks, LaunchesBooks DEF Books
<1>1. CASE GitFails(c)
  BY <1>1, <1>f DEF GitFails
<1>2. CASE GitOperate(c)
  <2>1. call[c].kind \in HumanKinds
    BY <1>2 DEF GitOperate, HumanKinds
  <2>2. Allows(Of(c), Target(c), Human) => (resv[Of(c)] # Free => resv[Of(c)].owner = call[c].owner)
    BY <1>0, <2>1, OwnersAllowed, JudgedByWorktree
  <2> QED
    BY <1>2, <1>f, <1>p, <2>2 DEF GitOperate
<1>3. CASE GitClaimed(c)
  <2>1. InForce(c) => (resv[Of(c)] # Free => resv[Of(c)].owner = call[c].owner)
    BY <1>0, <1>3, OwnersAllowed DEF GitClaimed, ClaimedKinds
  <2> QED
    BY <1>3, <1>f, <1>p, <2>1 DEF GitClaimed
<1>4. CASE GitClaim(c)
  <2>0. call[c].stage = "git" /\ call[c].kind = "claim"
    BY <1>4 DEF GitClaim
  <2>1. CASE resv[Of(c)] # Free
    <3>1. UNCHANGED resv
      BY <1>4, <2>1 DEF GitClaim
    <3>2. \/ Finish(c) /\ UNCHANGED servers
          \/ (Launches(c) \/ Stops(c, TRUE)) /\ resv[Of(c)].owner = call[c].owner
      BY <1>4, <2>1 DEF GitClaim
    <3> QED
      BY <1>0, <1>p, <1>s, <2>0, <3>1, <3>2, FinishBooks DEF Books
  <2>2. CASE resv[Of(c)] = Free
    <3>1. resv' = [resv EXCEPT ![Of(c)] =
                     [id |-> c, owner |-> call[c].owner, worktree |-> call[c].worktree]]
      BY <1>4, <2>2 DEF GitClaim
    <3>2. /\ resv'[Of(c)] = [id |-> c, owner |-> call[c].owner, worktree |-> call[c].worktree]
          /\ \A p \in Projects : p # Of(c) => resv'[p] = resv[p]
      BY <1>a, <3>1 DEF TypeOK
    <3>3. Books(c) /\ resv'[Of(c)].owner = call[c].owner
      BY <1>4, <3>2 DEF Books, Takes, GitClaim, Makers
    <3>4. \/ Finish(c) /\ UNCHANGED servers
          \/ Launches(c)
          \/ Stops(c, TRUE)
      BY <1>4, <2>2 DEF GitClaim
    <3>5. call[c].stage = "git"
      BY <1>4 DEF GitClaim
    <3> QED
      BY <1>0, <1>s, <2>2, <3>3, <3>4, <3>5, FinishBooks, LaunchesBooks, StopsBooks
  <2> QED
    BY <2>1, <2>2
<1>5. CASE GitReserve(c)
  <2>1. call[c].owner = Human
    BY <1>0, <1>5 DEF GitReserve, OwnerInv, OperatorsMatch, HumanKinds
  <2>2. Books(c)
    BY <1>5, <1>a, <2>1 DEF GitReserve, Books, Takes, TypeOK, Makers
  <2> QED
    BY <1>0, <1>5, <1>s, <2>2, FinishBooks DEF GitReserve
<1>6. CASE GitTest(c)
  <2>1. ASSUME call' = At(c, "observe")
        PROVE  Booking
    BY <1>0, <1>6, <2>1, AtBooks DEF GitTest, Stages, Operating, Books
  <2> QED
    BY <1>6, <1>f, <1>s, <2>1 DEF GitTest
<1>7. CASE SourceObserved(c)
  BY <1>7, <1>f DEF SourceObserved
<1>8. CASE GitClean(c)
  <2>1. ASSUME call' = At(c, "cleaning")
        PROVE  Booking
    BY <1>0, <1>8, <2>1, AtBooks DEF GitClean, Stages, Operating, Books
  <2> QED
    BY <1>8, <1>f, <1>s, <2>1 DEF GitClean
<1>9. CASE CacheRemoved(c)
  BY <1>9, <1>f DEF CacheRemoved
<1> QED
  BY <1>1, <1>2, <1>3, <1>4, <1>5, <1>6, <1>7, <1>8, <1>9 DEF Answers

\* An operation that starts a server or ends after a stop.
LEMMA ServersBook ==
  ASSUME IInv, OwnerInv, NEW c \in Calls, Servers(c)
  PROVE  Booking /\ Begins(c)
<1> USE DEF IInv, locks
<1>0. Pending(c) /\ call[c].stage \in {"stopped", "port", "health", "timed_out"}
  BY DEF Servers, AfterStop, PortTaken, PortFree, Healthy, Aborted, Deadline, TimedOut,
         Pending, Stages
<1>a. call[c] \in Requests /\ Of(c) \in Projects /\ call[c].stage \in Operating
  BY <1>0, PendingTyped DEF Operating
<1>b. rt[Of(c)] \in Runtimes
  BY <1>a DEF TypeOK
<1>s. ASSUME UNCHANGED servers
      PROVE  Begins(c)
  BY <1>s, NothingBegins DEF servers
<1>k. ASSUME UNCHANGED locks
      PROVE  Books(c)
  BY <1>k DEF Books
<1>f. ASSUME Finish(c), UNCHANGED <<locks, servers>>
      PROVE  Booking /\ Begins(c)
  BY <1>0, <1>f, <1>s, <1>k, FinishBooks
<1>1. CASE AfterStop(c)
  <2>1. CASE Finish(c) /\ UNCHANGED <<resv, servers>>
    BY <1>0, <1>s, <2>1, FinishBooks DEF Books
  <2>2. CASE /\ Finish(c) /\ reg' = reg \ {Of(c)} /\ resv' = [resv EXCEPT ![Of(c)] = Free]
             /\ UNCHANGED <<selected, servers>>
    <3>1. Books(c)
      BY <1>a, <2>2 DEF Books, TypeOK
    <3> QED
      BY <1>0, <1>s, <2>2, <3>1, FinishBooks
  <2>3. CASE /\ call[c].kind = "profile" /\ call' = At(c, "git")
             /\ UNCHANGED <<pending, locks, servers>>
    <3>1. Booking
      BY <1>0, <1>k, <2>3, AtBooks DEF Stages, Operating, Makers
    <3> QED
      BY <1>s, <2>3, <3>1
  <2>4. CASE Launches(c) /\ UNCHANGED resv
    BY <1>0, <1>a, <2>4, LaunchesBooks DEF Books
  <2> QED
    BY <1>1, <2>1, <2>2, <2>3, <2>4 DEF AfterStop
<1>2. CASE PortTaken(c)
  <2>1. \A p \in Projects : rt'[p].cleanup \in {rt[p].cleanup, "no"}
    BY <1>2, <1>a DEF PortTaken, Entry, TypeOK
  <2> QED
    BY <1>0, <1>2, <1>k, <2>1, FinishBooks, NothingBegins DEF PortTaken
<1>3. CASE PortFree(c)
  <2>1. CASE MaySpawn(c)
    <3>1. \A p \in Projects : rt'[p].cleanup \in {rt[p].cleanup, "no"}
      BY <1>3, <1>a, <2>1 DEF PortFree, Entry, TypeOK
    <3>2. Booking
      BY <1>0, <1>3, <1>a, <1>k, <2>1, AtBooks DEF PortFree, Stages
    <3> QED
      BY <3>1, <3>2, NothingBegins
  <2>2. CASE ~MaySpawn(c)
    BY <1>3, <1>f, <2>2 DEF PortFree
  <2> QED
    BY <2>1, <2>2
<1>4. CASE Healthy(c) \/ TimedOut(c)
  <2>1. \A p \in Projects : rt'[p].cleanup = rt[p].cleanup
    BY <1>4, <1>a, <1>b DEF Healthy, TimedOut, TypeOK, Runtimes
  <2> QED
    BY <1>0, <1>4, <1>k, <2>1, FinishBooks, NothingBegins DEF Healthy, TimedOut
<1>5. CASE Aborted(c)
  <2>1. CASE Finish(c) /\ UNCHANGED servers
    BY <1>5, <1>f, <2>1 DEF Aborted
  <2>2. CASE ~(Finish(c) /\ UNCHANGED servers)
    <3>1. /\ call' = At(c, "abort") /\ UNCHANGED locks /\ closing' = closing
          /\ closing \/ rt[Of(c)].cleanup # "no"
          /\ rt' = [rt EXCEPT ![Of(c)] = Stopping(Of(c))]
      BY <1>5, <2>2 DEF Aborted, control
    <3>2. Booking
      BY <1>0, <1>a, <1>k, <3>1, AtBooks DEF Stages
    <3>3. \A p \in Projects : p # Of(c) => rt'[p] = rt[p]
      BY <3>1 DEF TypeOK
    <3>4. Begins(c)
      BY <3>1, <3>3 DEF Begins
    <3> QED
      BY <3>2, <3>4
  <2> QED
    BY <2>1, <2>2
<1>6. CASE Deadline(c)
  <2>1. call[c].stage = "health" /\ call' = At(c, "late") /\ UNCHANGED locks
    BY <1>6 DEF Deadline
  <2>2. Booking /\ call'[c].stage = "late"
    BY <1>0, <1>a, <1>k, <2>1, AtBooks DEF Stages
  <2>3. \A p \in Projects : p # Of(c) => rt'[p] = rt[p]
    BY <1>6 DEF Deadline, TypeOK
  <2>4. resv[Of(c)] # Free => resv[Of(c)].owner = call[c].owner
    BY <1>0, <1>a DEF OwnerInv, OperatorsMatch
  <2>5. Begins(c)
    BY <2>1, <2>2, <2>3, <2>4 DEF Begins
  <2> QED
    BY <2>2, <2>5
<1> QED
  BY <1>1, <1>2, <1>3, <1>4, <1>5, <1>6 DEF Servers

-----------------------------------------------------------------------------
(* The invariant. *)

\* The initial state, in which nothing is reserved.
LEMMA OwnersInitially ==
  ASSUME Init
  PROVE  OwnerInv
  BY DEF Init, OwnerInv, ClaimsMatch, OperatorsMatch, Pending, Unused, Stages

\* A reservation that was made stays so.
LEMMA MadeStays ==
  ASSUME TypeOK, Booking, NEW d \in Calls, Made(d)
  PROVE  Made(d)'
<1>1. CASE call'[d] = call[d]
  BY <1>1 DEF Made, Pending
<1>2. CASE call'[d] # call[d]
  <2>1. Goes(d)
    BY <1>2 DEF Booking
  <2>2. CASE call'[d] = Done
    BY <2>2 DEF Made, Pending, Done, Unused, Stages
  <2>3. CASE call'[d] # Done
    <3>1. call'[d] \in Requests /\ call'[d].stage # "queued" /\ call'[d].kind = call[d].kind
      BY <2>1, <2>3 DEF Goes, Kept
    <3>2. call'[d] # Unused
      BY <3>1 DEF Requests, Unused, Stages
    <3>3. call[d].kind \in Makers => call[d].stage # "queued" /\ call'[d].stage # "git"
      BY <2>1 DEF Made, Goes, AsksOnce, Makers
    <3> QED
      BY <3>1, <3>2, <3>3 DEF Made, Makers
  <2> QED
    BY <2>2, <2>3
<1> QED
  BY <1>1, <1>2

\* Steps in which reservations are given up or taken by calls that go on.
LEMMA BookingKept ==
  ASSUME IInv, TypeOK', OwnerInv, Booking
  PROVE  OwnerInv'
<1> USE DEF IInv
<1>1. ASSUME NEW p \in Projects
      PROVE  \/ resv'[p] \in {resv[p], Free}
             \/ \E c \in Calls : /\ Pending(c) /\ Of(c) = p /\ ~Made(c) /\ Made(c)'
                                 /\ call[c].stage = "git" /\ resv'[p].id = c
  <2>1. ASSUME NEW c \in Calls, Takes(c), Goes(c), Of(c) = p
        PROVE  /\ Pending(c) /\ ~Made(c) /\ Made(c)'
               /\ call[c].stage = "git" /\ resv'[p].id = c
    <3>1. Pending(c) /\ ~Made(c) /\ call[c].stage = "git" /\ resv'[p].id = c
      BY <2>1 DEF Takes, Goes, Made, Makers
    <3>2. Made(c)'
      <4>1. CASE call'[c] = Done
        BY <4>1 DEF Made, Pending, Done, Unused, Stages
      <4>2. CASE call'[c] # Done
        <5>1. call'[c] \in Requests /\ call'[c].stage \notin {"queued", "git"}
          BY <2>1, <4>2 DEF Goes, Kept, AsksOnce, Takes
        <5>2. call'[c] # Unused
          BY <5>1 DEF Requests, Unused, Stages
        <5> QED
          BY <5>1, <5>2 DEF Made
      <4> QED
        BY <4>1, <4>2
    <3> QED
      BY <3>1, <3>2
  <2> QED
    BY <2>1 DEF Booking
<1>2. ASSUME NEW d \in Calls, Pending(d)'
      PROVE  /\ Pending(d) /\ Of(d)' = Of(d) /\ Of(d) \in Projects
             /\ call'[d].kind = call[d].kind /\ call'[d].owner = call[d].owner
             /\ call'[d].worktree = call[d].worktree /\ call'[d].claim = call[d].claim
  <2>1. Pending(d) /\ (call'[d] = call[d] \/ Kept(d))
    BY <1>2 DEF Booking, Goes, Pending
  <2>2. call'[d] # Done
    BY <1>2 DEF Pending, Done, Stages
  <2> QED
    BY <2>1, <2>2, PendingTyped DEF Kept, Of
<1>3. ASSUME NEW p \in Projects, resv'[p] # Free
      PROVE  \E m \in Calls : m = resv'[p].id /\ Made(m)'
  <2>1. resv[p] # Free => resv[p].id \in Calls /\ Made(resv[p].id)
    BY DEF OwnerInv, ClaimsMatch, TypeOK, Reservations
  <2>2. CASE resv'[p] = resv[p]
    <3>1. PICK m \in Calls : m = resv[p].id /\ Made(m)
      BY <1>3, <2>1, <2>2
    <3>2. Made(m)'
      BY <3>1, MadeStays
    <3> QED
      BY <2>2, <3>1, <3>2
  <2> QED
    BY <1>1, <1>3, <2>2
<1>4. ASSUME NEW d \in Calls, Pending(d)', call'[d].kind \in ClaimedKinds
      PROVE  /\ \E m \in Calls : m = call'[d].claim /\ Made(m)'
             /\ InForce(d)' => /\ resv'[Of(d)'].worktree = call'[d].worktree
                               /\ resv'[Of(d)'].owner = call'[d].owner
  <2>1. /\ Pending(d) /\ call[d].kind \in ClaimedKinds /\ call'[d].claim = call[d].claim
        /\ call[d].claim \in Calls /\ Made(call[d].claim)
    BY <1>2, <1>4 DEF OwnerInv, ClaimsMatch
  <2>2. \E m \in Calls : m = call'[d].claim /\ Made(m)'
    <3>1. PICK m \in Calls : m = call[d].claim /\ Made(m)
      BY <2>1
    <3>2. Made(m)'
      BY <3>1, MadeStays
    <3> QED
      BY <2>1, <3>1, <3>2
  <2>3. ASSUME InForce(d)'
        PROVE  /\ resv'[Of(d)'].worktree = call'[d].worktree
               /\ resv'[Of(d)'].owner = call'[d].owner
    <3>1. resv'[Of(d)] # Free /\ resv'[Of(d)].id = call[d].claim
      BY <1>2, <1>4, <2>1, <2>3 DEF InForce
    <3>2. resv'[Of(d)] = resv[Of(d)]
      BY <1>1, <1>2, <1>4, <2>1, <3>1
    <3> QED
      BY <1>2, <1>4, <2>1, <3>1, <3>2 DEF OwnerInv, ClaimsMatch, InForce
  <2> QED
    BY <2>1, <2>2, <2>3
<1>5. ASSUME NEW d \in Calls, Pending(d)'
      PROVE  /\ call'[d].kind \in HumanKinds => call'[d].owner = Human
             /\ call'[d].stage \in Operating /\ resv'[Of(d)'] # Free
                  => resv'[Of(d)'].owner = call'[d].owner
  <2>1. call'[d].kind \in HumanKinds => call'[d].owner = Human
    BY <1>2, <1>5 DEF OwnerInv, OperatorsMatch
  <2>2. ASSUME call'[d].stage \in Operating, resv'[Of(d)] # Free
        PROVE  resv'[Of(d)].owner = call[d].owner
    <3>1. CASE call[d].stage \in Operating
      <4>1. resv'[Of(d)] = resv[Of(d)]
        <5>1. ASSUME NEW c \in Calls, Pending(c), Of(c) = Of(d), call[c].stage = "git"
              PROVE  FALSE
          BY <1>2, <1>5, <3>1, <5>1, ControlAssumption DEF InOrder, Operating, Calls
        <5> QED
          BY <1>1, <1>2, <1>5, <2>2, <5>1
      <4> QED
        BY <1>2, <1>5, <2>2, <3>1, <4>1 DEF OwnerInv, OperatorsMatch
    <3>2. CASE call[d].stage \notin Operating
      BY <2>2, <3>2 DEF Booking, Goes, Judged
    <3> QED
      BY <3>1, <3>2
  <2> QED
    BY <1>2, <1>5, <2>1, <2>2
<1>6. ClaimsMatch'
  <2>1. ASSUME NEW p \in Projects, resv'[p] # Free
        PROVE  Made(resv[p].id)'
    BY <1>3, <2>1 DEF Made, Pending
  <2>2. ASSUME NEW d \in Calls, Pending(d)', call'[d].kind \in ClaimedKinds
        PROVE  call'[d].claim \in Calls /\ Made(call[d].claim)'
    BY <1>4, <2>2 DEF Made, Pending
  <2> QED
    BY <1>4, <2>1, <2>2 DEF ClaimsMatch
<1>7. OperatorsMatch'
  BY <1>5 DEF OperatorsMatch
<1> QED
  BY <1>6, <1>7 DEF OwnerInv

\* A cleanup that ends moves the calls that awaited it.
LEMMA CleanupsBook ==
  ASSUME TypeOK, NEW p \in Projects, CleanupSettled(p)
  PROVE  Booking
<1>1. PICK ok \in BOOLEAN : CleanupSettles(p, ok) /\ UNCHANGED locks
  BY DEF CleanupSettled, CleanupEnds, CleanupUnconfirmed
<1>2. ASSUME NEW c \in Calls, call'[c] # call[c]
      PROVE  Goes(c)
  <2>1. Pending(c) /\ call[c].stage \in Operating /\ call[c] \in Requests
    BY <1>1, <1>2, PendingTyped DEF CleanupSettles, Settled, Waiting, On, Operating
  <2>2. call'[c] \in {At(c, "stopped")[c], At(c, "timed_out")[c], Done}
    BY <1>1, <1>2 DEF CleanupSettles, Settled
  <2>3. CASE call'[c] = Done
    BY <2>1, <2>3 DEF Goes, Kept, Judged, AsksOnce, Done
  <2>4. CASE call'[c] # Done
    <3>1. PICK s \in {"stopped", "timed_out"} : call'[c] = [call[c] EXCEPT !.stage = s]
      BY <2>2, <2>4 DEF At, TypeOK
    <3>2. s \in Stages
      BY DEF Stages
    <3>3. /\ call'[c] \in Requests /\ call'[c].stage = s
          /\ call'[c].project = call[c].project /\ call'[c].kind = call[c].kind
          /\ call'[c].worktree = call[c].worktree /\ call'[c].owner = call[c].owner
          /\ call'[c].claim = call[c].claim
      BY <2>1, <3>1, <3>2 DEF Requests
    <3> QED
      BY <2>1, <3>3 DEF Goes, Kept, Judged, AsksOnce
  <2> QED
    BY <2>3, <2>4
<1> QED
  BY <1>1, <1>2 DEF Booking, locks

\* Steps beside the calls: reservations lapse at most.
LEMMA OthersBook ==
  ASSUME TypeOK,
         \/ \E p \in Projects : ClaimLapses(p)
         \/ \E g \in Calls : LeaderExit(g) \/ MembersExit(g) \/ SpawnError(g)
         \/ \E n \in Limits : SetCapacity(n)
         \/ \E place \in Places : ScanStarts(place) \/ ScanEnds(place) \/ TestsEnd(place)
         \/ CloseAdmission \/ Shutdown \/ ShutdownEnds \/ UNCHANGED vars
  PROVE  Booking
<1>1. call' = call
  BY DEF ClaimLapses, LeaderExit, MembersExit, SpawnError, SetCapacity, ScanStarts, ScanEnds,
         TestsEnd, CloseAdmission, Shutdown, ShutdownEnds, vars
<1>2. \A p \in Projects : resv'[p] \in {resv[p], Free}
  BY DEF ClaimLapses, LeaderExit, MembersExit, SpawnError, SetCapacity, ScanStarts, ScanEnds,
         TestsEnd, CloseAdmission, Shutdown, ShutdownEnds, vars, locks, TypeOK
<1> QED
  BY <1>1, <1>2 DEF Booking

\* A request that arrives names the claim in force, if it names one.
LEMMA OwnersArrive ==
  ASSUME IInv, OwnerInv, NEW c \in Calls, NEW k \in Kinds, NEW p \in Projects,
         NEW w \in Worktrees, NEW a \in Owners, Arrives(c, k, p, w, a)
  PROVE  OwnerInv'
<1> USE DEF IInv
<1>1. /\ call[c] = Unused /\ resv' = resv
      /\ \A d \in Calls : d # c => call'[d] = call[d]
      /\ k \in HumanKinds => a = Human
      /\ k \in ClaimedKinds => resv[p] # Free /\ resv[p].owner = a /\ resv[p].worktree = w
  BY DEF Arrives, TypeOK, locks
<1>2. /\ call'[c].kind = k /\ call'[c].stage = "queued" /\ call'[c].project = p
      /\ call'[c].worktree = w /\ call'[c].owner = a
      /\ k \in ClaimedKinds => call'[c].claim = resv[p].id
  BY DEF Arrives, TypeOK
<1>3. \A d \in Calls : Made(d) => d # c
  BY <1>1 DEF Made
<1>4. \A d \in Calls : d # c => (Pending(d)' <=> Pending(d)) /\ (Made(d)' <=> Made(d))
  BY <1>1 DEF Made, Pending
<1>5. \A q \in Projects : resv[q] # Free => resv[q].id \in Calls /\ Made(resv[q].id)
  BY DEF OwnerInv, ClaimsMatch, TypeOK, Reservations
<1>6. ASSUME NEW m \in Calls, Made(m)
      PROVE  Made(m)'
  BY <1>3, <1>4, <1>6
<1>7. ASSUME NEW q \in Projects, resv'[q] # Free
      PROVE  \E m \in Calls : m = resv'[q].id /\ Made(m)'
  <2>1. PICK m \in Calls : m = resv[q].id /\ Made(m)
    BY <1>1, <1>5, <1>7
  <2> QED
    BY <1>1, <1>6, <2>1
<1>8. ASSUME NEW d \in Calls, Pending(d)', call'[d].kind \in ClaimedKinds
      PROVE  /\ \E m \in Calls : m = call'[d].claim /\ Made(m)'
             /\ InForce(d)' => /\ resv'[Of(d)'].worktree = call'[d].worktree
                               /\ resv'[Of(d)'].owner = call'[d].owner
  <2>1. CASE d = c
    <3>1. resv[p] # Free
      BY <1>1, <1>2, <1>8, <2>1
    <3>2. PICK m \in Calls : m = resv[p].id /\ Made(m)
      BY <1>5, <3>1
    <3> QED
      BY <1>1, <1>2, <1>6, <1>8, <2>1, <3>2 DEF InForce, Of
  <2>2. CASE d # c
    <3>1. Pending(d) /\ call'[d] = call[d]
      BY <1>1, <1>4, <1>8, <2>2
    <3>2. PICK m \in Calls : m = call[d].claim /\ Made(m)
      BY <1>8, <3>1 DEF OwnerInv, ClaimsMatch
    <3>3. Made(m)'
      BY <1>6, <3>2
    <3>4. InForce(d)' => /\ resv'[Of(d)'].worktree = call'[d].worktree
                         /\ resv'[Of(d)'].owner = call'[d].owner
      BY <1>1, <1>8, <3>1 DEF OwnerInv, ClaimsMatch, InForce, Of
    <3> QED
      BY <3>1, <3>2, <3>3, <3>4
  <2> QED
    BY <2>1, <2>2
<1>9. ClaimsMatch'
  <2>1. ASSUME NEW q \in Projects, resv'[q] # Free
        PROVE  Made(resv[q].id)'
    BY <1>7, <2>1 DEF Made, Pending
  <2>2. ASSUME NEW d \in Calls, Pending(d)', call'[d].kind \in ClaimedKinds
        PROVE  call'[d].claim \in Calls /\ Made(call[d].claim)'
    BY <1>8, <2>2 DEF Made, Pending
  <2> QED
    BY <1>8, <2>1, <2>2 DEF ClaimsMatch
<1>10. OperatorsMatch'
  <2>1. ASSUME NEW d \in Calls, Pending(d)'
        PROVE  /\ call'[d].kind \in HumanKinds => call'[d].owner = Human
               /\ call'[d].stage \in Operating /\ resv'[Of(d)'] # Free
                    => resv'[Of(d)'].owner = call'[d].owner
    <3>1. CASE d = c
      BY <1>1, <1>2, <3>1 DEF Operating
    <3>2. CASE d # c
      BY <1>1, <1>4, <2>1, <3>2 DEF OwnerInv, OperatorsMatch, Of
    <3> QED
      BY <3>1, <3>2
  <2> QED
    BY <2>1 DEF OperatorsMatch
<1> QED
  BY <1>9, <1>10 DEF OwnerInv

\* Every step keeps the owners' invariant.
LEMMA OwnerInductive ==
  ASSUME IInv, OwnerInv, [Next]_vars
  PROVE  OwnerInv'
<1>1. TypeOK'
  BY Inductive DEF IInv
<1>2. ASSUME NEW c \in Calls, Continues(c)
      PROVE  OwnerInv'
  BY <1>1, <1>2, TurnsBook, AnswersBook, ServersBook, BookingKept DEF Continues
<1>3. ASSUME NEW p \in Projects, CleanupSettled(p)
      PROVE  OwnerInv'
  BY <1>1, <1>3, CleanupsBook, BookingKept DEF IInv
<1>4. CASE \/ \E p \in Projects : ClaimLapses(p)
           \/ \E g \in Calls : LeaderExit(g) \/ MembersExit(g) \/ SpawnError(g)
           \/ \E n \in Limits : SetCapacity(n)
           \/ \E place \in Places : ScanStarts(place) \/ ScanEnds(place) \/ TestsEnd(place)
           \/ CloseAdmission \/ Shutdown \/ ShutdownEnds \/ UNCHANGED vars
  BY <1>1, <1>4, OthersBook, BookingKept DEF IInv
<1> QED
  BY <1>2, <1>3, <1>4, OwnersArrive DEF Next

-----------------------------------------------------------------------------
(* Spawning and stopping. *)

\* No server is spawned and no stop begins beside the operations.
LEMMA OthersShrink ==
  ASSUME IInv, [Next]_vars, ~(\E c \in Calls : Continues(c)), NEW p \in Projects
  PROVE  /\ rt'[p].group \in {0, rt[p].group}
         /\ rt[p].cleanup = "no" /\ rt'[p].cleanup = "stop" => closing'
<1> USE DEF IInv
<1>1. CASE \E q \in Projects : CleanupSettled(q)
  <2>1. PICK q \in Projects : CleanupSettled(q)
    BY <1>1
  <2>2. /\ Shrinks /\ rt[q].cleanup # "no"
        /\ \A r \in Projects : r # q => rt'[r] = rt[r]
    BY <2>1, CleanupShrinks DEF CleanupSettled, CleanupEnds, CleanupUnconfirmed
  <2> QED
    BY <2>2 DEF Shrinks
<1>2. CASE \E g \in Calls : LeaderExit(g) \/ MembersExit(g) \/ SpawnError(g)
  <2>1. PICK g \in Calls : LeaderExit(g) \/ MembersExit(g) \/ SpawnError(g)
    BY <1>2
  <2>2. Shrinks
    BY <2>1, ExitsQuiet DEF Quiet
  <2>3. rt[p] \in Runtimes /\ Cleaned(p, "exit") \in Runtimes
    BY CleanedTyped DEF TypeOK
  <2>4. CASE LeaderExit(g) /\ rt[p].group = g /\ proc[g].project = p
    <3>1. rt'[p] = [Cleaned(p, "exit") EXCEPT !.child = FALSE]
      BY <2>4 DEF LeaderExit, TypeOK
    <3>2. rt'[p].cleanup = Cleaned(p, "exit").cleanup
      BY <2>3, <3>1 DEF Runtimes
    <3>3. Cleaned(p, "exit").cleanup \in {rt[p].cleanup, "exit"}
      BY <2>3 DEF Cleaned, Runtimes
    <3> QED
      BY <2>2, <3>2, <3>3 DEF Shrinks
  <2>5. CASE SpawnError(g) /\ rt[p].group = g /\ proc[g].project = p
    <3>1. rt' = [rt EXCEPT ![p].phase = "failed", ![p].group = 0, ![p].child = FALSE]
      BY <2>5 DEF SpawnError
    <3>2. rt'[p].cleanup = rt[p].cleanup
      BY <2>3, <3>1 DEF TypeOK, Runtimes
    <3> QED
      BY <2>2, <3>2 DEF Shrinks
  <2>6. CASE proc[g].project # p \/ rt[p].group # g \/ MembersExit(g)
    <3>1. rt'[p] = rt[p]
      BY <2>1, <2>6 DEF LeaderExit, MembersExit, SpawnError, TypeOK
    <3> QED
      BY <2>2, <3>1 DEF Shrinks
  <2> QED
    BY <2>1, <2>4, <2>5, <2>6
<1>3. CASE Shutdown
  BY <1>3, StoppingKeeps DEF Shutdown
<1>4. CASE rt' = rt
  BY <1>4
<1>5. \/ rt' = rt \/ Shutdown
      \/ \E q \in Projects : CleanupSettled(q)
      \/ \E g \in Calls : LeaderExit(g) \/ MembersExit(g) \/ SpawnError(g)
  BY DEF Next, Arrives, ClaimLapses, SetCapacity, ScanStarts, ScanEnds, TestsEnd,
         CloseAdmission, ShutdownEnds, vars, servers
<1> QED
  BY <1>1, <1>2, <1>3, <1>4, <1>5

\* The spawn of a call: its entry gets the call's group, the others stay.
LEMMA SpawnEntries ==
  ASSUME TypeOK, NEW c \in Calls, PortFree(c), MaySpawn(c)
  PROVE  /\ Pending(c) /\ call[c].stage = "port" /\ Of(c) \in Projects
         /\ call'[c] # call[c] /\ rt'[Of(c)].worktree = Target(c)
         /\ \A p \in Projects : p # Of(c) => rt'[p] = rt[p]
<1>1. Pending(c) /\ call[c].stage = "port"
  BY DEF PortFree, Pending, Stages
<1>2. Of(c) \in Projects /\ call[c] \in Requests
  BY <1>1, PendingTyped
<1>3. call'[c] = [call[c] EXCEPT !.stage = "health"]
  BY DEF PortFree, At, TypeOK
<1>4. call'[c].stage = "health"
  BY <1>2, <1>3 DEF Requests
<1>5. rt' = [rt EXCEPT ![Of(c)] = Entry("starting", Target(c), c)]
  BY DEF PortFree
<1> QED
  BY <1>1, <1>2, <1>4, <1>5 DEF TypeOK, Entry

\* Operations that spawn nothing give up groups at most.
LEMMA ContinuesShrinks ==
  ASSUME IInv, NEW c \in Calls, Continues(c), ~(PortFree(c) /\ MaySpawn(c)),
         NEW p \in Projects
  PROVE  rt'[p].group \in {0, rt[p].group}
<1>1. Quiet
  BY TurnsQuiet, AnswersQuiet, ServersQuiet DEF Continues, IInv
<1> QED
  BY <1>1 DEF Quiet, Shrinks

\* The step of an operation: it stops and spawns as the owner.
LEMMA StepOperates ==
  ASSUME IInv, OwnerInv, [Next]_vars, NEW p \in Projects, ~closing', resv[p] # Free,
         \/ rt'[p].group \notin {0, rt[p].group}
         \/ rt[p].cleanup = "no" /\ rt'[p].cleanup = "stop"
  PROVE  \E c \in Calls : On(c, p) /\ call'[c] # call[c] /\ call[c].owner = resv[p].owner
<1>1. PICK c \in Calls : Continues(c)
  BY OthersShrink
<1>2. Pending(c)
  BY <1>1 DEF Continues, Turns, TurnUnknown, TurnAsksGit, TurnStop, TurnProfile, TurnRemove,
     TurnRelease, TurnClaimed, Turn, Answers, GitFails, GitOperate, GitClaimed, GitClaim,
     GitReserve, GitTest, SourceObserved, GitClean, CacheRemoved, Servers, AfterStop,
     PortTaken, PortFree, Healthy, Aborted, Deadline, TimedOut, Pending, Stages
<1>3. CASE rt[p].cleanup = "no" /\ rt'[p].cleanup = "stop"
  <2>1. Begins(c)
    BY <1>1, TurnsBook, AnswersBook, ServersBook DEF Continues
  <2>2. p = Of(c) /\ call'[c] # call[c] /\ resv[p].owner = call[c].owner
    BY <1>3, <2>1 DEF Begins
  <2> QED
    BY <1>2, <2>2 DEF On, Of
<1>4. CASE rt'[p].group \notin {0, rt[p].group}
  <2>1. PortFree(c) /\ MaySpawn(c)
    BY <1>1, <1>4, ContinuesShrinks
  <2>2. p = Of(c) /\ call'[c] # call[c] /\ call[c].stage = "port"
    BY <1>4, <2>1, SpawnEntries DEF IInv
  <2>3. resv[p].owner = call[c].owner
    BY <1>2, <2>2 DEF OwnerInv, OperatorsMatch, Operating
  <2> QED
    BY <1>2, <2>2, <2>3 DEF On, Of
<1> QED
  BY <1>3, <1>4

\* The step that spawns a server under a claim, which is in force.
LEMMA StepSpawns ==
  ASSUME IInv, OwnerInv, [Next]_vars, NEW c \in Calls, Pending(c),
         call[c].kind \in ClaimedKinds, rt'[Of(c)].group = c, rt[Of(c)].group # c
  PROVE  /\ resv[Of(c)] # Free /\ resv[Of(c)].id = call[c].claim
         /\ resv[Of(c)].worktree = rt'[Of(c)].worktree
<1>1. Of(c) \in Projects /\ c # 0
  BY PendingTyped DEF IInv, Calls
<1>2. PICK d \in Calls : Continues(d)
  BY <1>1, OthersShrink
<1>3. PortFree(d) /\ MaySpawn(d)
  BY <1>1, <1>2, ContinuesShrinks
<1>4. Of(c) = Of(d)
  BY <1>1, <1>3, SpawnEntries DEF IInv
<1>5. c = d
  <2>1. rt'[Of(d)] = Entry("starting", Target(d), d)
    BY <1>1, <1>3, <1>4 DEF PortFree, IInv, TypeOK
  <2> QED
    BY <1>4, <2>1 DEF Entry
<1>6. InForce(c) /\ Target(c) = call[c].worktree
  BY <1>3, <1>5 DEF MaySpawn, Target, ClaimedKinds
<1>7. resv[Of(c)].worktree = call[c].worktree
  BY <1>6 DEF OwnerInv, ClaimsMatch
<1> QED
  BY <1>3, <1>5, <1>6, <1>7, SpawnEntries DEF InForce, IInv

-----------------------------------------------------------------------------
(* What holds of every behaviour. *)

\* An operation that was judged by the project's reservation stays its owner's,
\* whatever claims lapse and are taken across its awaits.
THEOREM OwnersHold == Spec => []OwnerInv
<1>1. Init => OwnerInv
  BY OwnersInitially
<1>2. IInv /\ OwnerInv /\ [Next]_vars => OwnerInv'
  BY OwnerInductive
<1> QED
  BY <1>1, <1>2, Invariance, PTL DEF Spec

\* Nobody's server is spawned or stopped against a reservation in force.
THEOREM OperatesAsOwner == Spec => OperatedByOwner
<1>1. IInv /\ OwnerInv /\ [Next]_vars =>
        [\A p \in Projects :
           /\ ~closing' /\ resv[p] # Free
           /\ \/ rt'[p].group \notin {0, rt[p].group}
              \/ rt[p].cleanup = "no" /\ rt'[p].cleanup = "stop"
           => \E c \in Calls :
                On(c, p) /\ call'[c] # call[c] /\ call[c].owner = resv[p].owner]_vars
  BY StepOperates
<1> QED
  BY <1>1, Invariance, OwnersHold, PTL DEF Spec, OperatedByOwner

\* A server spawned under a claim starts while that very claim is in force, in its
\* worktree, however long Git, the stop and the port check took.
THEOREM SpawnsUnderClaim == Spec => SpawnedUnderClaim
<1>1. IInv /\ OwnerInv /\ [Next]_vars =>
        [\A c \in Calls :
           /\ Pending(c) /\ call[c].kind \in ClaimedKinds /\ rt'[Of(c)].group = c
           /\ rt[Of(c)].group # c
           => /\ resv[Of(c)] # Free /\ resv[Of(c)].id = call[c].claim
              /\ resv[Of(c)].worktree = rt'[Of(c)].worktree]_vars
  BY StepSpawns
<1> QED
  BY <1>1, Invariance, OwnersHold, PTL DEF Spec, SpawnedUnderClaim

-----------------------------------------------------------------------------
(* What operations, entries, slots and deletions owe to each other. *)

\* The call has had its turn and has not ended.
Operates(c) == Pending(c) /\ call[c].stage # "queued"

\* What an operation found, or did, that stays so across its awaits.
CallInv(c) == Operates(c) =>
  LET p == Of(c)
      s == call[c].stage
      k == call[c].kind IN
  /\ p \in reg
  /\ k = "remove" => \A w \in Worktrees : <<p, w>> \notin tests
  /\ s = "stopped" => rt[p].group = 0
  /\ s = "port" => p \in pending
  /\ s \in {"stop", "stopped"} /\ k \notin {"stop", "claimed_stop", "remove"} => p \in pending

\* A server that starts or runs has a group, and so has an exit being cleaned up.
EntryInv(e) ==
  /\ e.phase \in {"starting", "running"} \/ e.child => e.group # 0
  /\ e.phase = "stopping" => e.cleanup # "no"
  /\ e.phase = "stopping" /\ e.cleanup = "exit" => e.group # 0
\* A stop that is under way was asked for by an operation that awaits it.
Halting(e) == e.phase = "stopping" /\ e.cleanup = "stop"
StopAwaited(p) == Halting(rt[p]) /\ ~closing => \E c \in Calls : Waiting(c, p)
\* A slot is held by an operation in progress.
SlotUsed(p) == p \in pending => \E c \in Calls : Operates(c) /\ Of(c) = p
\* The deletion that keeps the worktree under maintenance.
Cleans(c, p, w) ==
  Operates(c) /\ Of(c) = p /\ call[c].stage = "cleaning" /\ call[c].worktree = w
Undisturbed(p) == \A w \in Worktrees : <<p, w>> \in maintenance =>
  /\ <<p, w>> \notin scans /\ <<p, w>> \notin tests
  /\ resv[p] # Free => resv[p].worktree # w
  /\ rt[p].worktree = w => rt[p].phase \notin {"starting", "running"}
  /\ \E c \in Calls : Cleans(c, p, w)
\* A project that was removed has no group and no test.
Emptied(p) == p \notin reg => rt[p].group = 0 /\ \A w \in Worktrees : <<p, w>> \notin tests
ProjectInv(p) ==
  EntryInv(rt[p]) /\ StopAwaited(p) /\ SlotUsed(p) /\ Undisturbed(p) /\ Emptied(p)

WorkInv == (\A c \in Calls : CallInv(c)) /\ (\A p \in Projects : ProjectInv(p))

\* The one operation of its project: the others have ended or are queued.
Alone(c) == \A d \in Calls : d # c /\ Operates(d) => Of(d) # Of(c)
\* What the step leaves of a project as it was.
Apart(p) ==
  /\ rt'[p] = rt[p] /\ resv'[p] = resv[p]
  /\ p \in pending' <=> p \in pending
  /\ p \in reg' <=> p \in reg
  /\ \A w \in Worktrees : /\ <<p, w>> \in maintenance' <=> <<p, w>> \in maintenance
                          /\ <<p, w>> \in scans' <=> <<p, w>> \in scans
                          /\ <<p, w>> \in tests' <=> <<p, w>> \in tests
\* The step of one call, which leaves other calls and other projects alone.
Step(c) ==
  /\ Pending(c) /\ Kept(c)
  /\ \A d \in Calls : d # c => call'[d] = call[d]
  /\ \A p \in Projects : p # Of(c) => Apart(p)
  /\ closing' = closing

\* The initial state, in which nothing is in progress.
LEMMA WorkInitially ==
  ASSUME Init
  PROVE  WorkInv
<1>1. ASSUME NEW c \in Calls
      PROVE  CallInv(c)
  BY <1>1 DEF Init, CallInv, Operates, Pending, Unused, Stages
<1>2. ASSUME NEW p \in Projects
      PROVE  ProjectInv(p)
  <2>1. rt[p] = [phase |-> "stopped", worktree |-> NoEntry, group |-> 0, child |-> FALSE,
                 cleanup |-> "no"]
    BY DEF Init, Entry
  <2> QED
    BY <2>1 DEF Init, ProjectInv, EntryInv, StopAwaited, Halting, SlotUsed, Undisturbed, Emptied
<1> QED
  BY <1>1, <1>2 DEF WorkInv

\* A call that operates, or takes its turn, is alone on its project.
LEMMA OneOperates ==
  ASSUME IInv, NEW c \in Calls, Pending(c), call[c].stage = "queued" => Turn(c)
  PROVE  Alone(c)
<1> SUFFICES ASSUME NEW d \in Calls, d # c, Operates(d), Of(d) = Of(c)
             PROVE  FALSE
  BY DEF Alone
<1>1. Pending(d) /\ call[d].stage # "queued"
  BY DEF Operates
<1>2. PICK i \in Nat : i = c
  BY DEF Calls
<1>3. PICK j \in Nat : j = d
  BY DEF Calls
<1>4. CASE c < d
  BY <1>1, <1>4 DEF IInv, InOrder
<1>5. CASE d < c
  <2>1. call[c].stage = "queued"
    BY <1>1, <1>5 DEF IInv, InOrder
  <2> QED
    BY <1>1, <1>5, <2>1 DEF Turn, On, Of
<1> QED
  BY <1>2, <1>3, <1>4, <1>5

\* What the one operation of a project can rely on when it goes on.
LEMMA AloneFacts ==
  ASSUME WorkInv, NEW c \in Calls, Alone(c), Of(c) \in Projects
  PROVE  /\ Of(c) \in pending => Operates(c)
         /\ \A w \in Worktrees : <<Of(c), w>> \in maintenance => Cleans(c, Of(c), w)
         /\ call[c].stage \notin {"stop", "abort", "late"} =>
              (Halting(rt[Of(c)]) => closing)
<1>1. Of(c) \in pending => Operates(c)
  BY DEF WorkInv, ProjectInv, SlotUsed, Alone
<1>2. \A w \in Worktrees : <<Of(c), w>> \in maintenance => Cleans(c, Of(c), w)
  BY DEF WorkInv, ProjectInv, Undisturbed, Alone, Cleans
<1>3. ASSUME NEW d \in Calls, Waiting(d, Of(c))
      PROVE  Operates(d) /\ Of(d) = Of(c) /\ call[d].stage \in {"stop", "abort", "late"}
  BY <1>3 DEF Waiting, On, Operates, Of
<1>4. call[c].stage \notin {"stop", "abort", "late"} => (Halting(rt[Of(c)]) => closing)
  BY <1>3 DEF WorkInv, ProjectInv, StopAwaited, Alone
<1> QED
  BY <1>1, <1>2, <1>4

\* The step of one call keeps what it owes if it does so for its own project.
LEMMA StepKeeps ==
  ASSUME IInv, WorkInv, NEW c \in Calls, Alone(c), Step(c), NEW q \in Projects, q = Of(c),
         CallInv(c)', ProjectInv(q)'
  PROVE  WorkInv'
<1>1. ASSUME NEW d \in Calls, d # c
      PROVE  CallInv(d)'
  <2>1. call'[d] = call[d]
    BY <1>1 DEF Step
  <2>2. CASE ~Operates(d)
    BY <2>1, <2>2 DEF CallInv, Operates, Pending
  <2>3. CASE Operates(d)
    <3>1. PICK p : p = Of(d)
      OBVIOUS
    <3>2. p \in Projects /\ p # q
      BY <1>1, <2>3, <3>1, PendingTyped DEF Alone, Operates, IInv
    <3>3. Apart(p)
      BY <3>2 DEF Step
    <3>4. CallInv(d)
      BY DEF WorkInv
    <3> QED
      BY <2>1, <2>3, <3>1, <3>3, <3>4 DEF CallInv, Operates, Pending, Of, Apart
  <2> QED
    BY <2>2, <2>3
<1>2. ASSUME NEW p \in Projects, p # q
      PROVE  ProjectInv(p)'
  <2>1. Apart(p) /\ ProjectInv(p)
    BY <1>2 DEF Step, WorkInv
  <2>2. ASSUME NEW d \in Calls, Operates(d), Of(d) = p
        PROVE  /\ Operates(d)' /\ Of(d)' = p /\ call'[d] = call[d]
    BY <1>2, <2>2 DEF Step, Operates, Pending, Of
  <2>3. ASSUME NEW d \in Calls, Waiting(d, p)
        PROVE  Waiting(d, p)'
    <3>1. Of(d) = p
      BY <2>3 DEF Waiting, On, Of
    <3>2. call'[d] = call[d]
      BY <1>2, <3>1 DEF Step
    <3> QED
      BY <2>3, <3>2 DEF Waiting, On, Pending
  <2>4. EntryInv(rt[p])' /\ StopAwaited(p)'
    <3>1. closing' = closing
      BY DEF Step
    <3> QED
      BY <2>1, <2>3, <3>1 DEF ProjectInv, StopAwaited, Halting, EntryInv, Apart
  <2>5. SlotUsed(p)'
    BY <2>1, <2>2 DEF ProjectInv, SlotUsed, Apart
  <2>6. Undisturbed(p)'
    <3> SUFFICES ASSUME NEW w \in Worktrees, <<p, w>> \in maintenance'
                 PROVE  /\ <<p, w>> \notin scans' /\ <<p, w>> \notin tests'
                        /\ resv'[p] # Free => resv'[p].worktree # w
                        /\ rt'[p].worktree = w => rt'[p].phase \notin {"starting", "running"}
                        /\ \E d \in Calls : Cleans(d, p, w)'
      BY DEF Undisturbed
    <3>1. <<p, w>> \in maintenance
      BY <2>1 DEF Apart
    <3>2. PICK d \in Calls : Cleans(d, p, w)
      BY <2>1, <3>1 DEF ProjectInv, Undisturbed
    <3>3. Cleans(d, p, w)'
      BY <2>2, <3>2 DEF Cleans
    <3> QED
      BY <2>1, <3>1, <3>3 DEF ProjectInv, Undisturbed, Apart
  <2>7. Emptied(p)'
    BY <2>1 DEF ProjectInv, Emptied, Apart
  <2> QED
    BY <2>4, <2>5, <2>6, <2>7 DEF ProjectInv
<1> QED
  BY <1>1, <1>2 DEF WorkInv

\* A call that has ended owes nothing.
LEMMA DoneInv ==
  ASSUME NEW c \in Calls, call'[c] = Done
  PROVE  CallInv(c)' /\ ~Operates(c)'
  BY DEF CallInv, Operates, Pending, Done, Stages

\* A call that goes on owes what its new stage says.
LEMMA OnwardInv ==
  ASSUME NEW c \in Calls, Kept(c), call'[c] # Done, NEW q, q = Of(c), q \in reg',
         call[c].kind = "remove" => \A w \in Worktrees : <<q, w>> \notin tests',
         call'[c].stage = "stopped" => rt'[q].group = 0,
         call'[c].stage = "port" => q \in pending',
         call'[c].stage \in {"stop", "stopped"} /\ call[c].kind \notin {"stop", "claimed_stop", "remove"}
           => q \in pending'
  PROVE  CallInv(c)' /\ Operates(c)' /\ Of(c)' = q
<1>1. /\ call'[c].stage \in Stages /\ call'[c].stage # "queued"
      /\ call'[c].project = q /\ call'[c].kind = call[c].kind
  BY DEF Kept, Requests, Of
<1>2. Operates(c)' /\ Of(c)' = q
  BY <1>1 DEF Operates, Pending, Of
<1> QED
  BY <1>1, <1>2 DEF CallInv

\* The step of a call that neither awaits a stop nor deletes: what its own project
\* needs of the new entry, the slot, the registry and the call.
LEMMA MoveKeeps ==
  ASSUME IInv, WorkInv, NEW c \in Calls, Step(c), call[c].stage = "queued" => Turn(c),
         call[c].stage \notin {"stop", "abort", "late", "cleaning"},
         NEW q \in Projects, q = Of(c), maintenance' = maintenance, EntryInv(rt'[q]),
         Halting(rt'[q]) => closing \/ Waiting(c, q)',
         q \in pending' => Operates(c)' /\ Of(c)' = q,
         q \notin reg' => rt'[q].group = 0 /\ \A w \in Worktrees : <<q, w>> \notin tests',
         CallInv(c)'
  PROVE  WorkInv'
<1>1. Alone(c)
  BY OneOperates DEF Step
<1>2. \A w \in Worktrees : <<q, w>> \notin maintenance'
  BY <1>1, AloneFacts DEF Cleans
<1>3. closing' = closing
  BY DEF Step
<1>4. ProjectInv(q)'
  BY <1>2, <1>3 DEF ProjectInv, EntryInv, StopAwaited, Halting, SlotUsed, Undisturbed, Emptied
<1> QED
  BY <1>1, <1>4, StepKeeps

\* A step that touches no worktree, no registration and no other reservation.
Calm(c) ==
  /\ \A p \in Projects : p # Of(c) => resv'[p] = resv[p]
  /\ reg' = reg /\ UNCHANGED work /\ closing' = closing
\* The stages in which a call goes on by itself.
Awake(c) ==
  /\ call[c].stage \in {"queued", "git", "observe", "stopped", "port", "health", "timed_out"}
  /\ call[c].stage = "queued" => Turn(c)

\* Other projects are left alone.
LEMMA CalmStep ==
  ASSUME TypeOK, NEW c \in Calls, Pending(c), Kept(c), \A d \in Calls : d # c => call'[d] = call[d],
         NEW q \in Projects, q = Of(c), Calm(c),
         \A p \in Projects : p # q => rt'[p] = rt[p],
         pending' \in {pending, pending \cup {q}, pending \ {q}}
  PROVE  Step(c)
<1>1. ASSUME NEW p \in Projects, p # q
      PROVE  Apart(p)
  BY <1>1 DEF Apart, Calm, work
<1> QED
  BY <1>1 DEF Step, Calm

\* An awake call is pending, its project known.
LEMMA AwakePends ==
  ASSUME TypeOK, NEW c \in Calls, Awake(c)
  PROVE  /\ Pending(c) /\ call[c] \in Requests /\ Of(c) \in Projects
         /\ rt[Of(c)] \in Runtimes
<1>1. Pending(c)
  BY DEF Awake, Pending, Stages
<1> QED
  BY <1>1, PendingTyped DEF TypeOK

\* What holds of the project of an awake call.
LEMMA AwakeFacts ==
  ASSUME IInv, WorkInv, NEW c \in Calls, Awake(c), NEW q \in Projects, q = Of(c)
  PROVE  /\ ProjectInv(q) /\ EntryInv(rt[q]) /\ Emptied(q)
         /\ Halting(rt[q]) => closing
         /\ q \in pending => Operates(c)
         /\ \A w \in Worktrees : <<q, w>> \notin maintenance
         /\ call[c].stage # "queued" => Operates(c) /\ CallInv(c) /\ q \in reg
<1>1. Pending(c) /\ Alone(c)
  BY AwakePends, OneOperates DEF Awake, IInv
<1>2. call[c].stage # "queued" => Operates(c) /\ CallInv(c) /\ q \in reg
  BY <1>1 DEF Operates, WorkInv, CallInv
<1>3. call[c].stage \notin {"stop", "abort", "late", "cleaning"}
  BY DEF Awake
<1>4. \A w \in Worktrees : <<q, w>> \notin maintenance
  BY <1>1, <1>3, AloneFacts DEF Cleans
<1> QED
  BY <1>1, <1>2, <1>3, <1>4, AloneFacts DEF WorkInv, ProjectInv

\* A call that ends, while entries and work stay.
LEMMA EndKeeps ==
  ASSUME IInv, WorkInv, NEW c \in Calls, Awake(c), Finish(c), UNCHANGED servers, Calm(c)
  PROVE  WorkInv'
<1> DEFINE q == Of(c)
<1>1. Pending(c) /\ q \in Projects /\ TypeOK
  BY AwakePends DEF IInv
<1>2. Kept(c) /\ call'[c] = Done /\ \A d \in Calls : d # c => call'[d] = call[d]
  BY <1>1 DEF Finish, TypeOK, Kept
<1>3. Step(c)
  BY <1>1, <1>2, CalmStep DEF Finish, servers
<1>4. CallInv(c)'
  BY <1>2, DoneInv
<1>5. q \notin pending'
  BY DEF Finish
<1>6. EntryInv(rt'[q]) /\ (Halting(rt'[q]) => closing)
  BY <1>1, AwakeFacts DEF servers
<1>7. q \notin reg' => rt'[q].group = 0 /\ \A w \in Worktrees : <<q, w>> \notin tests'
  BY <1>1, AwakeFacts DEF Emptied, servers, Calm, work
<1> QED
  BY <1>1, <1>3, <1>4, <1>5, <1>6, <1>7, MoveKeeps DEF Awake, Calm, work

\* A call that asks Git, or observes the source, while entries and work stay.
LEMMA AsksKeeps ==
  ASSUME IInv, WorkInv, NEW c \in Calls, Awake(c), Kept(c),
         call'[c] # Done, call'[c].stage \in {"git", "observe"},
         \A d \in Calls : d # c => call'[d] = call[d],
         Of(c) \in reg, call[c].stage = "queued" => call[c].kind # "remove",
         pending' = pending, UNCHANGED servers, Calm(c)
  PROVE  WorkInv'
<1> DEFINE q == Of(c)
<1>1. Pending(c) /\ q \in Projects /\ TypeOK
  BY AwakePends DEF IInv
<1>2. Step(c)
  BY <1>1, CalmStep DEF servers
<1>3. call[c].kind = "remove" => \A w \in Worktrees : <<q, w>> \notin tests'
  BY <1>1, AwakeFacts DEF CallInv, Calm, work
<1>4. CallInv(c)' /\ Operates(c)' /\ Of(c)' = q
  BY <1>3, OnwardInv DEF Calm
<1>5. EntryInv(rt'[q]) /\ (Halting(rt'[q]) => closing)
  BY <1>1, AwakeFacts DEF servers
<1>6. q \in reg'
  BY DEF Calm
<1> QED
  BY <1>1, <1>2, <1>4, <1>5, <1>6, MoveKeeps DEF Awake, Calm, work

\* The call that goes on to a stage, as a step of the calls.
LEMMA AtKept ==
  ASSUME TypeOK, NEW c \in Calls, Pending(c), NEW s \in Stages \ {"queued"}, call' = At(c, s)
  PROVE  /\ Kept(c) /\ call'[c] # Done /\ call'[c].stage = s
         /\ \A d \in Calls : d # c => call'[d] = call[d]
<1>1. call[c] \in Requests
  BY PendingTyped
<1>2. call'[c] = [call[c] EXCEPT !.stage = s] /\ \A d \in Calls : d # c => call'[d] = call[d]
  BY DEF At, TypeOK
<1>3. /\ call'[c] \in Requests /\ call'[c].stage = s
      /\ call'[c].project = call[c].project /\ call'[c].kind = call[c].kind
      /\ call'[c].worktree = call[c].worktree /\ call'[c].owner = call[c].owner
      /\ call'[c].claim = call[c].claim
  BY <1>1, <1>2 DEF Requests
<1>4. call'[c] # Done
  BY <1>3 DEF Done, Stages
<1> QED
  BY <1>2, <1>3, <1>4 DEF Kept

\* The entry whose stop begins.
LEMMA StoppingInv ==
  ASSUME TypeOK, NEW p \in Projects, EntryInv(rt[p])
  PROVE  /\ EntryInv(Stopping(p))
         /\ Stopping(p).group = rt[p].group /\ Stopping(p).worktree = rt[p].worktree
         /\ Stopping(p).phase \in {rt[p].phase, "stopping"}
         /\ Stopping(p) = rt[p] \/ rt[p].worktree # NoEntry
<1>1. rt[p] \in Runtimes
  BY DEF TypeOK
<1>2. CASE rt[p].worktree = NoEntry \/ rt[p].cleanup # "no"
  BY <1>2 DEF Stopping, Cleaned
<1>3. CASE ~(rt[p].worktree = NoEntry \/ rt[p].cleanup # "no")
  <2>1. Stopping(p) = [rt[p] EXCEPT !.phase = "stopping", !.cleanup = "stop"]
    BY <1>3 DEF Stopping, Cleaned
  <2>2. /\ Stopping(p).phase = "stopping" /\ Stopping(p).cleanup = "stop"
        /\ Stopping(p).group = rt[p].group /\ Stopping(p).worktree = rt[p].worktree
        /\ Stopping(p).child = rt[p].child
    BY <1>1, <2>1 DEF Runtimes
  <2> QED
    BY <1>3, <2>2 DEF EntryInv
<1> QED
  BY <1>2, <1>3

\* A call that begins a stop, with a slot unless it only stops.
LEMMA StopsKeep ==
  ASSUME IInv, WorkInv, NEW c \in Calls, Awake(c), NEW held \in BOOLEAN, Stops(c, held),
         Calm(c), Of(c) \in reg,
         call[c].kind = "remove" => \A w \in Worktrees : <<Of(c), w>> \notin tests,
         held \/ call[c].kind \in {"stop", "claimed_stop", "remove"}
  PROVE  WorkInv'
<1> DEFINE q == Of(c)
<1>1. Pending(c) /\ q \in Projects /\ TypeOK /\ EntryInv(rt[q])
  BY AwakePends, AwakeFacts DEF IInv
<1>2. /\ call' = At(c, Stopped(q)) /\ rt' = [rt EXCEPT ![q] = Stopping(q)]
      /\ pending' \in {pending, pending \cup {q}} /\ (held => q \in pending')
  BY DEF Stops
<1>3. /\ Kept(c) /\ call'[c] # Done /\ call'[c].stage = Stopped(q)
      /\ \A d \in Calls : d # c => call'[d] = call[d]
  BY <1>1, <1>2, AtKept DEF Stopped, Stages
<1>4. rt'[q] = Stopping(q) /\ \A p \in Projects : p # q => rt'[p] = rt[p]
  BY <1>1, <1>2 DEF TypeOK
<1>5. Step(c)
  BY <1>1, <1>2, <1>3, <1>4, CalmStep
<1>6. call'[c].stage = "stopped" => rt'[q].group = 0
  <2>1. rt[q].group # 0 => rt[q].worktree # NoEntry
    BY <1>1 DEF IInv, ShutdownCovers
  <2> QED
    BY <1>1, <1>3, <1>4, <2>1, StoppingInv DEF Stopped
<1>7. CallInv(c)' /\ Operates(c)' /\ Of(c)' = q
  BY <1>2, <1>3, <1>6, OnwardInv DEF Calm, work, Stopped
<1>8. Halting(rt'[q]) => closing \/ Waiting(c, q)'
  <2>1. CASE rt[q].worktree = NoEntry
    <3>1. rt'[q] = rt[q]
      BY <1>4, <2>1 DEF Stopping
    <3> QED
      BY <1>1, <3>1, AwakeFacts
  <2>2. CASE rt[q].worktree # NoEntry
    <3>1. call'[c].stage = "stop"
      BY <1>3, <2>2 DEF Stopped
    <3> QED
      BY <1>7, <3>1 DEF Waiting, On, Operates, Of
  <2> QED
    BY <2>1, <2>2
<1>9. EntryInv(rt'[q]) /\ q \in reg'
  BY <1>1, <1>4, StoppingInv DEF Calm
<1> QED
  BY <1>1, <1>5, <1>7, <1>8, <1>9, MoveKeeps DEF Awake, Calm, work

\* A call that goes on to the port check with a slot, or is refused.
LEMMA LaunchesKeep ==
  ASSUME IInv, WorkInv, NEW c \in Calls, Awake(c), Launches(c), Calm(c), Of(c) \in reg,
         call[c].kind # "remove"
  PROVE  WorkInv'
<1> DEFINE q == Of(c)
<1>1. Pending(c) /\ q \in Projects /\ TypeOK /\ EntryInv(rt[q])
  BY AwakePends, AwakeFacts DEF IInv
<1>2. CASE Finish(c)
  BY <1>2, EndKeeps DEF Launches
<1>3. CASE ~Finish(c)
  <2>1. call' = At(c, "port") /\ pending' = pending \cup {q} /\ UNCHANGED servers
    BY <1>3 DEF Launches
  <2>2. /\ Kept(c) /\ call'[c] # Done /\ call'[c].stage = "port"
        /\ \A d \in Calls : d # c => call'[d] = call[d]
    BY <1>1, <2>1, AtKept DEF Stages
  <2>3. Step(c)
    BY <1>1, <2>1, <2>2, CalmStep DEF servers
  <2>4. CallInv(c)' /\ Operates(c)' /\ Of(c)' = q
    BY <2>1, <2>2, OnwardInv DEF Calm
  <2>5. EntryInv(rt'[q]) /\ (Halting(rt'[q]) => closing) /\ q \in reg'
    BY <1>1, <2>1, AwakeFacts DEF servers, Calm
  <2> QED
    BY <1>1, <2>3, <2>4, <2>5, MoveKeeps DEF Awake, Calm, work
<1> QED
  BY <1>2, <1>3

-----------------------------------------------------------------------------
(* The operations keep it. *)

\* An operation that takes its turn.
LEMMA TurnsKeep ==
  ASSUME IInv, WorkInv, NEW c \in Calls, Turns(c)
  PROVE  WorkInv'
<1>0. Awake(c)
  BY DEF Turns, TurnUnknown, TurnAsksGit, TurnStop, TurnProfile, TurnRemove, TurnRelease,
         TurnClaimed, Turn, Awake
<1>a. Pending(c) /\ call[c] \in Requests /\ Of(c) \in Projects /\ TypeOK
  BY <1>0, AwakePends DEF IInv
<1>c. ASSUME UNCHANGED <<locks, work, control>>
      PROVE  Calm(c)
  BY <1>c DEF Calm, locks, control
<1>1. CASE TurnUnknown(c)
  BY <1>0, <1>1, <1>c, EndKeeps DEF TurnUnknown
<1>2. CASE TurnAsksGit(c)
  <2>1. /\ Kept(c) /\ call'[c] # Done /\ call'[c].stage = "git"
        /\ \A d \in Calls : d # c => call'[d] = call[d]
    BY <1>a, <1>2, AtKept DEF TurnAsksGit, Stages
  <2>2. /\ Of(c) \in reg /\ call[c].kind # "remove" /\ pending' = pending
        /\ UNCHANGED servers /\ UNCHANGED <<locks, work, control>>
    BY <1>2 DEF TurnAsksGit
  <2> QED
    BY <1>0, <1>c, <2>1, <2>2, AsksKeeps
<1>3. CASE TurnStop(c)
  BY <1>0, <1>3, <1>c, EndKeeps, StopsKeep DEF TurnStop
<1>4. CASE TurnProfile(c)
  BY <1>0, <1>4, <1>c, EndKeeps, StopsKeep DEF TurnProfile
<1>5. CASE TurnRemove(c)
  BY <1>0, <1>5, <1>c, EndKeeps, StopsKeep DEF TurnRemove
<1>6. CASE TurnRelease(c)
  <2>1. Calm(c)
    BY <1>6, <1>a DEF TurnRelease, Calm, control, TypeOK
  <2> QED
    BY <1>0, <1>6, <2>1, EndKeeps DEF TurnRelease
<1>7. CASE TurnClaimed(c)
  <2>0. Calm(c) /\ Of(c) \in reg /\ call[c].kind \in ClaimedKinds
    BY <1>7, <1>c DEF TurnClaimed
  <2>1. CASE Finish(c) /\ UNCHANGED servers
    BY <1>0, <2>0, <2>1, EndKeeps
  <2>2. CASE ~(Finish(c) /\ UNCHANGED servers) /\ Stops(c, FALSE) /\ call[c].kind = "claimed_stop"
    BY <1>0, <2>0, <2>2, StopsKeep
  <2>3. CASE ~(Finish(c) /\ UNCHANGED servers) /\ ~(Stops(c, FALSE) /\ call[c].kind = "claimed_stop")
    <3>1. PICK b \in BOOLEAN :
            call' = [call EXCEPT ![c].stage = "git", ![c].had = b]
            /\ UNCHANGED <<pending, servers>>
      BY <1>7, <2>3 DEF TurnClaimed
    <3> DEFINE r == [[call[c] EXCEPT !.stage = "git"] EXCEPT !.had = b]
    <3>2. /\ r \in Requests /\ r.stage = "git"
          /\ r.project = call[c].project /\ r.kind = call[c].kind
          /\ r.worktree = call[c].worktree /\ r.owner = call[c].owner
          /\ r.claim = call[c].claim
      BY <1>a DEF Requests, Stages
    <3>3. call'[c] = r /\ \A d \in Calls : d # c => call'[d] = call[d]
      BY <3>1, <1>a DEF TypeOK, Requests
    <3> HIDE DEF r
    <3>4. Kept(c) /\ call'[c] # Done /\ call'[c].stage = "git"
      BY <3>2, <3>3 DEF Kept, Done
    <3>5. call[c].kind # "remove"
      BY <2>0 DEF ClaimedKinds
    <3>6. pending' = pending /\ UNCHANGED servers /\ \A d \in Calls : d # c => call'[d] = call[d]
      BY <3>1, <3>3
    <3> QED
      BY <1>0, <2>0, <3>4, <3>5, <3>6, AsksKeeps
  <2> QED
    BY <2>1, <2>2, <2>3
<1> QED
  BY <1>1, <1>2, <1>3, <1>4, <1>5, <1>6, <1>7 DEF Turns

\* A call that deletes a cache: nothing else uses the worktree, nor may begin to.
LEMMA CleanKeeps ==
  ASSUME IInv, WorkInv, NEW c \in Calls, GitClean(c), Deletable(Of(c), call[c].worktree)
  PROVE  WorkInv'
<1>q. PICK q, w : q = Of(c) /\ w = call[c].worktree
  OBVIOUS
<1>0. Awake(c) /\ call[c].stage = "git" /\ call[c].kind = "clean"
  BY DEF GitClean, Awake
<1>1. Pending(c) /\ q \in Projects /\ TypeOK /\ call[c] \in Requests /\ w \in Worktrees
  BY <1>q, <1>0, AwakePends DEF IInv, Requests
<1>2. /\ call' = At(c, "cleaning") /\ maintenance' = maintenance \cup {<<q, w>>}
      /\ UNCHANGED <<pending, locks, servers, scans, tests, control>>
  BY <1>q DEF GitClean
<1>3. /\ Kept(c) /\ call'[c] # Done /\ call'[c].stage = "cleaning"
      /\ \A d \in Calls : d # c => call'[d] = call[d]
  BY <1>1, <1>2, AtKept DEF Stages
<1>4. Step(c)
  <2>1. ASSUME NEW p \in Projects, p # q
        PROVE  Apart(p)
    BY <1>2, <2>1 DEF Apart, locks, servers
  <2> QED
    BY <1>q, <1>1, <1>2, <1>3, <2>1 DEF Step, control
<1>5. Alone(c) /\ q \in reg
  BY <1>q, <1>0, <1>1, AwakeFacts, OneOperates
<1>6. CallInv(c)' /\ Operates(c)' /\ Of(c)' = q
  BY <1>q, <1>0, <1>2, <1>3, <1>5, OnwardInv DEF locks
<1>7. Undisturbed(q)'
  <2> SUFFICES ASSUME NEW v \in Worktrees, <<q, v>> \in maintenance'
               PROVE  /\ <<q, v>> \notin scans' /\ <<q, v>> \notin tests'
                      /\ resv'[q] # Free => resv'[q].worktree # v
                      /\ rt'[q].worktree = v => rt'[q].phase \notin {"starting", "running"}
                      /\ \E d \in Calls : Cleans(d, q, v)'
    BY <1>1 DEF Undisturbed
  <2>1. v = w
    BY <1>q, <1>0, <1>1, <1>2, AwakeFacts
  <2>2. Cleans(c, q, v)'
    BY <1>q, <1>3, <1>6, <2>1 DEF Cleans, Kept
  <2> QED
    BY <1>q, <1>2, <2>1, <2>2 DEF Deletable, ActivePhases, locks, servers
<1>8. EntryInv(rt'[q]) /\ (Halting(rt'[q]) => closing) /\ q \in reg' /\ closing' = closing
  BY <1>q, <1>0, <1>1, <1>2, <1>5, AwakeFacts DEF locks, servers, control
<1>9. ProjectInv(q)'
  BY <1>6, <1>7, <1>8 DEF ProjectInv, EntryInv, StopAwaited, Halting, SlotUsed, Emptied
<1> QED
  BY <1>q, <1>1, <1>4, <1>5, <1>6, <1>9, StepKeeps

\* A deletion that ends gives the worktree back.
LEMMA RemovedKeeps ==
  ASSUME IInv, WorkInv, NEW c \in Calls, CacheRemoved(c)
  PROVE  WorkInv'
<1>q. PICK q, w : q = Of(c) /\ w = call[c].worktree
  OBVIOUS
<1>0. call[c].stage = "cleaning" /\ Pending(c) /\ Operates(c) /\ TypeOK
  BY DEF CacheRemoved, Pending, Stages, Operates, IInv
<1>1. q \in Projects /\ call[c] \in Requests /\ w \in Worktrees
  BY <1>q, <1>0, PendingTyped DEF Requests
<1>2. /\ call'[c] = Done /\ Kept(c) /\ pending' = pending \ {q}
      /\ \A d \in Calls : d # c => call'[d] = call[d]
  BY <1>q, <1>0 DEF CacheRemoved, Finish, Kept, TypeOK
<1>3. /\ maintenance' = maintenance \ {<<q, w>>} /\ scans' \in {scans, scans \cup {<<q, w>>}}
      /\ UNCHANGED <<locks, servers, tests, control>>
  BY <1>q DEF CacheRemoved
<1>4. Step(c)
  <2>1. ASSUME NEW p \in Projects, p # q
        PROVE  Apart(p)
    BY <1>2, <1>3, <2>1 DEF Apart, locks, servers
  <2> QED
    BY <1>q, <1>0, <1>2, <1>3, <2>1 DEF Step, control
<1>5. Alone(c) /\ q \in reg
  BY <1>q, <1>0, OneOperates DEF WorkInv, CallInv
<1>6. CallInv(c)'
  BY <1>2, DoneInv
<1>7. Undisturbed(q)'
  <2>1. \A v \in Worktrees : <<q, v>> \in maintenance => v = w
    BY <1>q, <1>1, <1>5, AloneFacts DEF Cleans
  <2>2. \A v \in Worktrees : <<q, v>> \notin maintenance'
    BY <1>3, <2>1
  <2> QED
    BY <2>2 DEF Undisturbed
<1>8. /\ EntryInv(rt'[q]) /\ (Halting(rt'[q]) => closing) /\ q \in reg' /\ closing' = closing
      /\ q \notin pending'
  BY <1>q, <1>0, <1>1, <1>2, <1>3, <1>5, AloneFacts DEF WorkInv, ProjectInv, locks, servers, control
<1>9. ProjectInv(q)'
  BY <1>7, <1>8 DEF ProjectInv, EntryInv, StopAwaited, Halting, SlotUsed, Emptied
<1> QED
  BY <1>q, <1>1, <1>4, <1>5, <1>6, <1>9, StepKeeps

\* A test that is queued: its project is registered and is not being removed.
LEMMA TestKeeps ==
  ASSUME IInv, WorkInv, NEW c \in Calls, SourceObserved(c)
  PROVE  WorkInv'
<1> DEFINE q == Of(c)
<1>0. Awake(c) /\ call[c].stage = "observe"
  BY DEF SourceObserved, Awake
<1>1. Pending(c) /\ q \in Projects /\ TypeOK /\ q \in reg
  BY <1>0, AwakePends, AwakeFacts DEF IInv
<1>2. /\ call'[c] = Done /\ Kept(c) /\ pending' = pending \ {q}
      /\ \A d \in Calls : d # c => call'[d] = call[d]
  BY <1>1 DEF SourceObserved, Finish, Kept, TypeOK
<1>3. /\ tests' \in {tests, tests \cup {<<q, call[c].worktree>>}}
      /\ UNCHANGED <<locks, servers, maintenance, scans, control>>
  BY DEF SourceObserved
<1>4. Step(c)
  <2>1. ASSUME NEW p \in Projects, p # q
        PROVE  Apart(p)
    BY <1>2, <1>3, <2>1 DEF Apart, locks, servers
  <2> QED
    BY <1>1, <1>2, <1>3, <2>1 DEF Step, control
<1>5. EntryInv(rt'[q]) /\ (Halting(rt'[q]) => closing) /\ q \in reg' /\ q \notin pending'
  BY <1>0, <1>1, <1>2, <1>3, AwakeFacts DEF locks, servers
<1>6. CallInv(c)'
  BY <1>2, DoneInv
<1> QED
  BY <1>0, <1>1, <1>3, <1>4, <1>5, <1>6, MoveKeeps

\* An operation to which Git or the cleaner has answered.
LEMMA AnswersKeep ==
  ASSUME IInv, WorkInv, NEW c \in Calls, Answers(c)
  PROVE  WorkInv'
<1>c. ASSUME UNCHANGED <<locks, work, control>>
      PROVE  Calm(c)
  BY <1>c DEF Calm, locks, control
<1>7. CASE SourceObserved(c)
  BY <1>7, TestKeeps
<1>9. CASE CacheRemoved(c)
  BY <1>9, RemovedKeeps
<1>a. CASE call[c].stage = "git"
  <2>0. Awake(c)
    BY <1>a DEF Awake
  <2>1. Pending(c) /\ call[c] \in Requests /\ Of(c) \in Projects /\ TypeOK /\ Of(c) \in reg
    BY <1>a, <2>0, AwakePends, AwakeFacts DEF IInv
  <2>2. CASE GitFails(c)
    BY <2>0, <2>2, <1>c, EndKeeps DEF GitFails
  <2>3. CASE GitOperate(c)
    BY <2>0, <2>1, <2>3, <1>c, EndKeeps, StopsKeep, LaunchesKeep DEF GitOperate
  <2>4. CASE GitClaimed(c)
    BY <2>0, <2>1, <2>4, <1>c, EndKeeps, StopsKeep, LaunchesKeep DEF GitClaimed
  <2>5. CASE GitClaim(c)
    <3>1. Calm(c)
      BY <2>1, <2>5 DEF GitClaim, Calm, control, TypeOK
    <3>2. \/ Finish(c) /\ UNCHANGED servers
          \/ Launches(c)
          \/ Stops(c, TRUE)
      BY <2>5 DEF GitClaim
    <3>3. call[c].kind # "remove"
      BY <2>5 DEF GitClaim
    <3> QED
      BY <2>0, <2>1, <3>1, <3>2, <3>3, EndKeeps, StopsKeep, LaunchesKeep
  <2>6. CASE GitReserve(c)
    <3>1. Calm(c)
      BY <2>1, <2>6 DEF GitReserve, Calm, control, TypeOK
    <3> QED
      BY <2>0, <2>6, <3>1, EndKeeps DEF GitReserve
  <2>7. CASE GitTest(c)
    <3>1. Calm(c) /\ UNCHANGED servers
      BY <2>7, <1>c DEF GitTest
    <3>2. CASE Finish(c)
      BY <2>0, <3>1, <3>2, EndKeeps
    <3>3. CASE ~Finish(c)
      <4>1. call' = At(c, "observe") /\ pending' = pending
        BY <2>7, <3>3 DEF GitTest
      <4>2. /\ Kept(c) /\ call'[c] # Done /\ call'[c].stage = "observe"
            /\ \A d \in Calls : d # c => call'[d] = call[d]
        BY <2>1, <4>1, AtKept DEF Stages
      <4> QED
        BY <1>a, <2>0, <2>1, <3>1, <4>1, <4>2, AsksKeeps
    <3> QED
      BY <3>2, <3>3
  <2>8. CASE GitClean(c)
    <3>1. CASE Deletable(Of(c), call[c].worktree)
      BY <2>8, <3>1, CleanKeeps
    <3>2. CASE ~Deletable(Of(c), call[c].worktree)
      <4>1. Finish(c) /\ UNCHANGED <<locks, servers, work, control>>
        BY <2>8, <3>2 DEF GitClean, work
      <4> QED
        BY <2>0, <4>1, <1>c, EndKeeps
    <3> QED
      BY <3>1, <3>2
  <2> QED
    BY <1>7, <1>9, <2>2, <2>3, <2>4, <2>5, <2>6, <2>7, <2>8 DEF Answers
<1> QED
  BY <1>7, <1>9, <1>a
     DEF Answers, GitFails, GitOperate, GitClaimed, GitClaim, GitReserve, GitTest, GitClean

\* A call that replaces its project's entry, while everything but calls and slots
\* stays.
LEMMA EntryKeeps ==
  ASSUME IInv, WorkInv, NEW c \in Calls, Awake(c), call[c].stage # "queued", Kept(c),
         \A d \in Calls : d # c => call'[d] = call[d],
         NEW q \in Projects, q = Of(c), \A p \in Projects : p # q => rt'[p] = rt[p],
         pending' \in {pending, pending \ {q}}, call'[c] = Done => q \notin pending',
         UNCHANGED <<locks, work, control>>, EntryInv(rt'[q]),
         Halting(rt'[q]) => closing \/ Waiting(c, q)',
         call'[c] # Done => call'[c].stage \in {"health", "abort", "late"}
  PROVE  WorkInv'
<1>1. Pending(c) /\ TypeOK /\ CallInv(c) /\ Operates(c) /\ q \in reg
  BY AwakePends, AwakeFacts DEF IInv
<1>2. Calm(c)
  BY DEF Calm, locks, control
<1>3. Step(c)
  BY <1>1, <1>2, CalmStep
<1>4. CASE call'[c] = Done
  <2>1. CallInv(c)'
    BY <1>4, DoneInv
  <2> QED
    BY <1>1, <1>2, <1>3, <1>4, <2>1, MoveKeeps DEF Awake, Calm, work
<1>5. CASE call'[c] # Done
  <2>1. call[c].kind = "remove" => \A w \in Worktrees : <<q, w>> \notin tests'
    BY <1>1 DEF CallInv, work
  <2>2. CallInv(c)' /\ Operates(c)' /\ Of(c)' = q
    BY <1>1, <1>2, <1>5, <2>1, OnwardInv DEF Calm
  <2> QED
    BY <1>1, <1>2, <1>3, <2>2, MoveKeeps DEF Awake, Calm, work
<1> QED
  BY <1>4, <1>5

\* A call that goes on after its stop.
LEMMA AfterKeeps ==
  ASSUME IInv, WorkInv, NEW c \in Calls, AfterStop(c)
  PROVE  WorkInv'
<1>0. Awake(c) /\ call[c].stage = "stopped"
  BY DEF AfterStop, Awake
<1>1. PICK q \in Projects : q = Of(c)
  BY <1>0, AwakePends DEF IInv
<1>2. Pending(c) /\ TypeOK /\ CallInv(c) /\ Operates(c) /\ q \in reg
  BY <1>0, <1>1, AwakePends, AwakeFacts DEF IInv
<1>3. UNCHANGED <<work, control>>
  BY DEF AfterStop
<1>c. ASSUME UNCHANGED <<resv, reg>>
      PROVE  Calm(c)
  BY <1>3, <1>c DEF Calm, control
<1>4. CASE Finish(c) /\ UNCHANGED <<resv, reg, servers>>
  BY <1>0, <1>4, <1>c, EndKeeps
<1>5. CASE /\ call[c].kind = "remove" /\ Finish(c) /\ reg' = reg \ {q}
           /\ resv' = [resv EXCEPT ![q] = Free] /\ UNCHANGED <<selected, servers>>
  <2>1. /\ call'[c] = Done /\ Kept(c) /\ pending' = pending \ {q}
        /\ \A d \in Calls : d # c => call'[d] = call[d]
    BY <1>1, <1>2, <1>5 DEF Finish, Kept, TypeOK
  <2>2. Step(c)
    <3>1. ASSUME NEW p \in Projects, p # q
          PROVE  Apart(p)
      BY <1>2, <1>3, <1>5, <2>1, <3>1 DEF Apart, servers, work, TypeOK
    <3> QED
      BY <1>1, <1>2, <1>3, <2>1, <3>1 DEF Step, control
  <2>3. rt'[q].group = 0 /\ \A w \in Worktrees : <<q, w>> \notin tests'
    BY <1>0, <1>1, <1>2, <1>3, <1>5 DEF CallInv, servers, work
  <2>4. EntryInv(rt'[q]) /\ (Halting(rt'[q]) => closing) /\ q \notin pending'
    BY <1>0, <1>1, <1>5, <2>1, AwakeFacts DEF servers
  <2>5. CallInv(c)'
    BY <2>1, DoneInv
  <2> QED
    BY <1>0, <1>1, <1>3, <2>2, <2>3, <2>4, <2>5, MoveKeeps DEF work
<1>6. CASE /\ call[c].kind = "profile" /\ call' = At(c, "git")
           /\ UNCHANGED <<pending, locks, servers>>
  <2>1. /\ Kept(c) /\ call'[c] # Done /\ call'[c].stage = "git"
        /\ \A d \in Calls : d # c => call'[d] = call[d]
    BY <1>2, <1>6, AtKept DEF Stages
  <2>2. Calm(c)
    BY <1>6, <1>c DEF locks
  <2> QED
    BY <1>0, <1>1, <1>2, <1>6, <2>1, <2>2, AsksKeeps
<1>7. CASE Launches(c) /\ UNCHANGED <<resv, reg>> /\ call[c].kind # "remove"
  BY <1>0, <1>1, <1>2, <1>7, <1>c, LaunchesKeep
<1> QED
  BY <1>1, <1>4, <1>5, <1>6, <1>7 DEF AfterStop, locks

\* An operation that starts a server or ends after a stop.
LEMMA ServersKeep ==
  ASSUME IInv, WorkInv, NEW c \in Calls, Servers(c)
  PROVE  WorkInv'
<1>1. CASE AfterStop(c)
  BY <1>1, AfterKeeps
<1>2. CASE ~AfterStop(c)
  <2>0. Awake(c) /\ call[c].stage \in {"port", "health", "timed_out"}
    BY <1>2 DEF Servers, PortTaken, PortFree, Healthy, Aborted, Deadline, TimedOut, Awake
  <2>1. PICK q \in Projects : q = Of(c)
    BY <2>0, AwakePends DEF IInv
  <2>2. /\ Pending(c) /\ TypeOK /\ rt[q] \in Runtimes /\ EntryInv(rt[q])
        /\ Halting(rt[q]) => closing
    BY <2>0, <2>1, AwakePends, AwakeFacts DEF IInv
  <2>f. ASSUME Finish(c)
        PROVE  /\ call'[c] = Done /\ Kept(c) /\ pending' = pending \ {q}
               /\ \A d \in Calls : d # c => call'[d] = call[d]
    BY <2>1, <2>2, <2>f DEF Finish, Kept, TypeOK
  <2>e. ASSUME Finish(c), UNCHANGED <<locks, servers, work, control>>
        PROVE  WorkInv'
    BY <2>0, <2>e, EndKeeps DEF Calm, locks, control
  <2>s. ASSUME NEW s \in {"abort", "late"}, call' = At(c, s), pending' = pending,
               rt' = [rt EXCEPT ![q] = Stopping(q)], UNCHANGED <<locks, work, control>>
        PROVE  WorkInv'
    <3>1. /\ Kept(c) /\ call'[c] # Done /\ call'[c].stage = s
          /\ \A d \in Calls : d # c => call'[d] = call[d]
      BY <2>2, <2>s, AtKept DEF Stages
    <3>2. rt'[q] = Stopping(q) /\ \A p \in Projects : p # q => rt'[p] = rt[p]
      BY <2>s, <2>2 DEF TypeOK
    <3>3. Waiting(c, q)'
      BY <2>1, <3>1 DEF Waiting, On, Pending, Of, Kept, Stages
    <3>4. EntryInv(rt'[q])
      BY <2>2, <3>2, StoppingInv
    <3> QED
      BY <2>0, <2>1, <2>s, <3>1, <3>2, <3>3, <3>4, EntryKeeps
  <2>3. CASE PortTaken(c)
    <3>1. /\ Finish(c) /\ rt'[q] = Entry("failed", Target(c), 0)
          /\ \A p \in Projects : p # q => rt'[p] = rt[p]
          /\ UNCHANGED <<locks, work, control>>
      BY <2>1, <2>2, <2>3 DEF PortTaken, TypeOK
    <3>2. rt'[q].phase = "failed" /\ ~rt'[q].child
      <4>1. Entry("failed", Target(c), 0).phase = "failed"
        BY DEF Entry
      <4>2. Entry("failed", Target(c), 0).child = (0 # 0)
        BY Zenon DEF Entry
      <4>3. ~Entry("failed", Target(c), 0).child
        BY <4>2
      <4> QED
        BY <3>1, <4>1, <4>3
    <3>3. EntryInv(rt'[q]) /\ ~Halting(rt'[q])
      BY <3>2 DEF EntryInv, Halting
    <3> QED
      BY <2>0, <2>1, <2>f, <3>1, <3>3, EntryKeeps
  <2>4. CASE PortFree(c)
    <3>1. CASE MaySpawn(c)
      <4>1. /\ call' = At(c, "health") /\ pending' = pending
            /\ rt'[q] = Entry("starting", Target(c), c)
            /\ \A p \in Projects : p # q => rt'[p] = rt[p]
            /\ UNCHANGED <<locks, work, control>>
        BY <2>1, <2>2, <2>4, <3>1 DEF PortFree, TypeOK
      <4>2. /\ Kept(c) /\ call'[c] # Done /\ call'[c].stage = "health"
            /\ \A d \in Calls : d # c => call'[d] = call[d]
        BY <2>2, <4>1, AtKept DEF Stages
      <4>3. EntryInv(rt'[q]) /\ ~Halting(rt'[q])
        BY <4>1 DEF EntryInv, Halting, Entry, Calls
      <4> QED
        BY <2>0, <2>1, <4>1, <4>2, <4>3, EntryKeeps
    <3>2. CASE ~MaySpawn(c)
      BY <2>4, <2>e, <3>2 DEF PortFree
    <3> QED
      BY <3>1, <3>2
  <2>5. CASE Healthy(c)
    <3>1. /\ Finish(c) /\ rt'[q] = [rt[q] EXCEPT !.phase = "running"] /\ rt[q].child
          /\ \A p \in Projects : p # q => rt'[p] = rt[p]
          /\ UNCHANGED <<locks, work, control>>
      BY <2>1, <2>2, <2>5 DEF Healthy, TypeOK
    <3>2. EntryInv(rt'[q]) /\ ~Halting(rt'[q])
      BY <2>2, <3>1 DEF EntryInv, Halting, Runtimes
    <3> QED
      BY <2>0, <2>1, <2>f, <3>1, <3>2, EntryKeeps
  <2>6. CASE Aborted(c)
    BY <2>1, <2>6, <2>e, <2>s DEF Aborted
  <2>7. CASE Deadline(c)
    BY <2>1, <2>7, <2>s DEF Deadline
  <2>8. CASE TimedOut(c)
    <3>1. /\ Finish(c) /\ rt'[q] = [rt[q] EXCEPT !.phase = "failed"]
          /\ \A p \in Projects : p # q => rt'[p] = rt[p]
          /\ UNCHANGED <<locks, work, control>>
      BY <2>1, <2>2, <2>8 DEF TimedOut, TypeOK
    <3>2. EntryInv(rt'[q]) /\ ~Halting(rt'[q])
      BY <2>2, <3>1 DEF EntryInv, Halting, Runtimes
    <3> QED
      BY <2>0, <2>1, <2>f, <3>1, <3>2, EntryKeeps
  <2> QED
    BY <1>2, <2>3, <2>4, <2>5, <2>6, <2>7, <2>8 DEF Servers
<1> QED
  BY <1>1, <1>2

-----------------------------------------------------------------------------
(* So do cleanups, exits and what happens beside the chains. *)

\* An entry that an event leaves no more alive than it was.
Weaker(p) ==
  /\ rt'[p].worktree = rt[p].worktree /\ rt'[p].group \in {0, rt[p].group}
  /\ EntryInv(rt'[p]) /\ (Halting(rt'[p]) => Halting(rt[p]) \/ closing')
  /\ rt'[p].phase \in {"starting", "running"} => rt[p].phase \in {"starting", "running"}

\* An event in which no operation goes on.
LEMMA EventKeeps ==
  ASSUME TypeOK, WorkInv,
         \A c \in Calls : IF Operates(c) THEN call'[c] = call[c] ELSE ~Operates(c)',
         pending' = pending, reg' = reg, maintenance' = maintenance,
         \A p \in Projects : resv'[p] \in {resv[p], Free} /\ Weaker(p),
         tests' \subseteq tests, \A x \in scans' : x \in scans \/ x \notin maintenance,
         closing => closing'
  PROVE  WorkInv'
<1>0. ASSUME NEW c \in Calls, Operates(c)
      PROVE  call'[c] = call[c] /\ Operates(c)' /\ Of(c)' = Of(c)
  BY <1>0 DEF Operates, Pending, Of
<1>1. ASSUME NEW c \in Calls
      PROVE  CallInv(c)'
  <2>1. CASE ~Operates(c)
    BY <2>1 DEF CallInv
  <2>2. CASE Operates(c)
    <3>1. PICK p \in Projects : p = Of(c)
      BY <2>2, PendingTyped DEF Operates
    <3>2. CallInv(c)
      BY DEF WorkInv
    <3>3. rt[p].group = 0 => rt'[p].group = 0
      BY DEF Weaker
    <3>4. call[c].stage = "stopped" => rt'[p].group = 0
      BY <2>2, <3>1, <3>2, <3>3 DEF CallInv
    <3> QED
      BY <1>0, <2>2, <3>1, <3>2, <3>4 DEF CallInv
  <2> QED
    BY <2>1, <2>2
<1>2. ASSUME NEW p \in Projects
      PROVE  ProjectInv(p)'
  <2>1. ProjectInv(p) /\ Weaker(p)
    BY DEF WorkInv
  <2>2. StopAwaited(p)'
    <3> SUFFICES ASSUME Halting(rt'[p]), ~closing'
                 PROVE  \E c \in Calls : Waiting(c, p)'
      BY DEF StopAwaited, Halting
    <3>1. PICK c \in Calls : Waiting(c, p)
      BY <2>1 DEF ProjectInv, StopAwaited, Weaker
    <3>2. Operates(c)
      BY <3>1 DEF Waiting, On, Operates
    <3> QED
      BY <1>0, <3>1, <3>2 DEF Waiting, On, Pending
  <2>3. SlotUsed(p)'
    BY <1>0, <2>1 DEF ProjectInv, SlotUsed
  <2>4. Undisturbed(p)'
    <3> SUFFICES ASSUME NEW w \in Worktrees, <<p, w>> \in maintenance'
                 PROVE  /\ <<p, w>> \notin scans' /\ <<p, w>> \notin tests'
                        /\ resv'[p] # Free => resv'[p].worktree # w
                        /\ rt'[p].worktree = w => rt'[p].phase \notin {"starting", "running"}
                        /\ \E d \in Calls : Cleans(d, p, w)'
      BY DEF Undisturbed
    <3>1. PICK d \in Calls : Cleans(d, p, w)
      BY <2>1 DEF ProjectInv, Undisturbed
    <3>2. Cleans(d, p, w)'
      BY <1>0, <3>1 DEF Cleans
    <3> QED
      BY <2>1, <3>2 DEF ProjectInv, Undisturbed, Weaker
  <2>5. Emptied(p)'
    BY <2>1 DEF ProjectInv, Emptied, Weaker
  <2> QED
    BY <2>1, <2>2, <2>3, <2>4, <2>5 DEF ProjectInv, Weaker, EntryInv
<1> QED
  BY <1>1, <1>2 DEF WorkInv

\* An entry that stays.
LEMMA SameWeaker ==
  ASSUME WorkInv, NEW p \in Projects, rt'[p] = rt[p]
  PROVE  Weaker(p)
  BY DEF Weaker, WorkInv, ProjectInv

\* Exits and failed spawns.
LEMMA ExitsKeep ==
  ASSUME IInv, WorkInv, NEW g \in Calls, LeaderExit(g) \/ MembersExit(g) \/ SpawnError(g)
  PROVE  WorkInv'
<1>1. PICK q : q = proc[g].project
  OBVIOUS
<1>2. UNCHANGED <<call, pending, locks, work, control>>
  BY DEF LeaderExit, MembersExit, SpawnError
<1>3. TypeOK
  BY DEF IInv
<1>4. ASSUME NEW p \in Projects
      PROVE  Weaker(p)
  <2>0. rt[p] \in Runtimes /\ EntryInv(rt[p])
    BY <1>3 DEF TypeOK, WorkInv, ProjectInv
  <2>1. CASE rt' = rt
    BY <2>1, SameWeaker
  <2>2. CASE LeaderExit(g) /\ rt' # rt /\ p = q
    <3>1. rt[q].group = g /\ rt'[q] = [Cleaned(q, "exit") EXCEPT !.child = FALSE]
      BY <1>1, <1>3, <2>2 DEF LeaderExit, TypeOK
    <3>2. CASE rt[q].cleanup # "no"
      <4>1. rt'[q] = [rt[q] EXCEPT !.child = FALSE]
        BY <3>1, <3>2 DEF Cleaned
      <4> QED
        BY <2>0, <2>2, <4>1 DEF Weaker, EntryInv, Halting, Runtimes
    <3>3. CASE rt[q].cleanup = "no"
      <4>1. rt'[q] = [[rt[q] EXCEPT !.phase = "stopping", !.cleanup = "exit"] EXCEPT !.child = FALSE]
        BY <3>1, <3>3 DEF Cleaned
      <4>2. g # 0
        BY DEF Calls
      <4>3. /\ rt'[q].phase = "stopping" /\ rt'[q].cleanup = "exit"
            /\ rt'[q].group = g /\ rt'[q].worktree = rt[q].worktree
        BY <2>0, <2>2, <3>1, <4>1 DEF Runtimes
      <4> QED
        BY <2>2, <3>1, <4>2, <4>3 DEF Weaker, EntryInv, Halting
    <3> QED
      BY <3>2, <3>3
  <2>3. CASE SpawnError(g) /\ rt' # rt /\ p = q
    <3>1. rt'[q] = [rt[q] EXCEPT !.phase = "failed", !.group = 0, !.child = FALSE]
      BY <1>1, <1>3, <2>3 DEF SpawnError, TypeOK
    <3>2. /\ rt'[q].phase = "failed" /\ rt'[q].group = 0 /\ ~rt'[q].child
          /\ rt'[q].worktree = rt[q].worktree
      BY <2>0, <2>3, <3>1 DEF Runtimes
    <3> QED
      BY <2>3, <3>2 DEF Weaker, EntryInv, Halting
  <2>4. CASE rt' # rt /\ p # q
    <3>1. rt'[p] = rt[p]
      BY <1>1, <1>3, <2>4 DEF LeaderExit, MembersExit, SpawnError, TypeOK
    <3> QED
      BY <3>1, SameWeaker
  <2>5. MembersExit(g) => rt' = rt
    BY DEF MembersExit
  <2> QED
    BY <2>1, <2>2, <2>3, <2>4, <2>5
<1> QED
  BY <1>2, <1>3, <1>4, EventKeeps DEF locks, work, control, Operates, Pending

\* Shutdown, which stops every server, and what else happens beside the chains.
LEMMA BesidesKeep ==
  ASSUME IInv, WorkInv,
         \/ \E p \in Projects : ClaimLapses(p)
         \/ \E n \in Limits : SetCapacity(n)
         \/ \E place \in Places : ScanStarts(place) \/ ScanEnds(place) \/ TestsEnd(place)
         \/ CloseAdmission \/ Shutdown \/ ShutdownEnds \/ UNCHANGED vars
  PROVE  WorkInv'
<1> USE DEF locks, servers, work, control
<1>0. TypeOK
  BY DEF IInv
<1>1. CASE Shutdown
  <2>1. ASSUME NEW p \in Projects
        PROVE  Weaker(p)
    <3>1. rt'[p] = Stopping(p) /\ closing'
      BY <1>1 DEF Shutdown
    <3>2. EntryInv(rt[p])
      BY DEF WorkInv, ProjectInv
    <3> QED
      BY <1>0, <3>1, <3>2, StoppingInv DEF Weaker
  <2> QED
    BY <1>0, <1>1, <2>1, EventKeeps DEF Shutdown, Operates, Pending
<1>2. CASE ~Shutdown
  <2>1. /\ UNCHANGED <<call, pending, reg, rt, maintenance>> /\ (closing => closing')
        /\ \A p \in Projects : resv'[p] \in {resv[p], Free}
        /\ tests' \subseteq tests /\ \A x \in scans' : x \in scans \/ x \notin maintenance
    <3>1. CASE \E p \in Projects : ClaimLapses(p)
      BY <1>0, <3>1 DEF ClaimLapses, TypeOK
    <3>2. CASE \E n \in Limits : SetCapacity(n)
      BY <3>2 DEF SetCapacity
    <3>3. CASE \E place \in Places : ScanStarts(place) \/ ScanEnds(place) \/ TestsEnd(place)
      BY <3>3 DEF ScanStarts, ScanEnds, TestsEnd
    <3>4. CASE CloseAdmission \/ ShutdownEnds \/ UNCHANGED vars
      BY <3>4 DEF CloseAdmission, ShutdownEnds, vars
    <3> QED
      BY <1>2, <3>1, <3>2, <3>3, <3>4
  <2>2. \A p \in Projects : Weaker(p)
    BY <2>1, SameWeaker
  <2> QED
    BY <1>0, <2>1, <2>2, EventKeeps DEF Operates, Pending
<1> QED
  BY <1>1, <1>2

\* A request that arrives waits for its turn.
LEMMA ArrivalKeeps ==
  ASSUME IInv, WorkInv, NEW c \in Calls, NEW k \in Kinds, NEW p \in Projects,
         NEW w \in Worktrees, NEW a \in Owners, Arrives(c, k, p, w, a)
  PROVE  WorkInv'
<1>1. call[c] = Unused /\ call'[c].stage = "queued" /\ \A d \in Calls : d # c => call'[d] = call[d]
  BY DEF Arrives, IInv, TypeOK
<1>2. ~Operates(c) /\ ~Operates(c)'
  BY <1>1 DEF Operates, Pending, Unused, Stages
<1>3. UNCHANGED <<pending, locks, servers, work, control>>
  BY DEF Arrives
<1>4. \A q \in Projects : Weaker(q)
  BY <1>3, SameWeaker DEF servers
<1>5. \A d \in Calls : IF Operates(d) THEN call'[d] = call[d] ELSE ~Operates(d)'
  BY <1>1, <1>2 DEF Operates, Pending
<1> QED
  BY <1>3, <1>4, <1>5, EventKeeps DEF IInv, locks, servers, work, control

\* A cleanup that ends, confirmed or not: whoever awaited it goes on or ends.
LEMMA CleanupKeeps ==
  ASSUME IInv, WorkInv, NEW p \in Projects, CleanupSettled(p)
  PROVE  WorkInv'
<1>0. TypeOK /\ UNCHANGED <<locks, work, closing>>
  BY DEF IInv, CleanupSettled, CleanupEnds, CleanupUnconfirmed
<1>1. PICK ok \in BOOLEAN : CleanupSettles(p, ok) /\ (ok => rt'[p].group = 0)
  <2>1. CASE CleanupEnds(p)
    <3>1. rt'[p].group = 0
      BY <1>0, <2>1 DEF CleanupEnds, Confirmed, TypeOK
    <3> QED
      BY <2>1, <3>1 DEF CleanupEnds
  <2>2. CASE CleanupUnconfirmed(p)
    BY <2>2 DEF CleanupUnconfirmed
  <2> QED
    BY <2>1, <2>2 DEF CleanupSettled
<1>2. /\ \A q \in Projects : q # p => rt'[q] = rt[q]
      /\ rt'[p].phase \in {"failed", "stopped"} /\ rt'[p].worktree = rt[p].worktree
      /\ rt'[p].group \in {0, rt[p].group} /\ (rt'[p].child => rt'[p].group # 0)
  <2>1. rt[p] \in Runtimes /\ EntryInv(rt[p])
    BY <1>0 DEF TypeOK, WorkInv, ProjectInv
  <2>2. CASE CleanupEnds(p)
    <3>1. rt'[p] = Confirmed(p) /\ \A q \in Projects : q # p => rt'[q] = rt[q]
      BY <1>0, <2>2 DEF CleanupEnds, TypeOK
    <3>2. /\ Confirmed(p).phase \in {"failed", "stopped"}
          /\ Confirmed(p).worktree = rt[p].worktree
          /\ Confirmed(p).group = 0 /\ ~Confirmed(p).child
      BY DEF Confirmed
    <3> QED
      BY <3>1, <3>2
  <2>3. CASE CleanupUnconfirmed(p)
    <3>1. /\ rt'[p] = [rt[p] EXCEPT !.phase = "failed", !.cleanup = "no"]
          /\ \A q \in Projects : q # p => rt'[q] = rt[q]
      BY <1>0, <2>3 DEF CleanupUnconfirmed, TypeOK
    <3>2. /\ rt'[p].phase = "failed" /\ rt'[p].worktree = rt[p].worktree
          /\ rt'[p].group = rt[p].group /\ rt'[p].child = rt[p].child
      BY <2>1, <3>1 DEF Runtimes
    <3> QED
      BY <2>1, <3>1, <3>2 DEF EntryInv
  <2> QED
    BY <2>2, <2>3 DEF CleanupSettled
<1>3. ASSUME NEW c \in Calls
      PROVE  \/ call'[c] = call[c] /\ ~Waiting(c, p)
             \/ /\ Waiting(c, p) /\ call'[c] # Done /\ Kept(c)
                /\ call'[c].stage = IF call[c].stage = "stop" THEN "stopped" ELSE "timed_out"
                /\ call[c].stage \in {"stop", "late"} /\ ok
             \/ Waiting(c, p) /\ call'[c] = Done /\ p \notin pending'
  <2>1. call'[c] = Settled(p, ok)[c]
    BY <1>1 DEF CleanupSettles
  <2>2. CASE ~Waiting(c, p)
    BY <2>1, <2>2 DEF Settled
  <2>3. CASE Waiting(c, p) /\ call'[c] = Done
    BY <1>1, <2>1, <2>3 DEF CleanupSettles
  <2>4. CASE Waiting(c, p) /\ call'[c] # Done
    <3>1. call[c] \in Requests
      BY <1>0, <2>4, PendingTyped DEF Waiting, On
    <3>2. PICK s \in {"stopped", "timed_out"} :
            /\ call'[c] = At(c, s)[c] /\ ok
            /\ \/ call[c].stage = "stop" /\ s = "stopped"
               \/ call[c].stage = "late" /\ s = "timed_out"
      BY <2>1, <2>4 DEF Settled
    <3>3. call'[c] = [call[c] EXCEPT !.stage = s]
      BY <1>0, <3>2 DEF At, TypeOK
    <3>4. /\ call'[c] \in Requests /\ call'[c].stage = s
          /\ call'[c].project = call[c].project /\ call'[c].kind = call[c].kind
          /\ call'[c].worktree = call[c].worktree /\ call'[c].owner = call[c].owner
          /\ call'[c].claim = call[c].claim
      BY <3>1, <3>3 DEF Requests, Stages
    <3> QED
      BY <2>4, <3>2, <3>4 DEF Kept
  <2> QED
    BY <2>2, <2>3, <2>4
<1>4. ASSUME NEW c \in Calls, Waiting(c, p)
      PROVE  /\ Operates(c) /\ Of(c) = p /\ Alone(c) /\ CallInv(c)
             /\ call'[c] # Done => pending' = pending
  <2>1. Operates(c) /\ Of(c) = p /\ Pending(c) /\ call[c].stage # "queued"
    BY <1>4 DEF Waiting, On, Operates, Of
  <2>2. Alone(c) /\ CallInv(c)
    BY <2>1, OneOperates DEF WorkInv
  <2>3. \A d \in Calls : Waiting(d, p) => d = c
    BY <2>1, <2>2 DEF Alone, Waiting, On, Operates, Of
  <2>4. call'[c] # Done => pending' = pending
    BY <1>1, <2>3 DEF CleanupSettles
  <2> QED
    BY <2>1, <2>2, <2>4
<1>5. \A q \in Projects : q # p => (q \in pending' <=> q \in pending)
  BY <1>1 DEF CleanupSettles
<1>6. ASSUME NEW c \in Calls
      PROVE  CallInv(c)'
  <2>1. CASE ~Waiting(c, p)
    <3>1. call'[c] = call[c] /\ CallInv(c)
      BY <1>3, <2>1 DEF WorkInv
    <3>2. CASE ~Operates(c)
      BY <3>1, <3>2 DEF CallInv, Operates, Pending
    <3>3. CASE Operates(c)
      <4>1. PICK q \in Projects : q = Of(c)
        BY <1>0, <3>3, PendingTyped DEF Operates
      <4>2. CASE \A d \in Calls : ~Waiting(d, p)
        <5>1. pending' = pending
          BY <1>1, <4>2 DEF CleanupSettles
        <5>2. rt[q].group = 0 => rt'[q].group = 0
          BY <1>2
        <5> QED
          BY <1>0, <3>1, <3>3, <4>1, <5>1, <5>2 DEF CallInv, Operates, Pending, Of, locks, work
      <4>3. ASSUME NEW d \in Calls, Waiting(d, p)
            PROVE  CallInv(c)'
        <5>1. q # p
          BY <1>4, <2>1, <3>3, <4>1, <4>3 DEF Alone
        <5>2. rt'[q] = rt[q] /\ (q \in pending' <=> q \in pending)
          BY <1>2, <1>5, <5>1
        <5> QED
          BY <1>0, <3>1, <3>3, <4>1, <5>2 DEF CallInv, Operates, Pending, Of, locks, work
      <4> QED
        BY <4>2, <4>3
    <3> QED
      BY <3>2, <3>3
  <2>2. CASE Waiting(c, p) /\ call'[c] = Done
    BY <2>2, DoneInv
  <2>3. CASE Waiting(c, p) /\ call'[c] # Done
    <3>1. /\ Kept(c) /\ ok /\ pending' = pending /\ call'[c].stage \in {"stopped", "timed_out"}
          /\ call'[c].stage = "stopped" => call[c].stage = "stop"
      BY <1>3, <1>4, <2>3
    <3>2. Operates(c) /\ Of(c) = p /\ CallInv(c)
      BY <1>4, <2>3
    <3>3. /\ p \in reg' /\ rt'[p].group = 0
          /\ call[c].kind = "remove" => \A w \in Worktrees : <<p, w>> \notin tests'
      BY <1>0, <1>1, <3>1, <3>2 DEF CallInv, locks, work
    <3>4. call'[c].stage = "stopped" /\ call[c].kind \notin {"stop", "claimed_stop", "remove"}
            => p \in pending'
      BY <3>1, <3>2 DEF CallInv
    <3> QED
      BY <2>3, <3>1, <3>2, <3>3, <3>4, OnwardInv
  <2> QED
    BY <2>1, <2>2, <2>3
<1>7. ASSUME NEW q \in Projects
      PROVE  ProjectInv(q)'
  <2>1. ProjectInv(q)
    BY DEF WorkInv
  <2>2. ASSUME NEW c \in Calls, Operates(c), Of(c) = q, q \in pending'
        PROVE  Operates(c)' /\ Of(c)' = q
    <3>1. CASE call'[c] = call[c]
      BY <2>2, <3>1 DEF Operates, Pending, Of
    <3>2. CASE call'[c] # call[c]
      <4>1. Waiting(c, p) /\ q = p
        BY <1>3, <2>2, <3>2 DEF Waiting, On, Of
      <4>2. Kept(c) /\ call'[c] # Done
        BY <1>3, <2>2, <3>2, <4>1
      <4> QED
        BY <2>2, <4>2 DEF Kept, Operates, Pending, Of, Requests
    <3> QED
      BY <3>1, <3>2
  <2>3. EntryInv(rt[q])' /\ StopAwaited(q)'
    <3>1. CASE q = p
      <4>1. EntryInv(rt'[p]) /\ ~Halting(rt'[p])
        BY <1>2 DEF EntryInv, Halting
      <4> QED
        BY <3>1, <4>1 DEF EntryInv, StopAwaited, Halting
    <3>2. CASE q # p
      <4>1. rt'[q] = rt[q] /\ closing' = closing
        BY <1>0, <1>2, <3>2
      <4>2. ASSUME NEW c \in Calls, Waiting(c, q)
            PROVE  Waiting(c, q)'
        <5>1. call'[c] = call[c]
          BY <1>3, <3>2, <4>2 DEF Waiting, On
        <5> QED
          BY <4>2, <5>1 DEF Waiting, On, Pending
      <4> QED
        BY <2>1, <4>1, <4>2 DEF ProjectInv, EntryInv, StopAwaited, Halting
    <3> QED
      BY <3>1, <3>2
  <2>4. SlotUsed(q)'
    <3>1. pending' \subseteq pending
      BY <1>1 DEF CleanupSettles
    <3> QED
      BY <2>1, <2>2, <3>1 DEF ProjectInv, SlotUsed
  <2>5. Undisturbed(q)'
    <3> SUFFICES ASSUME NEW w \in Worktrees, <<q, w>> \in maintenance
                 PROVE  /\ <<q, w>> \notin scans /\ <<q, w>> \notin tests
                        /\ resv[q] # Free => resv[q].worktree # w
                        /\ rt'[q].worktree = w => rt'[q].phase \notin {"starting", "running"}
                        /\ \E d \in Calls : Cleans(d, q, w)'
      BY <1>0 DEF Undisturbed, locks, work
    <3>1. PICK d \in Calls : Cleans(d, q, w)
      BY <2>1 DEF ProjectInv, Undisturbed
    <3>2. call'[d] = call[d]
      BY <1>3, <3>1 DEF Cleans, Waiting
    <3>3. Cleans(d, q, w)'
      BY <3>1, <3>2 DEF Cleans, Operates, Pending, Of
    <3>4. rt'[q].phase \in {"failed", "stopped"} \/ rt'[q] = rt[q]
      BY <1>2
    <3> QED
      BY <2>1, <3>3, <3>4 DEF ProjectInv, Undisturbed
  <2>6. Emptied(q)'
    <3>1. rt'[q].group \in {0, rt[q].group}
      BY <1>2
    <3> QED
      BY <1>0, <2>1, <3>1 DEF ProjectInv, Emptied, locks, work
  <2> QED
    BY <2>3, <2>4, <2>5, <2>6 DEF ProjectInv
<1> QED
  BY <1>6, <1>7 DEF WorkInv

\* Every step keeps what operations, entries, slots and deletions owe.
LEMMA WorkInductive ==
  ASSUME IInv, WorkInv, [Next]_vars
  PROVE  WorkInv'
<1>1. ASSUME NEW c \in Calls, Continues(c)
      PROVE  WorkInv'
  BY <1>1, TurnsKeep, AnswersKeep, ServersKeep DEF Continues
<1>2. CASE \E c \in Calls, k \in Kinds, p \in Projects, w \in Worktrees, a \in Owners :
             Arrives(c, k, p, w, a)
  BY <1>2, ArrivalKeeps
<1>3. ASSUME NEW p \in Projects, CleanupSettled(p)
      PROVE  WorkInv'
  BY <1>3, CleanupKeeps
<1>4. ASSUME NEW g \in Calls, LeaderExit(g) \/ MembersExit(g) \/ SpawnError(g)
      PROVE  WorkInv'
  BY <1>4, ExitsKeep
<1>5. CASE \/ \E p \in Projects : ClaimLapses(p)
           \/ \E n \in Limits : SetCapacity(n)
           \/ \E place \in Places : ScanStarts(place) \/ ScanEnds(place) \/ TestsEnd(place)
           \/ CloseAdmission \/ Shutdown \/ ShutdownEnds \/ UNCHANGED vars
  BY <1>5, BesidesKeep
<1> QED
  BY <1>1, <1>2, <1>3, <1>4, <1>5 DEF Next

\* The invariant of slots, deletions and removals.
THEOREM WorkHolds == Spec => [](IInv /\ WorkInv)
<1>1. Init => IInv /\ WorkInv
  BY Initially, WorkInitially
<1>2. IInv /\ WorkInv /\ [Next]_vars => (IInv /\ WorkInv)'
  BY Inductive, WorkInductive
<1> QED
  BY <1>1, <1>2, PTL DEF Spec

\* "failed starts release it" (docs/project-brief.md:138): a slot is held only for an
\* operation in progress, a cleanup under way or processes that may live.
THEOREM SlotsAreHeld == Spec => []NoLeakedSlot
<1>1. ASSUME IInv, WorkInv, NEW p \in Holders
      PROVE  \/ rt[p].group # 0 \/ rt[p].cleanup # "no"
             \/ \E c \in Calls : On(c, p) /\ call[c].stage # "queued"
  <2>1. p \in Projects /\ ProjectInv(p)
    BY <1>1 DEF IInv, TypeOK, Holders, WorkInv
  <2>2. CASE p \in pending
    BY <2>1, <2>2 DEF ProjectInv, SlotUsed, Operates, On, Of
  <2>3. CASE rt[p].phase \in ActivePhases
    BY <2>1, <2>3 DEF ProjectInv, EntryInv, ActivePhases
  <2> QED
    BY <1>1, <2>2, <2>3 DEF Holders
<1>2. IInv /\ WorkInv => NoLeakedSlot
  BY <1>1 DEF NoLeakedSlot
<1> QED
  BY <1>2, WorkHolds, PTL

\* While a worktree's cache is deleted, nothing measures, tests, reserves or runs
\* that worktree, whatever arrived since the deletion was admitted.
THEOREM DeletionsUndisturbed == Spec => []DeletedUndisturbed
<1>1. IInv /\ WorkInv => DeletedUndisturbed
  BY DEF WorkInv, ProjectInv, Undisturbed, DeletedUndisturbed
<1> QED
  BY <1>1, WorkHolds, PTL

\* A project that was removed has no process, no owned group and no test, and never
\* gets one again.
THEOREM RemovedProjectsIdle == Spec => []RemovedIsIdle
<1>1. ASSUME IInv, WorkInv, NEW p \in Projects \ reg
      PROVE  /\ rt[p].group = 0
             /\ \A g \in Calls : Alive(g) => proc[g].project # p
             /\ \A w \in Worktrees : <<p, w>> \notin tests
  <2>1. rt[p].group = 0 /\ \A w \in Worktrees : <<p, w>> \notin tests
    BY <1>1 DEF WorkInv, ProjectInv, Emptied
  <2>2. ASSUME NEW g \in Calls, Alive(g)
        PROVE  proc[g].project # p
    <3>1. rt[proc[g].project].group = g /\ g # 0
      BY <1>1, <2>2 DEF IInv, OneServer, Calls
    <3> QED
      BY <2>1, <3>1
  <2> QED
    BY <2>1, <2>2
<1>2. IInv /\ WorkInv => RemovedIsIdle
  BY <1>1 DEF RemovedIsIdle
<1> QED
  BY <1>2, WorkHolds, PTL

-----------------------------------------------------------------------------
(* The limit of servers. *)

\* A project that uses a slot is registered and counted.
LEMMA UsersAreHolders ==
  ASSUME IInv, WorkInv
  PROVE  Using \subseteq Holders /\ Holders \subseteq Projects
<1>1. ASSUME NEW p \in Using
      PROVE  p \in Holders
  <2>1. p \in Projects /\ ProjectInv(p)
    BY <1>1 DEF IInv, TypeOK, Using, WorkInv
  <2>2. CASE p \in pending
    <3>1. p \in reg
      BY <2>1, <2>2 DEF ProjectInv, SlotUsed, WorkInv, CallInv
    <3> QED
      BY <2>2, <3>1 DEF Holders
  <2>3. CASE rt[p].group # 0
    BY <2>1, <2>3 DEF ProjectInv, Emptied, Holders
  <2> QED
    BY <1>1, <2>2, <2>3 DEF Using
<1> QED
  BY <1>1 DEF Holders, IInv, TypeOK

\* One project more is within the limit, when acquireCapacity() has succeeded.
LEMMA OneMore ==
  ASSUME IInv, WorkInv, IsFiniteSet(Projects), ~closing, NEW c \in Calls, Awake(c),
         HasCapacity(Of(c)), NEW U, U \subseteq Using \cup {Of(c)}
  PROVE  U \subseteq Using \/ Cardinality(U) <= limit
<1>1. PICK q \in Projects : q = Of(c)
  BY AwakePends DEF IInv
<1>2. rt[q] \in Runtimes /\ EntryInv(rt[q]) /\ ~Halting(rt[q])
  BY <1>1, AwakePends, AwakeFacts DEF IInv
<1>3. CASE q \in Using
  BY <1>1, <1>3
<1>4. CASE q \notin Using
  <2>1. q \notin pending /\ rt[q].group = 0
    BY <1>4 DEF Using
  <2>2. q \notin Holders
    <3>1. rt[q].phase \notin ActivePhases
      BY <1>2, <2>1 DEF EntryInv, Halting, ActivePhases, Runtimes
    <3> QED
      BY <2>1, <3>1 DEF Holders
  <2>3. Cardinality(Holders) < limit
    BY <1>1, <2>2 DEF HasCapacity
  <2>4. IsFiniteSet(Holders) /\ U \subseteq Holders \cup {q}
    BY <1>1, UsersAreHolders, FS_Subset
  <2>5. /\ IsFiniteSet(Holders \cup {q})
        /\ Cardinality(Holders \cup {q}) = Cardinality(Holders) + 1
    BY <2>2, <2>4, FS_AddElement
  <2>6. Cardinality(U) <= Cardinality(Holders \cup {q}) /\ IsFiniteSet(U)
    BY <2>4, <2>5, FS_Subset
  <2>7. Cardinality(Holders) \in Nat /\ Cardinality(U) \in Nat /\ limit \in Nat
    BY <2>4, <2>6, FS_CardinalityType, ControlAssumption DEF IInv, TypeOK
  <2>8. PICK n \in Nat, u \in Nat, l \in Nat :
          n = Cardinality(Holders) /\ u = Cardinality(U) /\ l = limit
    BY <2>7
  <2>9. n < l /\ u <= n + 1
    BY <2>3, <2>5, <2>6, <2>8
  <2>10. u <= l
    BY <2>9
  <2> QED
    BY <2>8, <2>10
<1> QED
  BY <1>3, <1>4

\* What a step does to the slots: an operation takes one only after acquireCapacity().
LEMMA SlotsTaken ==
  ASSUME IInv, WorkInv, NEW c \in Calls, Continues(c)
  PROVE  \/ pending' \subseteq pending
         \/ Awake(c) /\ pending' = pending \cup {Of(c)} /\ HasCapacity(Of(c))
<1>f. ASSUME Finish(c)
      PROVE  pending' \subseteq pending
  BY <1>f DEF Finish
<1>s. ASSUME Stops(c, TRUE) \/ Launches(c)
      PROVE  pending' \subseteq pending \/ pending' = pending \cup {Of(c)}
  BY <1>s, <1>f DEF Stops, Launches
<1>1. CASE Turns(c)
  <2>1. CASE TurnProfile(c)
    <3>1. Awake(c)
      BY <2>1 DEF TurnProfile, Turn, Awake
    <3> QED
      BY <2>1, <3>1, <1>f, <1>s DEF TurnProfile
  <2>2. CASE ~TurnProfile(c)
    BY <1>1, <2>2, <1>f DEF Turns, TurnUnknown, TurnAsksGit, TurnStop, TurnRemove, TurnRelease,
       TurnClaimed, Stops
  <2> QED
    BY <2>1, <2>2
<1>2. CASE Answers(c)
  <2>1. CASE GitOperate(c) \/ GitClaimed(c) \/ GitClaim(c)
    <3>1. Awake(c)
      BY <2>1 DEF GitOperate, GitClaimed, GitClaim, Awake
    <3> QED
      BY <2>1, <3>1, <1>f, <1>s DEF GitOperate, GitClaimed, GitClaim
  <2>2. CASE ~(GitOperate(c) \/ GitClaimed(c) \/ GitClaim(c))
    BY <1>2, <2>2, <1>f DEF Answers, GitFails, GitReserve, GitTest, SourceObserved, GitClean,
       CacheRemoved
  <2> QED
    BY <2>1, <2>2
<1>3. CASE Servers(c)
  <2>1. CASE AfterStop(c) /\ Launches(c) /\ call[c].kind \notin {"stop", "claimed_stop", "remove"}
    <3>1. Operates(c) /\ CallInv(c) /\ call[c].stage = "stopped"
      BY <2>1 DEF AfterStop, Operates, Pending, Stages, WorkInv
    <3>2. Of(c) \in pending
      BY <2>1, <3>1 DEF CallInv
    <3> QED
      BY <2>1, <3>2, <1>s
  <2>2. CASE AfterStop(c) /\ ~(Launches(c) /\ call[c].kind \notin {"stop", "claimed_stop", "remove"})
    BY <2>2, <1>f DEF AfterStop
  <2>3. CASE ~AfterStop(c)
    BY <1>3, <2>3, <1>f DEF Servers, PortTaken, PortFree, Healthy, Aborted, Deadline, TimedOut
  <2> QED
    BY <2>1, <2>2, <2>3
<1> QED
  BY <1>1, <1>2, <1>3 DEF Continues

\* Nothing else takes a slot.
LEMMA SlotsKept ==
  ASSUME [Next]_vars, ~(\E c \in Calls : Continues(c))
  PROVE  pending' \subseteq pending
<1>1. ASSUME NEW c \in Calls, NEW k \in Kinds, NEW p \in Projects, NEW w \in Worktrees,
             NEW a \in Owners, Arrives(c, k, p, w, a)
      PROVE  pending' \subseteq pending
  BY <1>1 DEF Arrives
<1>2. ASSUME NEW p \in Projects, CleanupSettled(p) \/ ClaimLapses(p)
      PROVE  pending' \subseteq pending
  BY <1>2 DEF CleanupSettled, CleanupEnds, CleanupUnconfirmed, CleanupSettles, ClaimLapses
<1>3. ASSUME NEW g \in Calls, LeaderExit(g) \/ MembersExit(g) \/ SpawnError(g)
      PROVE  pending' \subseteq pending
  BY <1>3 DEF LeaderExit, MembersExit, SpawnError
<1>4. CASE \/ \E n \in Limits : SetCapacity(n)
           \/ \E place \in Places : ScanStarts(place) \/ ScanEnds(place) \/ TestsEnd(place)
           \/ CloseAdmission \/ Shutdown \/ ShutdownEnds \/ UNCHANGED vars
  BY <1>4 DEF SetCapacity, ScanStarts, ScanEnds, TestsEnd, CloseAdmission, Shutdown,
     ShutdownEnds, vars
<1> QED
  BY <1>1, <1>2, <1>3, <1>4 DEF Next

\* Every step stays within the limit of servers.
LEMMA StepCapacity ==
  ASSUME IInv, WorkInv, [Next]_vars, IsFiniteSet(Projects)
  PROVE  \/ Using' \subseteq Using \/ Cardinality(Using') <= limit
         \/ closing /\ \A p \in Projects : rt'[p].group \in {0, rt[p].group}
<1>1. CASE \E c \in Calls : PortFree(c) /\ MaySpawn(c)
  <2>1. PICK c \in Calls : PortFree(c) /\ MaySpawn(c)
    BY <1>1
  <2>2. Operates(c) /\ CallInv(c) /\ call[c].stage = "port"
    BY <2>1 DEF PortFree, Operates, Pending, Stages, WorkInv
  <2>3. Of(c) \in pending /\ pending' = pending
    BY <2>1, <2>2 DEF CallInv, PortFree
  <2>4. \A p \in Projects : p # Of(c) => rt'[p] = rt[p]
    BY <2>1, SpawnEntries DEF IInv
  <2>5. Using' \subseteq Using
    BY <2>3, <2>4 DEF Using
  <2> QED
    BY <2>5
<1>2. CASE ~(\E c \in Calls : PortFree(c) /\ MaySpawn(c))
  <2>1. \A p \in Projects : rt'[p].group \in {0, rt[p].group}
    BY <1>2, OthersShrink, ContinuesShrinks
  <2>2. CASE closing
    BY <2>1, <2>2
  <2>3. CASE pending' \subseteq pending
    <3>1. Using' \subseteq Using
      BY <2>1, <2>3 DEF Using
    <3> QED
      BY <3>1
  <2>4. CASE ~closing /\ ~(pending' \subseteq pending)
    <3>1. PICK c \in Calls : Continues(c)
      BY <2>4, SlotsKept
    <3>2. Awake(c) /\ pending' = pending \cup {Of(c)} /\ HasCapacity(Of(c))
      BY <2>4, <3>1, SlotsTaken
    <3>3. Using' \subseteq Using \cup {Of(c)}
      BY <2>1, <3>2 DEF Using
    <3> QED
      BY <2>4, <3>2, <3>3, OneMore
  <2> QED
    BY <2>2, <2>3, <2>4
<1> QED
  BY <1>1, <1>2

\* "limits concurrently starting or running managed servers"
\* (docs/project-brief.md:135): whatever operations, exits, failed stops and changes of
\* the limit come between, a project comes to use a slot only within the limit of that
\* moment, and once admission is closed no group is spawned.
THEOREM CapacityIsKept ==
  ASSUME IsFiniteSet(Projects)
  PROVE  Spec => WithinCapacity
<1>1. IInv /\ WorkInv /\ [Next]_vars =>
        [\/ Using' \subseteq Using \/ Cardinality(Using') <= limit
         \/ closing /\ \A p \in Projects : rt'[p].group \in {0, rt[p].group}]_vars
  BY StepCapacity
<1> QED
  BY <1>1, WorkHolds, PTL DEF Spec, WithinCapacity

-----------------------------------------------------------------------------
(* How many servers live at a time. *)

LiveServers == {g \in Calls : Alive(g)}
\* Projects whose entry owns a group, confirmed gone or not.
Owned == {p \in Projects : rt[p].group # 0}

\* Once admission is closed it stays so, and no project gains a group.
LEMMA ClosedSpawnsNothing ==
  ASSUME IInv, [Next]_vars, closing
  PROVE  closing' /\ Owned' \subseteq Owned
<1>1. \A p \in Projects : rt'[p].group \in {0, rt[p].group}
  <2>1. \A c \in Calls : ~MaySpawn(c)
    BY DEF MaySpawn
  <2> QED
    BY <2>1, OthersShrink, ContinuesShrinks
<1>t. closing = TRUE
  BY DEF IInv, TypeOK
<1>2. ASSUME NEW c \in Calls, Continues(c)
      PROVE  closing' = TRUE
  <2>1. CASE Turns(c)
    BY <1>t, <2>1 DEF Turns, TurnUnknown, TurnAsksGit, TurnStop, TurnProfile, TurnRemove,
       TurnRelease, TurnClaimed, control
  <2>2. CASE Answers(c)
    BY <1>t, <2>2 DEF Answers, GitFails, GitOperate, GitClaimed, GitClaim, GitReserve, GitTest,
       SourceObserved, GitClean, CacheRemoved, control
  <2>3. CASE Servers(c)
    BY <1>t, <2>3 DEF Servers, AfterStop, PortTaken, PortFree, Healthy, Aborted, Deadline, TimedOut,
       control
  <2> QED
    BY <1>2, <2>1, <2>2, <2>3 DEF Continues
<1>3. ASSUME ~(\E c \in Calls : Continues(c))
      PROVE  closing' = TRUE
  <2>1. ASSUME NEW c \in Calls, NEW k \in Kinds, NEW p \in Projects, NEW w \in Worktrees,
               NEW a \in Owners, Arrives(c, k, p, w, a)
        PROVE  closing' = TRUE
    BY <1>t, <2>1 DEF Arrives, control
  <2>2. ASSUME NEW p \in Projects, CleanupSettled(p) \/ ClaimLapses(p)
        PROVE  closing' = TRUE
    BY <1>t, <2>2 DEF CleanupSettled, CleanupEnds, CleanupUnconfirmed, ClaimLapses, control
  <2>3. ASSUME NEW g \in Calls, LeaderExit(g) \/ MembersExit(g) \/ SpawnError(g)
        PROVE  closing' = TRUE
    BY <1>t, <2>3 DEF LeaderExit, MembersExit, SpawnError, control
  <2>4. CASE \/ \E m \in Limits : SetCapacity(m)
             \/ \E place \in Places : ScanStarts(place) \/ ScanEnds(place) \/ TestsEnd(place)
             \/ CloseAdmission \/ Shutdown \/ ShutdownEnds \/ UNCHANGED vars
    BY <1>t, <2>4 DEF SetCapacity, ScanStarts, ScanEnds, TestsEnd, CloseAdmission, Shutdown,
       ShutdownEnds, vars, control
  <2> QED
    BY <1>3, <2>1, <2>2, <2>3, <2>4 DEF Next
<1>4. Owned' \subseteq Owned
  BY <1>1 DEF Owned
<1> QED
  BY <1>2, <1>3, <1>4

\* Every live server is the owned group of a project of its own.
LEMMA LiveAreOwned ==
  ASSUME IInv, IsFiniteSet(Projects)
  PROVE  /\ IsFiniteSet(Owned) /\ IsFiniteSet(LiveServers)
         /\ Cardinality(LiveServers) <= Cardinality(Owned)
<1> DEFINE f == [g \in LiveServers |-> proc[g].project]
<1>1. ASSUME NEW g \in LiveServers
      PROVE  /\ proc[g].project \in Owned /\ rt[proc[g].project].group = g
  <2>1. g \in Calls /\ Alive(g) /\ g # 0
    BY <1>1 DEF LiveServers, Calls
  <2>2. proc[g] \in Groups
    BY <2>1 DEF IInv, TypeOK, Alive, NoGroup
  <2>3. proc[g].project \in Projects
    BY <2>2 DEF Groups
  <2>4. rt[proc[g].project].group = g
    BY <2>1 DEF IInv, OneServer
  <2> QED
    BY <2>1, <2>3, <2>4 DEF Owned
<1>2. f \in [LiveServers -> Owned]
  BY <1>1
<1>3. \A g, h \in LiveServers : f[g] = f[h] => g = h
  BY <1>1
<1>4. f \in Injection(LiveServers, Owned)
  BY <1>2, <1>3 DEF Injection, IsInjective
<1>5. IsFiniteSet(Owned)
  BY FS_Subset DEF Owned
<1> QED
  BY <1>4, <1>5, FS_Injection

\* The servers that live, or are about to, are within the largest limit.
Bounded(n) ==
  /\ Cardinality(Owned) <= n
  /\ closing \/ Cardinality(Using) <= n

\* A set within another is not larger.
LEMMA Within ==
  ASSUME NEW S, IsFiniteSet(S), NEW T, T \subseteq S, NEW n \in Nat, Cardinality(S) <= n
  PROVE  Cardinality(T) <= n
<1>1. Cardinality(T) <= Cardinality(S) /\ IsFiniteSet(T)
  BY FS_Subset
<1>2. PICK s \in Nat, t \in Nat : s = Cardinality(S) /\ t = Cardinality(T)
  BY <1>1, FS_CardinalityType
<1>3. t <= s /\ s <= n
  BY <1>1, <1>2
<1> QED
  BY <1>2, <1>3

\* Every step keeps the bound.
LEMMA BoundKept ==
  ASSUME IInv, IInv', WorkInv, [Next]_vars, IsFiniteSet(Projects), NEW n \in Nat,
         \A l \in Limits : l <= n, Bounded(n)
  PROVE  Bounded(n)'
<1>1. IsFiniteSet(Using) /\ IsFiniteSet(Owned)
  BY FS_Subset DEF Using, Owned, IInv, TypeOK
<1>2. CASE closing
  <2>1. closing' /\ Owned' \subseteq Owned
    BY <1>2, ClosedSpawnsNothing
  <2>2. Cardinality(Owned') <= n
    BY <1>1, <2>1, Within DEF Bounded
  <2> QED
    BY <2>1, <2>2 DEF Bounded, Owned
<1>3. CASE ~closing
  <2>1. IsFiniteSet(Using') /\ Owned' \subseteq Using'
    <3>1. Using' \subseteq Projects /\ Owned' \subseteq Using'
      BY DEF Using, Owned, IInv, TypeOK
    <3> QED
      BY <3>1, FS_Subset
  <2>2. Cardinality(Using') <= n
    <3>1. CASE Using' \subseteq Using
      BY <1>1, <1>3, <3>1, Within DEF Bounded
    <3>2. CASE ~(Using' \subseteq Using)
      <4>1. Cardinality(Using') <= limit
        BY <1>3, <3>2, StepCapacity
      <4>2. limit \in Nat /\ limit <= n /\ Cardinality(Using') \in Nat
        BY <2>1, FS_CardinalityType, ControlAssumption DEF IInv, TypeOK
      <4>3. PICK l \in Nat, u \in Nat : l = limit /\ u = Cardinality(Using')
        BY <4>2
      <4>4. u <= l /\ l <= n
        BY <4>1, <4>2, <4>3
      <4> QED
        BY <4>3, <4>4
    <3> QED
      BY <3>1, <3>2
  <2>3. Cardinality(Owned') <= n
    BY <2>1, <2>2, Within
  <2> QED
    BY <2>2, <2>3 DEF Bounded, Owned, Using
<1> QED
  BY <1>2, <1>3

\* However operations, exits, unconfirmed stops and changes of the limit interleave, no
\* more servers live at a time than the largest limit that is ever set: "limits
\* concurrently starting or running managed servers" (docs/project-brief.md:135).
THEOREM LiveServersBounded ==
  ASSUME IsFiniteSet(Projects), NEW n \in Nat, \A l \in Limits : l <= n
  PROVE  Spec => [](Cardinality(LiveServers) <= n)
<1>1. Init => Bounded(n)
  <2>1. ASSUME Init
        PROVE  Owned = {} /\ Using = {}
    <3>1. \A p \in Projects : rt[p].group = 0
      BY <2>1 DEF Init, Entry
    <3> QED
      BY <2>1, <3>1 DEF Init, Owned, Using
  <2> QED
    BY <2>1, FS_EmptySet DEF Bounded
<1>2. IInv /\ IInv' /\ WorkInv /\ Bounded(n) /\ [Next]_vars => Bounded(n)'
  BY BoundKept
<1>3. IInv /\ Bounded(n) => Cardinality(LiveServers) <= n
  <2> SUFFICES ASSUME IInv, Bounded(n)
               PROVE  Cardinality(LiveServers) <= n
    OBVIOUS
  <2>1. /\ IsFiniteSet(Owned) /\ IsFiniteSet(LiveServers)
        /\ Cardinality(LiveServers) <= Cardinality(Owned)
    BY LiveAreOwned
  <2>2. PICK s \in Nat, t \in Nat : s = Cardinality(LiveServers) /\ t = Cardinality(Owned)
    BY <2>1, FS_CardinalityType
  <2>3. s <= t /\ t <= n
    BY <2>1, <2>2 DEF Bounded
  <2> QED
    BY <2>2, <2>3
<1> QED
  BY <1>1, <1>2, <1>3, WorkHolds, PTL DEF Spec
=============================================================================
