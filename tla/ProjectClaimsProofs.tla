------------------------- MODULE ProjectClaimsProofs -------------------------
(* Proofs about reservations, for every set of projects, worktrees, keys and  *)
(* sessions, every choice of lease times, and any number of rows and calls.   *)
EXTENDS ProjectClaims, TLAPS

USE ClaimsAssumption

-----------------------------------------------------------------------------
(* What the calls do to the rows: every step leaves them alone, expires a      *)
(* project's, inserts one where none is held, renews one or releases one.     *)

Inserts(p, row) ==
  /\ HeldOf(p) = {} /\ CanInsert
  /\ row \in Rows /\ row.status = "held" /\ row.project = p
  /\ row.expires <= row.maximum
  /\ row.owner # Human => row.created = now /\ row.expires <= now + DefaultTTL
  /\ res' = Inserted(p, row)

Renews(i, ttl) ==
  /\ Renewable(i) /\ res' = Renewed(i, ttl)
  /\ \/ Allowed(res[i].owner) /\ last' = last
     \/ last' = [last EXCEPT ![res[i].owner] = now]

RowStep ==
  \/ res' = res
  \/ \E p \in Projects : res' = Expire(p)
  \/ \E p \in Projects, row \in Rows : Inserts(p, row)
  \/ \E i \in Ids, ttl \in TTLs : res[i].owner \in Sessions /\ Renews(i, ttl)
  \/ \E p \in Projects : \E i \in HeldOf(p) :
       res' = [Expire(p) EXCEPT ![i].status = "released"]

\* A claims entry belongs to a session that made the row, and so does the row
\* of a call that is being operated.
Owned ==
  /\ \A i \in Ids : handle[i] # NoHandle => res[i] # Free /\ res[i].owner \in Sessions
  /\ \A c \in Calls : call[c].stage = "operating" =>
       /\ call[c].row \in Ids /\ res[call[c].row] # Free
       /\ res[call[c].row].owner = call[c].session

-----------------------------------------------------------------------------
(* Rows. *)

LEMMA TTLBounds ==
  /\ DefaultTTL \in Nat /\ MaxLife \in Nat
  /\ \A t \in TTLs : t \in Nat /\ 0 < t /\ t <= DefaultTTL /\ t <= MaxLife
<1>1. DefaultTTL \in Nat /\ MaxLife \in Nat /\ DefaultTTL <= MaxLife
  OBVIOUS
<1>2. ASSUME NEW t \in TTLs
      PROVE  t \in Nat /\ 0 < t /\ t <= DefaultTTL
  OBVIOUS
<1> QED
  BY <1>1, <1>2

LEMMA RowFields ==
  ASSUME NEW row \in Rows
  PROVE  /\ row # Free
         /\ row.status \in {"held", "released"} /\ row.project \in Projects
         /\ row.worktree \in Worktrees /\ row.owner \in Owners /\ row.token \in Tokens
         /\ row.created \in Nat /\ row.expires \in Nat /\ row.maximum \in Nat
         /\ [row EXCEPT !.status = "released"] \in Rows
         /\ \A e \in Nat : [row EXCEPT !.expires = e] \in Rows
BY DEF Rows, Free

LEMMA HeldIsRow ==
  ASSUME TypeOK, NEW i \in Ids, Held(i)
  PROVE  res[i] \in Rows /\ res[i] # Free
BY DEF TypeOK, Held, Free, Rows

\* Expiring a project's rows changes nothing but the status of expired ones.
LEMMA ExpireKeeps ==
  ASSUME TypeOK, NEW p \in Projects
  PROVE  /\ Expire(p) \in [Ids -> Rows \cup {Free}]
         /\ \A i \in Ids :
              /\ res[i] = Free => Expire(p)[i] = Free
              /\ res[i] # Free =>
                   /\ Expire(p)[i] \in Rows
                   /\ Expire(p)[i].project = res[i].project
                   /\ Expire(p)[i].owner = res[i].owner
                   /\ Expire(p)[i].created = res[i].created
                   /\ Expire(p)[i].expires = res[i].expires
                   /\ Expire(p)[i].maximum = res[i].maximum
              /\ Expire(p)[i].status = "held" =>
                   Held(i) /\ ~(res[i].project = p /\ Expired(i))
<1>1. ASSUME NEW i \in Ids, res[i] = Free
      PROVE  Expire(p)[i] = Free
  BY <1>1 DEF Expire, Held, Free
<1>2. ASSUME NEW i \in Ids, res[i] # Free
      PROVE  /\ Expire(p)[i] \in Rows
             /\ Expire(p)[i].project = res[i].project
             /\ Expire(p)[i].owner = res[i].owner
             /\ Expire(p)[i].created = res[i].created
             /\ Expire(p)[i].expires = res[i].expires
             /\ Expire(p)[i].maximum = res[i].maximum
  <2>1. res[i] \in Rows
    BY <1>2 DEF TypeOK
  <2>2. Expire(p)[i] \in {res[i], [res[i] EXCEPT !.status = "released"]}
    BY DEF Expire
  <2> QED
    BY <2>1, <2>2, RowFields DEF Rows
<1>3. ASSUME NEW i \in Ids, Expire(p)[i].status = "held"
      PROVE  Held(i) /\ ~(res[i].project = p /\ Expired(i))
  <2>1. CASE res[i] = Free
    BY <2>1, <1>1, <1>3 DEF Free
  <2>2. CASE res[i] # Free
    <3>1. res[i] \in Rows
      BY <2>2 DEF TypeOK
    <3> QED
      BY <3>1, <1>3 DEF Expire, Held, Rows
  <2> QED
    BY <2>1, <2>2
<1> QED
  BY <1>1, <1>2, <1>3 DEF Expire

\* A new row goes to a free identity.
LEMMA InsertedRows ==
  ASSUME TypeOK, NEW p \in Projects, NEW row \in Rows, CanInsert
  PROVE  /\ NewId \in Ids /\ res[NewId] = Free
         /\ Inserted(p, row) \in [Ids -> Rows \cup {Free}]
         /\ Inserted(p, row)[NewId] = row
         /\ \A i \in Ids : i # NewId => Inserted(p, row)[i] = Expire(p)[i]
<1>1. NewId \in Ids /\ res[NewId] = Free
  BY DEF CanInsert, NewId
<1>2. Expire(p) \in [Ids -> Rows \cup {Free}]
  BY ExpireKeeps
<1> QED
  BY <1>1, <1>2 DEF Inserted

\* A renewal moves one row's expiry, within the lifetime.
LEMMA RenewedRows ==
  ASSUME TypeOK, NEW i \in Ids, NEW ttl \in TTLs, Renewable(i)
  PROVE  /\ res[i] \in Rows
         /\ RenewedExpiry(i, ttl) \in Nat
         /\ RenewedExpiry(i, ttl) <= res[i].maximum
         /\ RenewedExpiry(i, ttl) <= now + ttl
         /\ Renewed(i, ttl) \in [Ids -> Rows \cup {Free}]
         /\ Renewed(i, ttl)[i] = [res[i] EXCEPT !.expires = RenewedExpiry(i, ttl)]
         /\ \A j \in Ids : j # i => Renewed(i, ttl)[j] = res[j]
<1>1. res[i] \in Rows
  BY HeldIsRow DEF Renewable, Effective
<1>2. res[i].maximum \in Nat /\ now \in Nat /\ ttl \in Nat
  BY <1>1, RowFields DEF TypeOK
<1>3. /\ RenewedExpiry(i, ttl) \in Nat
      /\ RenewedExpiry(i, ttl) <= res[i].maximum
      /\ RenewedExpiry(i, ttl) <= now + ttl
  BY <1>2 DEF RenewedExpiry
<1>4. [res[i] EXCEPT !.expires = RenewedExpiry(i, ttl)] \in Rows
  BY <1>1, <1>3, RowFields
<1> QED
  BY <1>1, <1>3, <1>4 DEF Renewed, TypeOK

\* A release takes one unreleased row out of force.
LEMMA ReleasedRows ==
  ASSUME TypeOK, NEW p \in Projects, NEW i \in HeldOf(p)
  PROVE  LET after == [Expire(p) EXCEPT ![i].status = "released"] IN
         /\ i \in Ids /\ res[i] # Free
         /\ after \in [Ids -> Rows \cup {Free}]
         /\ after[i] = [Expire(p)[i] EXCEPT !.status = "released"]
         /\ after[i] \in Rows
         /\ \A j \in Ids : j # i => after[j] = Expire(p)[j]
<1>1. i \in Ids /\ res[i] # Free
  BY HeldIsRow DEF HeldOf, Effective
<1>2. Expire(p) \in [Ids -> Rows \cup {Free}] /\ Expire(p)[i] \in Rows
  BY <1>1, ExpireKeeps
<1>3. [Expire(p)[i] EXCEPT !.status = "released"] \in Rows
  BY <1>2, RowFields
<1> QED
  BY <1>1, <1>2, <1>3

\* A request that is on a chain has its fields.
LEMMA PendingIsRequest ==
  ASSUME TypeOK, NEW c \in Calls, Pending(c)
  PROVE  /\ call[c] \in Requests
         /\ call[c].session \in Sessions /\ call[c].project \in Projects
         /\ call[c].worktree \in Worktrees /\ call[c].key \in Keys \cup {Human}
         /\ call[c].ttl \in TTLs /\ call[c].token \in Tokens
         /\ call[c].row \in 0..NRows
<1>1. call[c] \in Requests
  BY DEF TypeOK, Pending, NoCall, Done, Refused
<1> QED
  BY <1>1 DEF Requests

-----------------------------------------------------------------------------
(* Every step is a RowStep. *)

LEMMA NextIsRowStep == TypeOK /\ Owned /\ [Next]_vars => RowStep
<1> SUFFICES ASSUME TypeOK, Owned, [Next]_vars
             PROVE  RowStep
  OBVIOUS
<1>1. ASSUME NEW c \in Calls, NEW s \in Sessions, NEW p \in Projects,
             NEW w \in Worktrees, NEW k \in Keys, NEW t \in TTLs,
             ClaimArrives(c, s, p, w, k, t)
      PROVE  RowStep
  BY <1>1 DEF ClaimArrives, RowStep
<1>2. ASSUME NEW c \in Calls, NEW s \in Sessions, NEW i \in Ids, ReleaseArrives(c, s, i)
      PROVE  RowStep
  BY <1>2 DEF ReleaseArrives, RowStep
<1>3. ASSUME NEW c \in Calls, ClaimAcquires(c)
      PROVE  RowStep
  <2> DEFINE r == call[c]
             row == [status |-> "held", project |-> r.project, worktree |-> r.worktree,
                     owner |-> r.session, key |-> r.key, token |-> r.token,
                     created |-> now, expires |-> now + r.ttl, maximum |-> now + MaxLife]
  <2>1. /\ r.session \in Sessions /\ r.project \in Projects /\ r.worktree \in Worktrees
        /\ r.key \in Keys \cup {Human} /\ r.ttl \in TTLs /\ r.token \in Tokens
    BY <1>3, PendingIsRequest DEF ClaimAcquires, Turn, Pending
  <2>2. /\ now \in Nat /\ r.ttl \in Nat /\ r.ttl <= DefaultTTL /\ r.ttl <= MaxLife
        /\ MaxLife \in Nat /\ DefaultTTL \in Nat
    BY <2>1, TTLBounds DEF TypeOK
  <2>3. /\ now + r.ttl \in Nat /\ now + MaxLife \in Nat
        /\ now + r.ttl <= now + MaxLife /\ now + r.ttl <= now + DefaultTTL
    BY <2>2
  <2>4. row \in Rows
    BY <2>1, <2>2, <2>3 DEF Rows, Owners
  <2>5. Inserts(r.project, row)
    BY <1>3, <2>3, <2>4 DEF ClaimAcquires, Inserts
  <2> QED
    BY <2>1, <2>4, <2>5 DEF RowStep
<1>4. ASSUME NEW c \in Calls, ClaimRepeats(c)
      PROVE  RowStep
  <2>1. call[c].project \in Projects
    BY <1>4, PendingIsRequest DEF ClaimRepeats, Turn, Pending
  <2> QED
    BY <1>4, <2>1 DEF ClaimRepeats, RowStep
<1>5. ASSUME NEW c \in Calls, ClaimRefused(c) \/ ClaimReturns(c)
      PROVE  RowStep
  BY <1>5 DEF ClaimRefused, ClaimReturns, RowStep
<1>6. ASSUME NEW c \in Calls, ReleaseRuns(c)
      PROVE  RowStep
  <2>1. call[c].project \in Projects
    BY <1>6, PendingIsRequest DEF ReleaseRuns, Turn, Pending
  <2> QED
    BY <1>6, <2>1 DEF ReleaseRuns, RowStep
<1>7. ASSUME NEW i \in Ids, RenewalTimer(i)
      PROVE  RowStep
  <2>1. handle[i] # NoHandle /\ handle[i] \in Handles
    BY <1>7 DEF RenewalTimer, TypeOK, NoHandle
  <2>2. res[i].owner \in Sessions /\ handle[i].ttl \in TTLs
    BY <2>1 DEF Owned, Handles
  <2>3. CASE res' = res
    BY <2>3 DEF RowStep
  <2>4. CASE res' # res
    <3>1. /\ Renewable(i) /\ res' = Renewed(i, handle[i].ttl)
          /\ Allowed(res[i].owner) /\ last' = last
      BY <1>7, <2>4 DEF RenewalTimer
    <3>2. Renews(i, handle[i].ttl)
      BY <3>1 DEF Renews
    <3> QED
      BY <2>2, <3>2 DEF RowStep
  <2> QED
    BY <2>3, <2>4
<1>8. ASSUME NEW s \in Sessions, NEW i \in Ids, NEW t \in TTLs, NEW g \in BOOLEAN,
             RenewCall(s, i, t, g)
      PROVE  RowStep
  <2>1. res[i].owner = s /\ last' = [last EXCEPT ![res[i].owner] = now]
    BY <1>8 DEF RenewCall, Active
  <2>2. CASE Renewable(i)
    <3>1. Renews(i, t)
      BY <1>8, <2>1, <2>2 DEF RenewCall, Renews
    <3> QED
      BY <2>1, <3>1 DEF RowStep
  <2>3. CASE ~Renewable(i)
    BY <1>8, <2>3 DEF RenewCall, RowStep
  <2> QED
    BY <2>2, <2>3
<1>9. ASSUME NEW s \in Sessions, OtherCall(s) \/ SessionCloses(s)
      PROVE  RowStep
  BY <1>9 DEF OtherCall, SessionCloses, RowStep
<1>10. ASSUME NEW p \in Projects, NEW w \in Worktrees, HumanReserves(p, w)
       PROVE  RowStep
  <2> DEFINE row == [status |-> "held", project |-> p, worktree |-> w,
                     owner |-> Human, key |-> Human, token |-> 0, created |-> now,
                     expires |-> now, maximum |-> now]
  <2>1. row \in Rows
    BY DEF Rows, Owners, Tokens, TypeOK
  <2>2. Inserts(p, row)
    BY <1>10, <2>1 DEF HumanReserves, Inserts, TypeOK
  <2> QED
    BY <2>1, <2>2 DEF RowStep
<1>11. ASSUME NEW p \in Projects, Reader(p)
       PROVE  RowStep
  BY <1>11 DEF Reader, RowStep
<1>12. ASSUME NEW p \in Projects, NEW force \in BOOLEAN, HumanReleases(p, force)
       PROVE  RowStep
  BY <1>12 DEF HumanReleases, RowStep
<1>13. CASE Restart \/ Tick \/ UNCHANGED vars
  BY <1>13 DEF Restart, Tick, vars, RowStep
<1> QED
  BY <1>1, <1>2, <1>3, <1>4, <1>5, <1>6, <1>7, <1>8, <1>9, <1>10, <1>11, <1>12,
     <1>13 DEF Next

-----------------------------------------------------------------------------
(* Rows keep their type, their project and their owner. *)

LEMMA ExpireKept ==
  ASSUME TypeOK, NEW p \in Projects, NEW i \in Ids
  PROVE  /\ Expire(p)[i] # Free => Expire(p)[i].expires <= Expire(p)[i].maximum
         /\ res[i] # Free =>
              /\ Expire(p)[i] # Free
              /\ Expire(p)[i].project = res[i].project
              /\ Expire(p)[i].owner = res[i].owner
<1>1. CASE res[i] = Free
  BY <1>1, ExpireKeeps
<1>2. CASE res[i] # Free
  <2>1. /\ Expire(p)[i] \in Rows
        /\ Expire(p)[i].project = res[i].project
        /\ Expire(p)[i].owner = res[i].owner
        /\ Expire(p)[i].expires = res[i].expires
        /\ Expire(p)[i].maximum = res[i].maximum
    BY <1>2, ExpireKeeps
  <2>2. res[i].expires <= res[i].maximum
    BY <1>2 DEF TypeOK
  <2> QED
    BY <2>1, <2>2, RowFields
<1> QED
  BY <1>1, <1>2

LEMMA RowsKept ==
  ASSUME TypeOK, RowStep
  PROVE  /\ res' \in [Ids -> Rows \cup {Free}]
         /\ \A i \in Ids : res'[i] # Free => res'[i].expires <= res'[i].maximum
         /\ \A i \in Ids : res[i] # Free =>
              /\ res'[i] # Free
              /\ res'[i].project = res[i].project /\ res'[i].owner = res[i].owner
<1>0. \A i \in Ids : res[i] # Free => res[i] \in Rows /\ res[i].expires <= res[i].maximum
  BY DEF TypeOK
<1>1. CASE res' = res
  BY <1>1 DEF TypeOK
<1>2. ASSUME NEW p \in Projects, res' = Expire(p)
      PROVE  /\ res' \in [Ids -> Rows \cup {Free}]
             /\ \A i \in Ids : res'[i] # Free => res'[i].expires <= res'[i].maximum
             /\ \A i \in Ids : res[i] # Free =>
                  /\ res'[i] # Free
                  /\ res'[i].project = res[i].project /\ res'[i].owner = res[i].owner
  BY <1>2, ExpireKeeps, ExpireKept
<1>3. ASSUME NEW p \in Projects, NEW row \in Rows, Inserts(p, row)
      PROVE  /\ res' \in [Ids -> Rows \cup {Free}]
             /\ \A i \in Ids : res'[i] # Free => res'[i].expires <= res'[i].maximum
             /\ \A i \in Ids : res[i] # Free =>
                  /\ res'[i] # Free
                  /\ res'[i].project = res[i].project /\ res'[i].owner = res[i].owner
  <2>1. /\ NewId \in Ids /\ res[NewId] = Free
        /\ res' \in [Ids -> Rows \cup {Free}] /\ res'[NewId] = row
        /\ \A i \in Ids : i # NewId => res'[i] = Expire(p)[i]
    BY <1>3, InsertedRows DEF Inserts
  <2> QED
    <3>1. row # Free /\ row.expires <= row.maximum
      BY <1>3, RowFields DEF Inserts
    <3>2. ASSUME NEW i \in Ids
          PROVE  /\ res'[i] # Free => res'[i].expires <= res'[i].maximum
                 /\ res[i] # Free =>
                      /\ res'[i] # Free
                      /\ res'[i].project = res[i].project /\ res'[i].owner = res[i].owner
      BY <2>1, <3>1, ExpireKept
    <3> QED
      BY <2>1, <3>2
<1>4. ASSUME NEW i \in Ids, NEW ttl \in TTLs, Renews(i, ttl)
      PROVE  /\ res' \in [Ids -> Rows \cup {Free}]
             /\ \A j \in Ids : res'[j] # Free => res'[j].expires <= res'[j].maximum
             /\ \A j \in Ids : res[j] # Free =>
                  /\ res'[j] # Free
                  /\ res'[j].project = res[j].project /\ res'[j].owner = res[j].owner
  <2> DEFINE e == RenewedExpiry(i, ttl)
  <2>1. /\ res[i] \in Rows /\ e \in Nat /\ e <= res[i].maximum
        /\ res' \in [Ids -> Rows \cup {Free}]
        /\ res'[i] = [res[i] EXCEPT !.expires = e]
        /\ \A j \in Ids : j # i => res'[j] = res[j]
    BY <1>4, RenewedRows DEF Renews
  <2>2. /\ res'[i].expires = e /\ res'[i].maximum = res[i].maximum
        /\ res'[i].project = res[i].project /\ res'[i].owner = res[i].owner
        /\ res'[i] \in Rows
    BY <2>1, RowFields DEF Rows
  <2> HIDE DEF e
  <2> QED
    BY <1>0, <2>1, <2>2, RowFields
<1>5. ASSUME NEW p \in Projects, NEW i \in HeldOf(p),
             res' = [Expire(p) EXCEPT ![i].status = "released"]
      PROVE  /\ res' \in [Ids -> Rows \cup {Free}]
             /\ \A j \in Ids : res'[j] # Free => res'[j].expires <= res'[j].maximum
             /\ \A j \in Ids : res[j] # Free =>
                  /\ res'[j] # Free
                  /\ res'[j].project = res[j].project /\ res'[j].owner = res[j].owner
  <2>1. /\ i \in Ids /\ res[i] # Free /\ res' \in [Ids -> Rows \cup {Free}]
        /\ res'[i] = [Expire(p)[i] EXCEPT !.status = "released"] /\ res'[i] \in Rows
        /\ \A j \in Ids : j # i => res'[j] = Expire(p)[j]
    BY <1>5, ReleasedRows
  <2>2. /\ res'[i].expires = Expire(p)[i].expires /\ res'[i].maximum = Expire(p)[i].maximum
        /\ res'[i].project = Expire(p)[i].project /\ res'[i].owner = Expire(p)[i].owner
    <3>1. Expire(p)[i] \in Rows
      BY <2>1, ExpireKeeps
    <3> QED
      BY <2>1, <3>1 DEF Rows
  <2>3. ASSUME NEW j \in Ids
        PROVE  /\ res'[j] # Free => res'[j].expires <= res'[j].maximum
               /\ res[j] # Free =>
                    /\ res'[j] # Free
                    /\ res'[j].project = res[j].project /\ res'[j].owner = res[j].owner
    <3>1. CASE j = i
      <4>1. res'[i] # Free
        BY <2>1, RowFields
      <4>2. Expire(p)[i] # Free
        BY <2>1, ExpireKept
      <4> QED
        BY <2>1, <2>2, <3>1, <4>1, <4>2, ExpireKept
    <3>2. CASE j # i
      BY <2>1, <3>2, ExpireKept
    <3> QED
      BY <3>1, <3>2
  <2> QED
    BY <2>1, <2>3
<1> QED
  BY <1>1, <1>2, <1>3, <1>4, <1>5 DEF RowStep

-----------------------------------------------------------------------------
(* The session's side keeps its type. *)

LEMMA ArmedType ==
  ASSUME TypeOK, NEW ttl \in TTLs
  PROVE  Armed(ttl) \in Handles /\ Armed(ttl) # NoHandle
<1>1. now \in Nat /\ ttl \in Nat /\ ttl \div 3 \in Nat
  BY TTLBounds DEF TypeOK
<1> QED
  BY <1>1 DEF Armed, Delay, Handles, NoHandle

LEMMA WokenType ==
  ASSUME TypeOK, NEW s, NEW h \in [Ids -> Handles \cup {NoHandle}]
  PROVE  /\ Woken(h, s) \in [Ids -> Handles \cup {NoHandle}]
         /\ \A i \in Ids : Woken(h, s)[i] # NoHandle => h[i] # NoHandle
<1>1. ASSUME NEW i \in Ids
      PROVE  /\ Woken(h, s)[i] \in Handles \cup {NoHandle}
             /\ Woken(h, s)[i] # NoHandle => h[i] # NoHandle
  <2>1. CASE h[i].timer = "stopped"
    <3>1. h[i] \in Handles /\ h[i] # NoHandle /\ now \in Nat
      BY <2>1 DEF NoHandle, TypeOK
    <3>2. [h[i] EXCEPT !.timer = "armed", !.due = now] \in Handles
      BY <3>1 DEF Handles
    <3> QED
      BY <3>1, <3>2 DEF Woken
  <2>2. CASE h[i].timer # "stopped"
    BY <2>2 DEF Woken
  <2> QED
    BY <2>1, <2>2
<1> QED
  BY <1>1 DEF Woken

LEMMA ActiveType ==
  ASSUME TypeOK, NEW s \in Sessions, Active(s)
  PROVE  last' \in [Sessions -> Nat] /\ stopped' \subseteq Sessions
BY DEF Active, TypeOK

\* A call that settles leaves the claims h, woken or not.
LEMMA SettledType ==
  ASSUME TypeOK, NEW s \in Sessions, NEW h \in [Ids -> Handles \cup {NoHandle}],
         Settled(s, h)
  PROVE  /\ last' \in [Sessions -> Nat] /\ stopped' \subseteq Sessions
         /\ handle' \in [Ids -> Handles \cup {NoHandle}]
         /\ \A i \in Ids : handle'[i] # NoHandle => h[i] # NoHandle
BY WokenType, ActiveType DEF Settled, TypeOK

LEMMA DroppedType ==
  ASSUME TypeOK, NEW S
  PROVE  /\ Dropped(S) \in [Ids -> Handles \cup {NoHandle}]
         /\ \A i \in Ids : Dropped(S)[i] # NoHandle => handle[i] # NoHandle
BY DEF Dropped, TypeOK

\* The session's variables and the calls keep their types.
SideType ==
  /\ now \in Nat
  /\ call \in [Calls -> Requests \cup {NoCall, Done, Refused}]
  /\ tokens \in [Sessions -> [Projects \X Keys -> Tokens]]
  /\ handle \in [Ids -> Handles \cup {NoHandle}]
  /\ last \in [Sessions -> Nat]
  /\ stopped \subseteq Sessions /\ closing \subseteq Sessions

\* What a step does to the two sides of Owned: a claims entry was there or is
\* made for the row of an operated call, and an operated call was operated or
\* has just been given a row of its session.
HandleStep ==
  \A i \in Ids : handle'[i] # NoHandle =>
    \/ handle[i] # NoHandle
    \/ \E c \in Calls : call[c].stage = "operating" /\ call[c].row = i
CallStep ==
  \A c \in Calls : call'[c].stage = "operating" =>
    \/ call[c].stage = "operating" /\ call'[c] = call[c]
    \/ /\ call'[c].row \in Ids /\ res'[call'[c].row] # Free
       /\ res'[call'[c].row].owner = call'[c].session

LEMMA ArrivalsKeep ==
  ASSUME TypeOK, Owned, NEW c \in Calls, NEW s \in Sessions, NEW r \in Requests,
         r.stage = "queued", call' = [call EXCEPT ![c] = r],
         handle' = Woken(handle, s), Active(s), UNCHANGED <<now, tokens, closing>>
  PROVE  SideType' /\ HandleStep /\ CallStep
<1>1. handle \in [Ids -> Handles \cup {NoHandle}]
  BY DEF TypeOK
<1>2. SideType'
  BY <1>1, WokenType, ActiveType DEF TypeOK, SideType
<1>3. HandleStep
  BY <1>1, WokenType DEF HandleStep
<1>4. CallStep
  BY DEF CallStep, TypeOK
<1> QED
  BY <1>2, <1>3, <1>4

LEMMA SettlingKeeps ==
  ASSUME TypeOK, Owned, NEW c \in Calls, NEW s \in Sessions, NEW v \in {Done, Refused},
         call' = [call EXCEPT ![c] = v], NEW h \in [Ids -> Handles \cup {NoHandle}],
         \A i \in Ids : h[i] # NoHandle => \/ handle[i] # NoHandle
                                           \/ call[c].stage = "operating" /\ call[c].row = i,
         Settled(s, h), UNCHANGED <<now, closing>>,
         tokens' \in [Sessions -> [Projects \X Keys -> Tokens]]
  PROVE  SideType' /\ HandleStep /\ CallStep
<1>1. SideType'
  BY SettledType DEF TypeOK, SideType
<1>2. HandleStep
  BY SettledType DEF HandleStep
<1>3. CallStep
  BY DEF CallStep, TypeOK, Done, Refused
<1> QED
  BY <1>1, <1>2, <1>3

LEMMA NextKeepsSide ==
  TypeOK /\ Owned /\ [Next]_vars => SideType' /\ HandleStep /\ CallStep
<1> SUFFICES ASSUME TypeOK, Owned, [Next]_vars
             PROVE  SideType' /\ HandleStep /\ CallStep
  OBVIOUS
<1>0. /\ handle \in [Ids -> Handles \cup {NoHandle}]
      /\ tokens \in [Sessions -> [Projects \X Keys -> Tokens]]
  BY DEF TypeOK
<1>1. ASSUME NEW c \in Calls, NEW s \in Sessions, NEW p \in Projects,
             NEW w \in Worktrees, NEW k \in Keys, NEW t \in TTLs,
             ClaimArrives(c, s, p, w, k, t)
      PROVE  SideType' /\ HandleStep /\ CallStep
  <2> DEFINE token == IF tokens[s][<<p, k>>] # 0 THEN tokens[s][<<p, k>>] ELSE c
             r == [kind |-> "claim", stage |-> "queued", session |-> s, project |-> p,
                   worktree |-> w, key |-> k, ttl |-> t, row |-> 0, token |-> token]
  <2>1. tokens[s][<<p, k>>] \in Tokens /\ c \in Tokens
    BY <1>0 DEF Calls, Tokens
  <2>2. token \in Tokens /\ 0 \in 0..NRows
    BY <2>1
  <2> HIDE DEF token
  <2>3. r \in Requests /\ r.stage = "queued"
    BY <2>2 DEF Requests
  <2>4. call' = [call EXCEPT ![c] = r]
    BY <1>1 DEF ClaimArrives, token
  <2>5. handle' = Woken(handle, s) /\ Active(s) /\ UNCHANGED <<now, tokens, closing>>
    BY <1>1 DEF ClaimArrives
  <2> QED
    BY <2>3, <2>4, <2>5, ArrivalsKeep
<1>2. ASSUME NEW c \in Calls, NEW s \in Sessions, NEW i \in Ids, ReleaseArrives(c, s, i)
      PROVE  SideType' /\ HandleStep /\ CallStep
  <2> DEFINE r == [kind |-> "release", stage |-> "queued", session |-> s,
                   project |-> res[i].project, worktree |-> res[i].worktree,
                   key |-> res[i].key, ttl |-> DefaultTTL, token |-> res[i].token,
                   row |-> i]
  <2>1. res[i] \in Rows
    BY <1>2 DEF ReleaseArrives, Owned, TypeOK
  <2>2. r \in Requests /\ r.stage = "queued"
    <3>1. /\ res[i].project \in Projects /\ res[i].worktree \in Worktrees
          /\ res[i].key \in Keys \cup {Human} /\ res[i].token \in Tokens
      BY <2>1 DEF Rows
    <3>2. i \in 0..NRows
      BY DEF Ids
    <3> QED
      BY <3>1, <3>2 DEF Requests
  <2>3. call' = [call EXCEPT ![c] = r]
    BY <1>2 DEF ReleaseArrives
  <2>4. handle' = Woken(handle, s) /\ Active(s) /\ UNCHANGED <<now, tokens, closing>>
    BY <1>2 DEF ReleaseArrives
  <2> QED
    BY <2>2, <2>3, <2>4, ArrivalsKeep
<1>3. ASSUME NEW c \in Calls, ClaimAcquires(c)
      PROVE  SideType' /\ HandleStep /\ CallStep
  <2> DEFINE r == call[c]
             row == [status |-> "held", project |-> r.project, worktree |-> r.worktree,
                     owner |-> r.session, key |-> r.key, token |-> r.token,
                     created |-> now, expires |-> now + r.ttl, maximum |-> now + MaxLife]
             r2 == [r EXCEPT !.stage = "operating", !.row = NewId]
  <2>0. r \in Requests /\ r.ttl \in Nat /\ now \in Nat /\ MaxLife \in Nat
    BY <1>3, PendingIsRequest, TTLBounds DEF ClaimAcquires, Turn, Pending, TypeOK
  <2>1. row \in Rows /\ r.project \in Projects
    BY <2>0 DEF Rows, Owners, Requests
  <2>2. /\ NewId \in Ids /\ res'[NewId] = row
    BY <1>3, <2>1, InsertedRows DEF ClaimAcquires
  <2>3. /\ r2 \in Requests /\ r2.row = NewId /\ r2.session = r.session
    <3>1. NewId \in 0..NRows
      BY <2>2 DEF Ids
    <3> QED
      BY <2>0, <3>1 DEF Requests
  <2>4. call' = [call EXCEPT ![c] = r2]
    BY <1>3 DEF ClaimAcquires
  <2>5. res'[NewId] # Free /\ res'[NewId].owner = r.session
    <3>1. row # Free
      BY <2>1, RowFields
    <3>2. row.owner = r.session
      OBVIOUS
    <3> HIDE DEF row, r2
    <3> QED
      BY <2>2, <3>1, <3>2
  <2> HIDE DEF r2, row
  <2>6. SideType'
    BY <1>3, <2>3, <2>4 DEF ClaimAcquires, session, SideType, TypeOK
  <2>7. HandleStep
    BY <1>3 DEF ClaimAcquires, session, HandleStep
  <2>8. CallStep
    BY <2>2, <2>3, <2>4, <2>5 DEF CallStep, TypeOK
  <2> QED
    BY <2>6, <2>7, <2>8
<1>4. ASSUME NEW c \in Calls, ClaimRepeats(c)
      PROVE  SideType' /\ HandleStep /\ CallStep
  <2> DEFINE r == call[c]
  <2>0. r \in Requests /\ r.project \in Projects
    BY <1>4, PendingIsRequest DEF ClaimRepeats, Turn, Pending
  <2>1. PICK i \in Ids : /\ Held(i) /\ res[i].owner = r.session
                         /\ call' = [call EXCEPT ![c].stage = "operating", ![c].row = i]
    BY <1>4 DEF ClaimRepeats, Repeated
  <2> DEFINE r2 == [r EXCEPT !.stage = "operating", !.row = i]
  <2>2. r2 \in Requests /\ r2.row = i /\ r2.session = r.session
    <3>1. i \in 0..NRows
      BY DEF Ids
    <3> QED
      BY <2>0, <3>1 DEF Requests
  <2>3. call' = [call EXCEPT ![c] = r2]
    BY <2>1
  <2>4. res'[i] # Free /\ res'[i].owner = r.session
    BY <1>4, <2>0, <2>1, HeldIsRow, ExpireKept DEF ClaimRepeats
  <2> HIDE DEF r2
  <2>5. SideType'
    BY <1>4, <2>2, <2>3 DEF ClaimRepeats, session, SideType, TypeOK
  <2>6. HandleStep
    BY <1>4 DEF ClaimRepeats, session, HandleStep
  <2>7. CallStep
    BY <2>2, <2>3, <2>4 DEF CallStep, TypeOK
  <2> QED
    BY <2>5, <2>6, <2>7
<1>5. ASSUME NEW c \in Calls, ClaimRefused(c)
      PROVE  SideType' /\ HandleStep /\ CallStep
  <2>1. call[c].session \in Sessions
    BY <1>5, PendingIsRequest DEF ClaimRefused, Turn, Pending
  <2> QED
    BY <1>0, <1>5, <2>1, SettlingKeeps DEF ClaimRefused
<1>6. ASSUME NEW c \in Calls, ClaimReturns(c)
      PROVE  SideType' /\ HandleStep /\ CallStep
  <2> DEFINE r == call[c]
  <2>1. /\ r.session \in Sessions /\ r.ttl \in TTLs /\ r.token \in Tokens
        /\ r.stage = "operating"
    BY <1>6, PendingIsRequest DEF ClaimReturns, Pending
  <2>2. r.row \in Ids
    BY <2>1 DEF Owned
  <2>3. CASE r.session \in closing
    <3>1. /\ call' = [call EXCEPT ![c] = Refused]
          /\ UNCHANGED <<tokens, handle, last, stopped, now, closing>>
      BY <1>6, <2>3 DEF ClaimReturns
    <3>2. SideType' /\ HandleStep
      BY <3>1 DEF TypeOK, SideType, HandleStep
    <3>3. CallStep
      BY <3>1 DEF CallStep, TypeOK, Refused
    <3> QED
      BY <3>2, <3>3
  <2>4. CASE r.session \notin closing
    <3> DEFINE h == [handle EXCEPT ![r.row] = Armed(r.ttl)]
    <3>1. /\ call' = [call EXCEPT ![c] = Done] /\ Settled(r.session, h)
          /\ tokens' = [tokens EXCEPT ![r.session][<<r.project, r.key>>] = r.token]
          /\ UNCHANGED <<now, closing>>
      BY <1>6, <2>4 DEF ClaimReturns
    <3>2. /\ h \in [Ids -> Handles \cup {NoHandle}]
          /\ \A i \in Ids : i # r.row => h[i] = handle[i]
      BY <1>0, <2>1, <2>2, ArmedType
    <3>3. tokens' \in [Sessions -> [Projects \X Keys -> Tokens]]
      BY <1>0, <2>1, <3>1
    <3> HIDE DEF h
    <3>4. \A i \in Ids : h[i] # NoHandle => \/ handle[i] # NoHandle
                                            \/ call[c].stage = "operating" /\ call[c].row = i
      BY <2>1, <3>2
    <3> QED
      BY <2>1, <3>1, <3>2, <3>3, <3>4, SettlingKeeps
  <2> QED
    BY <2>3, <2>4
<1>7. ASSUME NEW c \in Calls, ReleaseRuns(c)
      PROVE  SideType' /\ HandleStep /\ CallStep
  <2> DEFINE r == call[c]
             h == [handle EXCEPT ![r.row] = NoHandle]
  <2>1. r.session \in Sessions
    BY <1>7, PendingIsRequest DEF ReleaseRuns, Turn, Pending
  <2>2. /\ h \in [Ids -> Handles \cup {NoHandle}]
        /\ \A i \in Ids : h[i] # NoHandle => handle[i] # NoHandle
    BY <1>0
  <2>3. UNCHANGED <<now, tokens, closing>>
    BY <1>7 DEF ReleaseRuns
  <2>4. \/ call' = [call EXCEPT ![c] = Done] /\ Settled(r.session, h)
        \/ call' = [call EXCEPT ![c] = Refused] /\ Settled(r.session, handle)
    BY <1>7 DEF ReleaseRuns
  <2> HIDE DEF h
  <2> QED
    BY <1>0, <2>1, <2>2, <2>3, <2>4, SettlingKeeps
<1>8. ASSUME NEW i \in Ids, RenewalTimer(i)
      PROVE  SideType' /\ HandleStep /\ CallStep
  <2>1. handle[i] # NoHandle /\ handle[i] \in Handles
    BY <1>8, <1>0 DEF RenewalTimer, NoHandle
  <2>2. res[i].owner \in Sessions /\ handle[i].ttl \in TTLs
    BY <2>1 DEF Owned, Handles
  <2>3. UNCHANGED <<now, call, tokens, last, closing>> /\ stopped' \subseteq Sessions
    BY <1>8, <2>2 DEF RenewalTimer, TypeOK
  <2>4. \E x \in Handles \cup {NoHandle} : handle' = [handle EXCEPT ![i] = x]
    <3>1. [handle[i] EXCEPT !.timer = "stopped"] \in Handles
      BY <2>1 DEF Handles
    <3>2. Armed(handle[i].ttl) \in Handles
      BY <2>2, ArmedType
    <3> QED
      BY <1>8, <3>1, <3>2 DEF RenewalTimer
  <2>5. SideType' /\ HandleStep
    BY <1>0, <2>1, <2>3, <2>4 DEF SideType, TypeOK, HandleStep
  <2>6. CallStep
    BY <2>3 DEF CallStep
  <2> QED
    BY <2>5, <2>6
<1>9. ASSUME NEW s \in Sessions, NEW i \in Ids, NEW t \in TTLs, NEW g \in BOOLEAN,
             RenewCall(s, i, t, g)
      PROVE  SideType' /\ HandleStep /\ CallStep
  <2>1. handle[i] # NoHandle /\ handle[i].ttl \in TTLs
    BY <1>9, <1>0 DEF RenewCall, Handles
  <2>2. last' \in [Sessions -> Nat] /\ stopped' \subseteq Sessions
    BY <1>9, ActiveType DEF RenewCall
  <2>3. UNCHANGED <<now, call, tokens, closing>>
    BY <1>9 DEF RenewCall
  <2>4. \/ handle' = Woken(handle, s)
        \/ \E x \in Handles : handle' = [Woken(handle, s) EXCEPT ![i] = x]
    <3>1. Armed(t) \in Handles /\ Armed(handle[i].ttl) \in Handles
      BY <2>1, ArmedType
    <3> QED
      BY <1>9, <3>1 DEF RenewCall
  <2>5. /\ handle' \in [Ids -> Handles \cup {NoHandle}]
        /\ \A j \in Ids : handle'[j] # NoHandle => handle[j] # NoHandle
    <3> DEFINE woken == Woken(handle, s)
    <3>1. /\ woken \in [Ids -> Handles \cup {NoHandle}]
          /\ \A j \in Ids : woken[j] # NoHandle => handle[j] # NoHandle
      BY <1>0, WokenType
    <3>2. \/ handle' = woken
          \/ \E x \in Handles : handle' = [woken EXCEPT ![i] = x]
      BY <2>4
    <3> HIDE DEF woken
    <3> QED
      BY <2>1, <3>1, <3>2
  <2>6. CallStep
    BY <2>3 DEF CallStep
  <2> QED
    BY <2>2, <2>3, <2>5, <2>6 DEF SideType, TypeOK, HandleStep
<1>10. ASSUME NEW s \in Sessions, OtherCall(s)
       PROVE  SideType' /\ HandleStep /\ CallStep
  <2>1. SideType' /\ HandleStep
    BY <1>0, <1>10, ActiveType, WokenType DEF OtherCall, SideType, TypeOK, HandleStep
  <2>2. CallStep
    BY <1>10 DEF OtherCall, CallStep
  <2> QED
    BY <2>1, <2>2
<1>11. ASSUME NEW s \in Sessions, SessionCloses(s)
       PROVE  SideType' /\ HandleStep /\ CallStep
  <2>1. tokens' \in [Sessions -> [Projects \X Keys -> Tokens]]
    BY <1>0, <1>11 DEF SessionCloses, Tokens
  <2>2. SideType' /\ HandleStep
    BY <1>11, <2>1, DroppedType DEF SessionCloses, SideType, TypeOK, HandleStep
  <2>3. CallStep
    BY <1>11 DEF SessionCloses, CallStep
  <2> QED
    BY <2>2, <2>3
<1>12. CASE Restart
  <2>1. tokens' \in [Sessions -> [Projects \X Keys -> Tokens]]
    BY <1>12 DEF Restart, Tokens
  <2>2. SideType' /\ HandleStep
    BY <1>12, <2>1, DroppedType DEF Restart, SideType, TypeOK, HandleStep
  <2>3. CallStep
    BY <1>12 DEF Restart, CallStep, Pending, Refused
  <2> QED
    BY <2>2, <2>3
<1>13. CASE \/ \E p \in Projects, w \in Worktrees : HumanReserves(p, w)
            \/ \E p \in Projects, force \in BOOLEAN : HumanReleases(p, force)
            \/ \E p \in Projects : Reader(p)
            \/ Tick \/ UNCHANGED vars
  <2>1. /\ UNCHANGED <<call, tokens, handle, last, stopped, closing>>
        /\ now' \in Nat
    <3> USE DEF vars, session, TypeOK
    <3>1. CASE \E p \in Projects, w \in Worktrees : HumanReserves(p, w)
      BY <3>1 DEF HumanReserves
    <3>2. CASE \E p \in Projects, force \in BOOLEAN : HumanReleases(p, force)
      BY <3>2 DEF HumanReleases
    <3>3. CASE \/ \E p \in Projects : Reader(p)
               \/ Tick \/ UNCHANGED vars
      BY <3>3 DEF Reader, Tick
    <3> QED
      BY <1>13, <3>1, <3>2, <3>3
  <2> QED
    BY <2>1 DEF SideType, TypeOK, HandleStep, CallStep
<1> QED
  BY <1>1, <1>2, <1>3, <1>4, <1>5, <1>6, <1>7, <1>8, <1>9, <1>10, <1>11, <1>12,
     <1>13 DEF Next

-----------------------------------------------------------------------------
(* What an unreleased row was before the step. *)

SameRow(i) ==
  /\ Held(i)
  /\ res'[i].project = res[i].project /\ res'[i].owner = res[i].owner
  /\ res'[i].created = res[i].created /\ res'[i].expires = res[i].expires
RenewedRow(i) ==
  /\ Effective(i)
  /\ res'[i].project = res[i].project /\ res'[i].owner = res[i].owner
  /\ res'[i].created = res[i].created /\ res[i].owner \in Sessions
  /\ res'[i].expires <= now + DefaultTTL
  /\ \/ Allowed(res[i].owner) /\ last' = last
     \/ last' = [last EXCEPT ![res[i].owner] = now]
NewRow(i) ==
  /\ res[i] = Free /\ HeldOf(res'[i].project) = {}
  /\ res'[i].owner # Human => /\ res'[i].created = now
                              /\ res'[i].expires <= now + DefaultTTL
  /\ \A j \in Ids : j # i /\ Held(j)' => res'[j].project # res'[i].project

LEMMA RowOrigin ==
  ASSUME TypeOK, RowStep, NEW i \in Ids, Held(i)'
  PROVE  SameRow(i) \/ RenewedRow(i) \/ NewRow(i)
<1>1. CASE res' = res
  BY <1>1 DEF Held, SameRow
<1>2. ASSUME NEW p \in Projects, NEW j \in Ids, Expire(p)[j].status = "held"
      PROVE  /\ Held(j) /\ Expire(p)[j].project = res[j].project
             /\ Expire(p)[j].owner = res[j].owner /\ Expire(p)[j].created = res[j].created
             /\ Expire(p)[j].expires = res[j].expires
             /\ ~(res[j].project = p /\ Expired(j))
  <2>1. Held(j) /\ ~(res[j].project = p /\ Expired(j))
    BY <1>2, ExpireKeeps
  <2>2. res[j] # Free
    BY <2>1, HeldIsRow
  <2> QED
    BY <2>1, <2>2, ExpireKeeps
<1>3. ASSUME NEW p \in Projects, res' = Expire(p)
      PROVE  SameRow(i)
  BY <1>2, <1>3 DEF Held, SameRow
<1>4. ASSUME NEW p \in Projects, NEW row \in Rows, Inserts(p, row)
      PROVE  SameRow(i) \/ NewRow(i)
  <2>1. /\ NewId \in Ids /\ res[NewId] = Free
        /\ res'[NewId] = row
        /\ \A j \in Ids : j # NewId => res'[j] = Expire(p)[j]
    BY <1>4, InsertedRows DEF Inserts
  <2>2. CASE i # NewId
    <3>1. res'[i] = Expire(p)[i] /\ Expire(p)[i].status = "held"
      BY <2>1, <2>2 DEF Held
    <3> QED
      BY <1>2, <3>1 DEF SameRow
  <2>3. CASE i = NewId
    <3>1. ASSUME NEW j \in Ids, j # i, Held(j)'
          PROVE  res'[j].project # p
      <4>1. res'[j] = Expire(p)[j] /\ Expire(p)[j].status = "held"
        BY <2>1, <2>3, <3>1 DEF Held
      <4>2. /\ Held(j) /\ res'[j].project = res[j].project
            /\ ~(res[j].project = p /\ Expired(j))
        BY <1>2, <4>1
      <4>3. j \notin HeldOf(p)
        BY <1>4 DEF Inserts
      <4> QED
        BY <4>2, <4>3 DEF HeldOf, Effective
    <3>2. /\ row.project = p /\ HeldOf(p) = {}
          /\ row.owner # Human => row.created = now /\ row.expires <= now + DefaultTTL
      BY <1>4 DEF Inserts
    <3> QED
      BY <2>1, <2>3, <3>1, <3>2 DEF NewRow
  <2> QED
    BY <2>2, <2>3
<1>5. ASSUME NEW k \in Ids, NEW ttl \in TTLs, res[k].owner \in Sessions, Renews(k, ttl)
      PROVE  SameRow(i) \/ RenewedRow(i)
  <2> DEFINE e == RenewedExpiry(k, ttl)
  <2>1. /\ res[k] \in Rows /\ e \in Nat /\ e <= now + ttl
        /\ res'[k] = [res[k] EXCEPT !.expires = e]
        /\ \A j \in Ids : j # k => res'[j] = res[j]
    BY <1>5, RenewedRows DEF Renews
  <2>2. e <= now + DefaultTTL
    <3>1. ttl \in Nat /\ DefaultTTL \in Nat /\ ttl <= DefaultTTL /\ now \in Nat
      BY TTLBounds DEF TypeOK
    <3> HIDE DEF e
    <3> QED
      BY <2>1, <3>1
  <2> HIDE DEF e
  <2>3. CASE i = k
    <3>1. /\ res'[i].project = res[i].project /\ res'[i].owner = res[i].owner
          /\ res'[i].created = res[i].created /\ res'[i].expires = e
      BY <2>1, <2>3 DEF Rows
    <3>2. Effective(i)
      BY <1>5, <2>3 DEF Renews, Renewable
    <3> QED
      BY <1>5, <2>2, <2>3, <3>1, <3>2 DEF Renews, RenewedRow
  <2>4. CASE i # k
    BY <2>1, <2>4 DEF Held, SameRow
  <2> QED
    BY <2>3, <2>4
<1>6. ASSUME NEW p \in Projects, NEW k \in HeldOf(p),
             res' = [Expire(p) EXCEPT ![k].status = "released"]
      PROVE  SameRow(i)
  <2>1. /\ k \in Ids /\ res[k] # Free
        /\ res'[k] = [Expire(p)[k] EXCEPT !.status = "released"]
        /\ \A j \in Ids : j # k => res'[j] = Expire(p)[j]
    BY <1>6, ReleasedRows
  <2>2. i # k
    <3>1. Expire(p)[k] \in Rows
      BY <2>1, ExpireKeeps
    <3>2. res'[k].status = "released"
      BY <2>1, <3>1 DEF Rows
    <3> QED
      BY <3>2 DEF Held
  <2>3. res'[i] = Expire(p)[i] /\ Expire(p)[i].status = "held"
    BY <2>1, <2>2 DEF Held
  <2> QED
    BY <1>2, <2>3 DEF SameRow
<1> QED
  BY <1>1, <1>3, <1>4, <1>5, <1>6 DEF RowStep

-----------------------------------------------------------------------------
(* Time and activity. *)

LastPast == \A s \in Sessions : last[s] <= now

\* Time does not go back, and only a call of the session stamps it.
Forward ==
  /\ now <= now'
  /\ \A s \in Sessions : last'[s] = last[s] \/ (last'[s] = now /\ now' = now)

LEMMA NextIsForward == TypeOK /\ [Next]_vars => Forward
<1> SUFFICES ASSUME TypeOK, [Next]_vars
             PROVE  Forward
  OBVIOUS
<1> USE DEF TypeOK, session, Forward
<1>0. now' = now /\ (last' = last \/ \E s \in Sessions : last' = [last EXCEPT ![s] = now])
      => Forward
  OBVIOUS
<1>1. CASE \/ \E c \in Calls, s \in Sessions, p \in Projects, w \in Worktrees,
                k \in Keys, t \in TTLs : ClaimArrives(c, s, p, w, k, t)
           \/ \E c \in Calls, s \in Sessions, i \in Ids : ReleaseArrives(c, s, i)
           \/ \E s \in Sessions, i \in Ids, t \in TTLs, g \in BOOLEAN : RenewCall(s, i, t, g)
           \/ \E s \in Sessions : OtherCall(s)
  BY <1>0, <1>1 DEF ClaimArrives, ReleaseArrives, RenewCall, OtherCall, Active
<1>2. ASSUME NEW c \in Calls, Pending(c), NEW h, Settled(call[c].session, h), now' = now
      PROVE  Forward
  <2>1. call[c].session \in Sessions
    BY <1>2, PendingIsRequest
  <2> QED
    BY <1>0, <1>2, <2>1 DEF Settled, Active
<1>3. ASSUME NEW c \in Calls,
             ClaimAcquires(c) \/ ClaimRepeats(c) \/ ClaimRefused(c) \/ ReleaseRuns(c)
      PROVE  Forward
  BY <1>0, <1>2, <1>3
     DEF ClaimAcquires, ClaimRepeats, ClaimRefused, ReleaseRuns, Turn, Pending
<1>4. ASSUME NEW c \in Calls, ClaimReturns(c)
      PROVE  Forward
  BY <1>0, <1>2, <1>4 DEF ClaimReturns, Pending
<1>5. CASE \/ \E i \in Ids : RenewalTimer(i)
           \/ \E s \in Sessions : SessionCloses(s)
           \/ \E p \in Projects, w \in Worktrees : HumanReserves(p, w)
           \/ \E p \in Projects : Reader(p)
           \/ \E p \in Projects, force \in BOOLEAN : HumanReleases(p, force)
           \/ Restart \/ UNCHANGED vars
  BY <1>0, <1>5 DEF RenewalTimer, SessionCloses, HumanReserves, Reader, HumanReleases,
                    Restart, vars
<1>6. CASE Tick
  BY <1>6 DEF Tick
<1> QED
  BY <1>1, <1>3, <1>4, <1>5, <1>6 DEF Next

-----------------------------------------------------------------------------
(* The inductive invariant.  Types need Owned: a renewal reads the owner of    *)
(* the row its claims entry names.  LapsesAfterSilence needs LastPast: a call  *)
(* stamps the present, which is no earlier than the stamp it replaces.        *)

IInv == TypeOK /\ Owned /\ OneReservation /\ LastPast /\ LapsesAfterSilence

LEMMA InitIInv == Init => IInv
<1> SUFFICES ASSUME Init PROVE IInv
  OBVIOUS
<1>1. TypeOK
  BY DEF Init, TypeOK, Tokens
<1>2. Owned
  BY DEF Init, Owned, NoCall
<1>3. OneReservation /\ LapsesAfterSilence
  BY DEF Init, OneReservation, LapsesAfterSilence, Held, Free
<1>4. LastPast
  BY DEF Init, LastPast
<1> QED
  BY <1>1, <1>2, <1>3, <1>4 DEF IInv

LEMMA OwnedStep ==
  ASSUME TypeOK, Owned, RowStep, HandleStep, CallStep
  PROVE  Owned'
<1>1. ASSUME NEW i \in Ids, handle'[i] # NoHandle
      PROVE  res'[i] # Free /\ res'[i].owner \in Sessions
  <2>1. res[i] # Free /\ res[i].owner \in Sessions
    <3>1. CASE handle[i] # NoHandle
      BY <3>1 DEF Owned
    <3>2. CASE \E c \in Calls : call[c].stage = "operating" /\ call[c].row = i
      BY <3>2, PendingIsRequest DEF Owned, Pending
    <3> QED
      BY <1>1, <3>1, <3>2 DEF HandleStep
  <2> QED
    BY <2>1, RowsKept
<1>2. ASSUME NEW c \in Calls, call'[c].stage = "operating"
      PROVE  /\ call'[c].row \in Ids /\ res'[call'[c].row] # Free
             /\ res'[call'[c].row].owner = call'[c].session
  <2>1. CASE call[c].stage = "operating" /\ call'[c] = call[c]
    BY <2>1, RowsKept DEF Owned
  <2> QED
    BY <1>2, <2>1 DEF CallStep
<1> QED
  BY <1>1, <1>2 DEF Owned

LEMMA OneReservationStep ==
  ASSUME TypeOK, RowStep, OneReservation
  PROVE  OneReservation'
<1> SUFFICES ASSUME NEW i \in Ids, NEW j \in Ids, Held(i)', Held(j)',
                    res'[i].project = res'[j].project
             PROVE  i = j
  BY DEF OneReservation
<1>1. CASE NewRow(i) \/ NewRow(j)
  BY <1>1 DEF NewRow
<1>2. CASE ~NewRow(i) /\ ~NewRow(j)
  <2>1. /\ SameRow(i) \/ RenewedRow(i)
        /\ SameRow(j) \/ RenewedRow(j)
    BY <1>2, RowOrigin
  <2>2. /\ Held(i) /\ Held(j) /\ res[i].project = res[j].project
    BY <2>1 DEF SameRow, RenewedRow, Effective
  <2> QED
    BY <2>2 DEF OneReservation
<1> QED
  BY <1>1, <1>2

LEMMA LapsesStep ==
  ASSUME TypeOK, TypeOK', RowStep, Forward, LastPast, LapsesAfterSilence
  PROVE  LastPast' /\ LapsesAfterSilence'
<1>0. /\ now \in Nat /\ now' \in Nat /\ IdleLimit \in Nat /\ DefaultTTL \in Nat
      /\ 0 < IdleLimit
      /\ \A s \in Sessions : last[s] \in Nat /\ last'[s] \in Nat
  BY TTLBounds DEF TypeOK
<1>1. LastPast'
  BY <1>0 DEF LastPast, Forward
<1>2. ASSUME NEW i \in Ids, Held(i)', res'[i].owner # Human
      PROVE  \E from \in {res'[i].created, last'[res'[i].owner]} :
               res'[i].expires <= from + IdleLimit + DefaultTTL
  <2>1. /\ res'[i] \in Rows /\ res'[i].created \in Nat /\ res'[i].expires \in Nat
        /\ res'[i].owner \in Sessions
    <3>1. res'[i] \in Rows
      BY <1>2 DEF TypeOK, Held, Free
    <3> QED
      BY <1>2, <3>1 DEF Rows, Owners
  <2> DEFINE s == res'[i].owner
  <2>2. CASE SameRow(i)
    <3>1. PICK from \in {res[i].created, last[s]} :
            res[i].expires <= from + IdleLimit + DefaultTTL
      BY <1>2, <2>2 DEF SameRow, LapsesAfterSilence
    <3>2. last[s] <= last'[s]
      BY <1>0, <2>1 DEF LastPast, Forward
    <3>3. CASE from = res[i].created
      BY <2>2, <3>1, <3>3 DEF SameRow
    <3>4. CASE from = last[s]
      <4>1. res'[i].expires <= last'[s] + IdleLimit + DefaultTTL
        BY <1>0, <2>1, <2>2, <3>1, <3>2, <3>4 DEF SameRow
      <4> QED
        BY <4>1
    <3> QED
      BY <3>1, <3>3, <3>4
  <2>3. CASE RenewedRow(i)
    <3>1. s \in Sessions /\ s = res[i].owner /\ res'[i].expires <= now + DefaultTTL
      BY <2>1, <2>3 DEF RenewedRow
    <3>2. now <= last'[s] + IdleLimit
      <4>1. CASE Allowed(s) /\ last' = last
        BY <1>0, <3>1, <4>1 DEF Allowed
      <4>2. CASE last' = [last EXCEPT ![s] = now]
        <5>1. last'[s] = now
          BY <3>1, <4>2 DEF TypeOK
        <5> QED
          BY <1>0, <5>1
      <4> QED
        BY <2>3, <3>1, <4>1, <4>2 DEF RenewedRow
    <3>3. res'[i].expires <= last'[s] + IdleLimit + DefaultTTL
      BY <1>0, <2>1, <3>1, <3>2
    <3> QED
      BY <3>3
  <2>4. CASE NewRow(i)
    <3>1. res'[i].created = now /\ res'[i].expires <= now + DefaultTTL
      BY <1>2, <2>4 DEF NewRow
    <3>2. res'[i].expires <= res'[i].created + IdleLimit + DefaultTTL
      BY <1>0, <2>1, <3>1
    <3> QED
      BY <3>2
  <2> QED
    BY <1>2, <2>2, <2>3, <2>4, RowOrigin
<1> QED
  BY <1>1, <1>2 DEF LapsesAfterSilence

LEMMA StepIInv == IInv /\ [Next]_vars => IInv'
<1> SUFFICES ASSUME IInv, [Next]_vars PROVE IInv'
  OBVIOUS
<1>0. TypeOK /\ Owned /\ OneReservation /\ LastPast /\ LapsesAfterSilence
  BY DEF IInv
<1>1. RowStep
  BY <1>0, NextIsRowStep
<1>2. SideType' /\ HandleStep /\ CallStep
  BY <1>0, NextKeepsSide
<1>3. Forward
  BY <1>0, NextIsForward
<1>4. TypeOK'
  BY <1>0, <1>1, <1>2, RowsKept DEF TypeOK, SideType
<1>5. Owned'
  BY <1>0, <1>1, <1>2, OwnedStep
<1>6. OneReservation'
  BY <1>0, <1>1, OneReservationStep
<1>7. LastPast' /\ LapsesAfterSilence'
  BY <1>0, <1>1, <1>3, <1>4, LapsesStep
<1> QED
  BY <1>4, <1>5, <1>6, <1>7 DEF IInv

LEMMA Invariance == Spec => []IInv
BY InitIInv, StepIInv, PTL DEF Spec

-----------------------------------------------------------------------------
(* The theorems. *)

\* Types, and a lease that ends within its maximum lifetime
\* (renewAgentReservation's Math.min, sqlite-state-store.ts:1059).
THEOREM ClaimTypes == Spec => []TypeOK
<1>1. IInv => TypeOK
  BY DEF IInv
<1> QED
  BY <1>1, Invariance, PTL

\* A project never has two unreleased rows, so the unique index of the
\* reservations never refuses an insert.
THEOREM Exclusive == Spec => []OneReservation
<1>1. IInv => OneReservation
  BY DEF IInv
<1> QED
  BY <1>1, Invariance, PTL

\* A lease lapses within the idle limit and one TTL of its owner's last call,
\* whatever calls, timers and restarts happen meanwhile.
THEOREM LeasesLapse == Spec => []LapsesAfterSilence
<1>1. IInv => LapsesAfterSilence
  BY DEF IInv
<1> QED
  BY <1>1, Invariance, PTL

LEMMA NotRevived ==
  ASSUME TypeOK, TypeOK', RowStep, Forward, NEW i \in Ids, res[i] # Free, ~Effective(i)
  PROVE  ~Effective(i)'
<1> SUFFICES ASSUME Effective(i)' PROVE FALSE
  OBVIOUS
<1>1. Held(i)'
  BY DEF Effective
<1>2. SameRow(i)
  BY <1>1, RowOrigin DEF RenewedRow, NewRow
<1>3. Expired(i)
  BY <1>2 DEF Effective, SameRow
<1>4. res[i] \in Rows /\ res[i].expires \in Nat /\ now \in Nat /\ now' \in Nat
  BY RowFields DEF TypeOK
<1>5. Expired(i)'
  BY <1>2, <1>3, <1>4 DEF Expired, SameRow, Forward
<1> QED
  BY <1>5 DEF Effective

\* A lease that expired or was released is not in force again, by a renewal
\* that comes late or a claim repeated under its key.
THEOREM NoRevival == Spec => NeverRevived
<1>1. IInv /\ IInv' /\ [Next]_vars =>
        [\A i \in Ids : res[i] # Free /\ ~Effective(i) => ~Effective(i)']_vars
  BY NextIsRowStep, NextIsForward, NotRevived DEF IInv
<1> QED
  BY <1>1, Invariance, PTL DEF Spec, NeverRevived

\* No step puts a reservation of a project in force while another one is.
THEOREM NoDisplacement == Spec => NeverDisplaced
<1>1. ASSUME IInv, IInv', [Next]_vars, NEW i \in Ids, NEW j \in Ids,
             Effective(i), ~Effective(j), Effective(j)'
      PROVE  res[i].project # res'[j].project
  <2>1. RowStep /\ Forward /\ TypeOK /\ TypeOK'
    BY <1>1, NextIsRowStep, NextIsForward DEF IInv
  <2>2. res[j] = Free
    BY <1>1, <2>1, NotRevived
  <2>3. Held(j)'
    BY <1>1 DEF Effective
  <2>4. NewRow(j)
    BY <2>1, <2>2, <2>3, RowOrigin, HeldIsRow DEF SameRow, RenewedRow, Effective
  <2> QED
    BY <1>1, <2>4 DEF NewRow, HeldOf
<1>2. IInv /\ IInv' /\ [Next]_vars =>
        [\A i, j \in Ids : /\ Effective(i)
                           /\ ~Effective(j) /\ Effective(j)'
                           => res[i].project # res'[j].project]_vars
  BY <1>1
<1> QED
  BY <1>2, Invariance, PTL DEF Spec, NeverDisplaced
-----------------------------------------------------------------------------
(* The lease of a client that stays active.  A timer armed at a call is due     *)
(* within its delay of it; one armed by a renewal has a lease that outlives it  *)
(* by the rest of the TTL; one that found its client idle was due after the     *)
(* client's last call and one delay, when the idle limit is longer than every   *)
(* delay, as the limit of 15 minutes and the cap of 10 minutes are.            *)

RenewsBeforeIdle == \A t \in TTLs : Delay(t) < IdleLimit

Renewing ==
  \A i \in Ids : Held(i) /\ handle[i] # NoHandle =>
    LET s == res[i].owner
        h == handle[i] IN
    /\ h.timer = "armed" =>
         /\ now <= h.due
         /\ \/ h.due <= last[s] + Delay(h.ttl)
            \/ res[i].expires + Delay(h.ttl) >= h.due + h.ttl
            \/ res[i].expires = res[i].maximum
    /\ h.timer = "stopped" =>
         /\ s \in stopped
         /\ \/ res[i].expires >= last[s] + h.ttl
            \/ res[i].expires = res[i].maximum

\* What a step does to a claims entry that it leaves in place, and to its lease.
KeptRow(i) ==
  /\ Held(i) /\ res'[i].owner = res[i].owner
  /\ res'[i].expires = res[i].expires /\ res'[i].maximum = res[i].maximum
Untouched(i) ==
  /\ handle'[i] = handle[i] /\ last'[res[i].owner] = last[res[i].owner]
  /\ res[i].owner \in stopped => res[i].owner \in stopped'
  /\ \/ now' = now
     \/ now' = now + 1 /\ (handle[i].timer = "armed" => now < handle[i].due)
Called(i) ==
  /\ now' = now /\ last'[res[i].owner] = now
  /\ handle[i] # NoHandle /\ handle'[i].timer = "armed"
  /\ handle'[i].ttl = handle[i].ttl
  /\ \/ handle'[i].due = now
     \/ handle[i].timer = "armed" /\ handle'[i].due = handle[i].due
ArmedAtCall(i) ==
  /\ now' = now /\ last'[res[i].owner] = now /\ res'[i].owner = res[i].owner
  /\ \E t \in TTLs : handle'[i] = Armed(t)
TimerStops(i) ==
  /\ now' = now /\ last' = last /\ ~Allowed(res[i].owner) /\ res[i].owner \in stopped'
  /\ handle[i].timer = "armed" /\ handle[i].due <= now
  /\ handle'[i].timer = "stopped" /\ handle'[i].ttl = handle[i].ttl
TimerRenews(i) ==
  /\ now' = now /\ Renewable(i) /\ handle[i] # NoHandle
  /\ handle'[i] = Armed(handle[i].ttl) /\ res'[i].owner = res[i].owner
  /\ res'[i].expires = RenewedExpiry(i, handle[i].ttl)
  /\ res'[i].maximum = res[i].maximum

EntryStep(i) ==
  \/ KeptRow(i) /\ (Untouched(i) \/ Called(i) \/ TimerStops(i))
  \/ ArmedAtCall(i) \/ TimerRenews(i)

LEMMA ExpiredRowIsKept ==
  ASSUME TypeOK, NEW p \in Projects, NEW i \in Ids, res'[i] = Expire(p)[i], Held(i)'
  PROVE  KeptRow(i)
<1>1. Held(i) /\ res[i] # Free
  BY ExpireKeeps, HeldIsRow DEF Held
<1> QED
  BY <1>1, ExpireKeeps DEF KeptRow

LEMMA OtherRowsAreKept ==
  ASSUME TypeOK, NEW i \in Ids, res[i] # Free, Held(i)',
         \/ res' = res
         \/ \E p \in Projects : res' = Expire(p)
         \/ \E p \in Projects, row \in Rows : CanInsert /\ res' = Inserted(p, row)
         \/ \E p \in Projects : \E k \in HeldOf(p) :
              res' = [Expire(p) EXCEPT ![k].status = "released"]
  PROVE  KeptRow(i)
<1>1. CASE res' = res
  BY <1>1 DEF Held, KeptRow
<1>2. ASSUME NEW p \in Projects, res' = Expire(p)
      PROVE  KeptRow(i)
  BY <1>2, ExpiredRowIsKept
<1>3. ASSUME NEW p \in Projects, NEW row \in Rows, CanInsert, res' = Inserted(p, row)
      PROVE  KeptRow(i)
  <2>1. res'[i] = Expire(p)[i]
    BY <1>3, InsertedRows
  <2> QED
    BY <2>1, ExpiredRowIsKept
<1>4. ASSUME NEW p \in Projects, NEW k \in HeldOf(p),
             res' = [Expire(p) EXCEPT ![k].status = "released"]
      PROVE  KeptRow(i)
  <2>1. /\ k \in Ids /\ res[k] # Free
        /\ res'[k] = [Expire(p)[k] EXCEPT !.status = "released"]
        /\ \A j \in Ids : j # k => res'[j] = Expire(p)[j]
    BY <1>4, ReleasedRows
  <2>2. i # k
    <3>1. Expire(p)[k] \in Rows
      BY <2>1, ExpireKeeps
    <3>2. res'[k].status = "released"
      BY <2>1, <3>1 DEF Rows
    <3> QED
      BY <3>2 DEF Held
  <2> QED
    BY <2>1, <2>2, ExpiredRowIsKept
<1> QED
  BY <1>1, <1>2, <1>3, <1>4

\* A call of session s wakes the claims entries of s and no other.
LEMMA CallWakes ==
  ASSUME TypeOK, NEW i \in Ids, res[i] # Free, res[i].owner \in Sessions,
         handle[i] # NoHandle, handle[i].timer = "stopped" => res[i].owner \in stopped,
         NEW s \in Sessions, NEW h, h[i] = handle[i],
         handle'[i] = Woken(h, s)[i], Active(s), now' = now
  PROVE  Untouched(i) \/ Called(i)
<1>1. handle[i] \in Handles
  BY DEF TypeOK
<1>2. handle[i].timer \in {"armed", "stopped"}
  BY <1>1 DEF Handles
<1>3. handle'[i] = IF s \in stopped /\ res[i].owner = s /\ handle[i].timer = "stopped"
                   THEN [handle[i] EXCEPT !.timer = "armed", !.due = now] ELSE handle[i]
  BY DEF Woken
<1>4. CASE res[i].owner = s
  <2>1. last'[s] = now
    BY DEF Active, TypeOK
  <2>2. CASE handle[i].timer = "stopped"
    <3>1. handle'[i] = [handle[i] EXCEPT !.timer = "armed", !.due = now]
      BY <1>3, <1>4, <2>2
    <3>2. /\ handle'[i].timer = "armed" /\ handle'[i].due = now
          /\ handle'[i].ttl = handle[i].ttl
      BY <1>1, <3>1 DEF Handles
    <3> QED
      BY <1>4, <2>1, <3>2 DEF Called
  <2>3. CASE handle[i].timer = "armed"
    BY <1>3, <1>4, <2>1, <2>3 DEF Called
  <2> QED
    BY <1>2, <2>2, <2>3
<1>5. CASE res[i].owner # s
  BY <1>3, <1>5 DEF Active, Untouched, TypeOK
<1> QED
  BY <1>4, <1>5

LEMMA SettlingWakes ==
  ASSUME TypeOK, NEW i \in Ids, res[i] # Free, res[i].owner \in Sessions,
         handle[i] # NoHandle, handle[i].timer = "stopped" => res[i].owner \in stopped,
         NEW s \in Sessions, NEW h, h[i] = handle[i], Settled(s, h), now' = now
  PROVE  Untouched(i) \/ Called(i)
<1>1. CASE s \in closing
  BY <1>1 DEF Settled, Untouched
<1>2. CASE s \notin closing
  BY <1>2, CallWakes DEF Settled
<1> QED
  BY <1>1, <1>2

LEMMA NextRenews ==
  ASSUME TypeOK, Owned, Renewing, [Next]_vars,
         NEW i \in Ids, Held(i)', handle'[i] # NoHandle
  PROVE  EntryStep(i)
<1> USE DEF EntryStep
<1>0. /\ res[i] # Free /\ res[i].owner \in Sessions
      /\ handle \in [Ids -> Handles \cup {NoHandle}]
  <2>1. \/ handle[i] # NoHandle
        \/ \E c \in Calls : call[c].stage = "operating" /\ call[c].row = i
    BY NextKeepsSide DEF HandleStep
  <2>2. ASSUME NEW c \in Calls, call[c].stage = "operating", call[c].row = i
        PROVE  res[i] # Free /\ res[i].owner \in Sessions
    <3>1. call[c].session \in Sessions
      BY <2>2, PendingIsRequest DEF Pending
    <3> QED
      BY <2>2, <3>1 DEF Owned
  <2> QED
    BY <2>1, <2>2 DEF Owned, TypeOK
<1>a. /\ RowStep /\ res'[i].owner = res[i].owner
  BY <1>0, NextIsRowStep, RowsKept
<1>b. KeptRow(i) /\ handle[i] # NoHandle =>
        (handle[i].timer = "stopped" => res[i].owner \in stopped)
  BY DEF Renewing, KeptRow
<1>c. ASSUME NEW s \in Sessions, NEW h, h[i] = handle[i], Settled(s, h), now' = now,
             KeptRow(i), handle[i] # NoHandle
      PROVE  EntryStep(i)
  BY <1>0, <1>b, <1>c, SettlingWakes
<1>d. ASSUME NEW s \in Sessions, handle'[i] = Woken(handle, s)[i], Active(s), now' = now,
             KeptRow(i)
      PROVE  EntryStep(i)
  <2>1. handle[i] # NoHandle
    BY <1>0, <1>d, WokenType
  <2> QED
    BY <1>0, <1>b, <1>d, <2>1, CallWakes
<1>e. res' = res => KeptRow(i)
  BY <1>0, OtherRowsAreKept
<1>1. ASSUME NEW c \in Calls, NEW s \in Sessions, NEW p \in Projects,
             NEW w \in Worktrees, NEW k \in Keys, NEW t \in TTLs,
             ClaimArrives(c, s, p, w, k, t)
      PROVE  EntryStep(i)
  BY <1>1, <1>d, <1>e DEF ClaimArrives
<1>2. ASSUME NEW c \in Calls, NEW s \in Sessions, NEW j \in Ids, ReleaseArrives(c, s, j)
      PROVE  EntryStep(i)
  BY <1>2, <1>d, <1>e DEF ReleaseArrives
<1>3. ASSUME UNCHANGED session, now' = now, KeptRow(i)
      PROVE  EntryStep(i)
  BY <1>3 DEF session, Untouched
<1>4. ASSUME NEW c \in Calls, ClaimAcquires(c)
      PROVE  EntryStep(i)
  <2> DEFINE r == call[c]
             row == [status |-> "held", project |-> r.project, worktree |-> r.worktree,
                     owner |-> r.session, key |-> r.key, token |-> r.token,
                     created |-> now, expires |-> now + r.ttl, maximum |-> now + MaxLife]
  <2>1. /\ r.session \in Sessions /\ r.project \in Projects /\ r.worktree \in Worktrees
        /\ r.key \in Keys \cup {Human} /\ r.ttl \in TTLs /\ r.token \in Tokens
    BY <1>4, PendingIsRequest DEF ClaimAcquires, Turn, Pending
  <2>2. now \in Nat /\ now + r.ttl \in Nat /\ now + MaxLife \in Nat
    <3>1. now \in Nat /\ r.ttl \in Nat /\ MaxLife \in Nat
      BY <2>1, TTLBounds DEF TypeOK
    <3> QED
      BY <3>1
  <2>3. row \in Rows
    BY <2>1, <2>2 DEF Rows, Owners
  <2>4. CanInsert /\ res' = Inserted(r.project, row)
    BY <1>4 DEF ClaimAcquires
  <2> HIDE DEF row
  <2>5. KeptRow(i)
    BY <1>0, <2>1, <2>3, <2>4, OtherRowsAreKept
  <2> QED
    BY <1>3, <1>4, <2>5 DEF ClaimAcquires
<1>5. ASSUME NEW c \in Calls, ClaimRepeats(c)
      PROVE  EntryStep(i)
  <2>1. call[c].project \in Projects
    BY <1>5, PendingIsRequest DEF ClaimRepeats, Turn, Pending
  <2>2. KeptRow(i)
    BY <1>0, <1>5, <2>1, OtherRowsAreKept DEF ClaimRepeats
  <2> QED
    BY <1>3, <1>5, <2>2 DEF ClaimRepeats
<1>6. ASSUME NEW c \in Calls, ClaimRefused(c)
      PROVE  EntryStep(i)
  <2>1. call[c].session \in Sessions
    BY <1>6, PendingIsRequest DEF ClaimRefused, Turn, Pending
  <2>2. Settled(call[c].session, handle) /\ now' = now /\ KeptRow(i)
    BY <1>6, <1>e DEF ClaimRefused
  <2>3. handle[i] # NoHandle
    BY <1>0, <2>1, <2>2, SettledType
  <2> QED
    BY <1>c, <2>1, <2>2, <2>3
<1>7. ASSUME NEW c \in Calls, ClaimReturns(c)
      PROVE  EntryStep(i)
  <2> DEFINE r == call[c]
  <2>1. r.session \in Sessions /\ r.ttl \in TTLs /\ r.row \in Ids
    BY <1>7, PendingIsRequest DEF ClaimReturns, Pending, Owned
  <2>2. KeptRow(i) /\ now' = now
    BY <1>7, <1>e DEF ClaimReturns
  <2>3. CASE r.session \in closing
    BY <1>7, <2>2, <2>3 DEF ClaimReturns, Untouched
  <2>4. CASE r.session \notin closing
    <3> DEFINE h == [handle EXCEPT ![r.row] = Armed(r.ttl)]
    <3>1. Settled(r.session, h)
      BY <1>7, <2>4 DEF ClaimReturns
    <3>2. /\ h \in [Ids -> Handles \cup {NoHandle}]
          /\ h[r.row] = Armed(r.ttl)
          /\ \A j \in Ids : j # r.row => h[j] = handle[j]
      BY <1>0, <2>1, ArmedType
    <3> HIDE DEF h
    <3>3. CASE i = r.row
      <4>1. res[i].owner = r.session
        BY <1>7, <3>3 DEF ClaimReturns, Owned
      <4>2. handle' = Woken(h, r.session) /\ Active(r.session)
        BY <2>4, <3>1 DEF Settled
      <4>3. handle'[i] = Armed(r.ttl)
        <5>1. h[i].timer = "armed" /\ h[i] = Armed(r.ttl)
          BY <3>2, <3>3 DEF Armed
        <5>2. Woken(h, r.session)[i] = h[i]
          BY <5>1 DEF Woken
        <5> QED
          BY <4>2, <5>1, <5>2
      <4>4. last'[res[i].owner] = now
        BY <2>1, <4>1, <4>2 DEF Active, TypeOK
      <4> QED
        BY <1>a, <2>1, <2>2, <4>3, <4>4 DEF ArmedAtCall
    <3>4. CASE i # r.row
      <4>1. handle[i] # NoHandle
        BY <2>1, <3>1, <3>2, <3>4, SettledType
      <4> QED
        BY <1>c, <2>1, <2>2, <3>1, <3>2, <3>4, <4>1
    <3> QED
      BY <3>3, <3>4
  <2> QED
    BY <2>3, <2>4
<1>8. ASSUME NEW c \in Calls, ReleaseRuns(c)
      PROVE  EntryStep(i)
  <2> DEFINE r == call[c]
             h == [handle EXCEPT ![r.row] = NoHandle]
  <2>1. r.session \in Sessions /\ r.project \in Projects
    BY <1>8, PendingIsRequest DEF ReleaseRuns, Turn, Pending
  <2>2. KeptRow(i) /\ now' = now
    BY <1>0, <1>8, <2>1, OtherRowsAreKept DEF ReleaseRuns
  <2>3. /\ h \in [Ids -> Handles \cup {NoHandle}]
        /\ \A j \in Ids : h[j] # NoHandle => h[j] = handle[j]
    BY <1>0
  <2>4. Settled(r.session, h) \/ Settled(r.session, handle)
    BY <1>8 DEF ReleaseRuns
  <2> HIDE DEF h
  <2>5. CASE Settled(r.session, h)
    <3>1. h[i] # NoHandle
      BY <2>1, <2>3, <2>5, SettledType
    <3> QED
      BY <1>c, <2>1, <2>2, <2>3, <2>5, <3>1
  <2>6. CASE Settled(r.session, handle)
    <3>1. handle[i] # NoHandle
      BY <1>0, <2>1, <2>6, SettledType
    <3> QED
      BY <1>c, <2>1, <2>2, <2>6, <3>1
  <2> QED
    BY <2>4, <2>5, <2>6
<1>9. ASSUME NEW j \in Ids, RenewalTimer(j)
      PROVE  EntryStep(i)
  <2> DEFINE s == res[j].owner
  <2>1. /\ handle[j].timer = "armed" /\ handle[j].due <= now
        /\ handle[j] # NoHandle /\ handle[j] \in Handles /\ now' = now /\ last' = last
    BY <1>0, <1>9 DEF RenewalTimer, NoHandle
  <2>2. CASE i # j
    <3>1. handle'[i] = handle[i] /\ stopped \subseteq stopped'
      BY <1>0, <1>9, <2>2 DEF RenewalTimer
    <3>2. KeptRow(i)
      <4>1. CASE res' = res
        BY <1>e, <4>1
      <4>2. CASE res' # res
        <5>1. Renewable(j) /\ res' = Renewed(j, handle[j].ttl) /\ handle[j].ttl \in TTLs
          BY <1>9, <2>1, <4>2 DEF RenewalTimer, Handles
        <5>2. res'[i] = res[i]
          BY <2>2, <5>1 DEF Renewed, TypeOK
        <5> QED
          BY <5>2 DEF KeptRow, Held
      <4> QED
        BY <4>1, <4>2
    <3> QED
      BY <2>1, <3>1, <3>2 DEF Untouched
  <2>3. CASE i = j /\ ~Allowed(s)
    <3>1. /\ handle' = [handle EXCEPT ![i].timer = "stopped"]
          /\ stopped' = stopped \cup {s} /\ res' = res
      BY <1>9, <2>3 DEF RenewalTimer
    <3>2. handle'[i] = [handle[i] EXCEPT !.timer = "stopped"]
      BY <1>0, <3>1
    <3>3. handle'[i].timer = "stopped" /\ handle'[i].ttl = handle[i].ttl
      BY <2>1, <2>3, <3>2 DEF Handles
    <3> QED
      BY <1>e, <2>1, <2>3, <3>1, <3>3 DEF TimerStops
  <2>4. CASE i = j /\ Allowed(s)
    <3>1. Renewable(i)
      <4>1. ASSUME ~Renewable(i) PROVE FALSE
        <5>1. handle' = [handle EXCEPT ![i] = NoHandle]
          BY <1>9, <2>4, <4>1 DEF RenewalTimer
        <5> QED
          BY <1>0, <5>1
      <4> QED
        BY <4>1
    <3>2. /\ res' = Renewed(i, handle[i].ttl)
          /\ handle' = [handle EXCEPT ![i] = Armed(@.ttl)]
      BY <1>9, <2>4, <3>1 DEF RenewalTimer
    <3>3. handle[i].ttl \in TTLs
      BY <2>1, <2>4 DEF Handles
    <3>4. handle'[i] = Armed(handle[i].ttl)
      BY <1>0, <3>2
    <3>5. /\ res[i] \in Rows
          /\ res'[i] = [res[i] EXCEPT !.expires = RenewedExpiry(i, handle[i].ttl)]
      BY <3>1, <3>2, <3>3, RenewedRows
    <3>6. /\ res'[i].expires = RenewedExpiry(i, handle[i].ttl)
          /\ res'[i].maximum = res[i].maximum
      BY <3>5 DEF Rows
    <3> QED
      BY <1>a, <2>1, <2>4, <3>1, <3>4, <3>6 DEF TimerRenews
  <2> QED
    BY <2>2, <2>3, <2>4
<1>10. ASSUME NEW s \in Sessions, NEW j \in Ids, NEW t \in TTLs, NEW g \in BOOLEAN,
              RenewCall(s, j, t, g)
       PROVE  EntryStep(i)
  <2>1. /\ handle[j] # NoHandle /\ handle[j].ttl \in TTLs /\ res[j].owner = s
        /\ Active(s) /\ now' = now
    BY <1>0, <1>10 DEF RenewCall, Handles
  <2>2. CASE ~Renewable(j)
    BY <1>10, <1>d, <1>e, <2>1, <2>2 DEF RenewCall
  <2>3. CASE Renewable(j)
    <3> DEFINE x == Armed(IF g THEN t ELSE handle[j].ttl)
               woken == Woken(handle, s)
    <3>1. res' = Renewed(j, t) /\ handle' = [woken EXCEPT ![j] = x]
      BY <1>10, <2>3 DEF RenewCall
    <3>2. woken \in [Ids -> Handles \cup {NoHandle}]
      BY <1>0, WokenType
    <3>3. \E u \in TTLs : x = Armed(u)
      BY <2>1
    <3> HIDE DEF x, woken
    <3>4. CASE i = j
      <4>1. handle'[i] = x
        BY <3>1, <3>2, <3>4
      <4>2. last'[res[i].owner] = now
        BY <2>1, <3>4 DEF Active, TypeOK
      <4> QED
        BY <1>a, <2>1, <3>3, <4>1, <4>2 DEF ArmedAtCall
    <3>5. CASE i # j
      <4>1. handle'[i] = Woken(handle, s)[i]
        BY <3>1, <3>2, <3>5 DEF woken
      <4>2. res'[i] = res[i]
        BY <3>1, <3>5 DEF Renewed, TypeOK
      <4>3. KeptRow(i)
        BY <4>2 DEF KeptRow, Held
      <4> QED
        BY <1>d, <2>1, <4>1, <4>3
    <3> QED
      BY <3>4, <3>5
  <2> QED
    BY <2>2, <2>3
<1>11. ASSUME NEW s \in Sessions, OtherCall(s)
       PROVE  EntryStep(i)
  BY <1>11, <1>d, <1>e DEF OtherCall
<1>12. ASSUME NEW S, handle' = Dropped(S), UNCHANGED <<now, res, last, stopped>>
       PROVE  EntryStep(i)
  <2>1. handle'[i] = handle[i]
    BY <1>12 DEF Dropped
  <2> QED
    BY <1>12, <1>e, <2>1 DEF Untouched
<1>13. ASSUME NEW s \in Sessions, SessionCloses(s)
       PROVE  EntryStep(i)
  BY <1>12, <1>13 DEF SessionCloses
<1>14. ASSUME NEW p \in Projects, NEW w \in Worktrees, HumanReserves(p, w)
       PROVE  EntryStep(i)
  <2> DEFINE row == [status |-> "held", project |-> p, worktree |-> w,
                     owner |-> Human, key |-> Human, token |-> 0, created |-> now,
                     expires |-> now, maximum |-> now]
  <2>1. row \in Rows
    BY DEF Rows, Owners, Tokens, TypeOK
  <2>2. CanInsert /\ res' = Inserted(p, row)
    BY <1>14 DEF HumanReserves
  <2> HIDE DEF row
  <2>3. KeptRow(i)
    BY <1>0, <2>1, <2>2, OtherRowsAreKept
  <2> QED
    BY <1>3, <1>14, <2>3 DEF HumanReserves
<1>15. ASSUME NEW p \in Projects, Reader(p) \/ \E force \in BOOLEAN : HumanReleases(p, force)
       PROVE  EntryStep(i)
  <2>1. UNCHANGED session /\ now' = now
    BY <1>15 DEF Reader, HumanReleases
  <2>2. \/ res' = Expire(p)
        \/ \E k \in HeldOf(p) : res' = [Expire(p) EXCEPT ![k].status = "released"]
    BY <1>15 DEF Reader, HumanReleases
  <2>3. KeptRow(i)
    BY <1>0, <2>2, OtherRowsAreKept
  <2> QED
    BY <1>3, <2>1, <2>3
<1>16. CASE Tick
  <2>1. /\ UNCHANGED <<handle, last, stopped>> /\ res' = res /\ now' = now + 1
        /\ handle[i].timer = "armed" => now < handle[i].due
    <3>1. handle[i].timer = "armed" => handle[i].due > now
      BY <1>16 DEF Tick
    <3>2. handle[i].timer = "armed" => handle[i].due \in Nat
      BY <1>0 DEF NoHandle, Handles
    <3> QED
      BY <1>16, <3>1, <3>2 DEF Tick, session, TypeOK
  <2> QED
    BY <1>e, <2>1 DEF Untouched
<1>17. CASE Restart
  BY <1>12, <1>17 DEF Restart
<1>18. CASE UNCHANGED vars
  BY <1>3, <1>18, <1>e DEF vars
<1> HIDE DEF EntryStep
<1>19. ASSUME NEW c \in Calls,
              \/ \E s \in Sessions, p \in Projects, w \in Worktrees, k \in Keys, t \in TTLs :
                   ClaimArrives(c, s, p, w, k, t)
              \/ \E s \in Sessions, j \in Ids : ReleaseArrives(c, s, j)
              \/ ClaimAcquires(c) \/ ClaimRepeats(c) \/ ClaimRefused(c)
              \/ ClaimReturns(c) \/ ReleaseRuns(c)
       PROVE  EntryStep(i)
  BY <1>1, <1>2, <1>4, <1>5, <1>6, <1>7, <1>8, <1>19
<1>20. CASE Next
  BY <1>9, <1>10, <1>11, <1>13, <1>14, <1>15, <1>16, <1>17, <1>19, <1>20 DEF Next
<1> QED
  BY <1>18, <1>20

LEMMA DelayFacts ==
  ASSUME NEW t \in TTLs
  PROVE  t \in Nat /\ Delay(t) \in Nat
<1>1. t \in Nat /\ t \div 3 \in Nat
  BY TTLBounds
<1> QED
  BY <1>1 DEF Delay

LEMMA RenewingStep ==
  ASSUME RenewsBeforeIdle, TypeOK, TypeOK', Owned, LastPast, Renewing, [Next]_vars
  PROVE  Renewing'
<1> DEFINE armed(n, l, h, row) ==
             /\ n <= h.due
             /\ \/ h.due <= l + Delay(h.ttl)
                \/ row.expires + Delay(h.ttl) >= h.due + h.ttl
                \/ row.expires = row.maximum
           idle(l, h, row) == \/ row.expires >= l + h.ttl
                              \/ row.expires = row.maximum
<1> SUFFICES ASSUME NEW i \in Ids, Held(i)', handle'[i] # NoHandle
             PROVE  /\ handle'[i].timer = "armed" =>
                         armed(now', last'[res'[i].owner], handle'[i], res'[i])
                    /\ handle'[i].timer = "stopped" =>
                         /\ res'[i].owner \in stopped'
                         /\ idle(last'[res'[i].owner], handle'[i], res'[i])
  BY DEF Renewing
<1>1. EntryStep(i)
  BY NextRenews
<1>2. PICK s : s = res[i].owner
  OBVIOUS
<1>3. res'[i].owner = s
  BY <1>1, <1>2 DEF EntryStep, KeptRow, ArmedAtCall, TimerRenews
<1>4. PICK n : n = now
  OBVIOUS
<1>5. n \in Nat
  BY <1>4 DEF TypeOK
<1>6. CASE ArmedAtCall(i)
  <2>1. PICK t \in TTLs : handle'[i] = Armed(t)
    BY <1>6 DEF ArmedAtCall
  <2>2. PICK d : d = Delay(t)
    OBVIOUS
  <2>3. d \in Nat
    BY <2>2, DelayFacts
  <2>4. /\ handle'[i].timer = "armed" /\ handle'[i].due = n + d /\ handle'[i].ttl = t
        /\ now' = n /\ last'[s] = n
    BY <1>2, <1>4, <1>6, <2>1, <2>2 DEF Armed, ArmedAtCall
  <2>5. n <= n + d /\ n + d <= n + d
    BY <1>5, <2>3
  <2> QED
    BY <1>3, <2>2, <2>4, <2>5
<1>7. CASE ~ArmedAtCall(i)
  <2>1. handle[i] # NoHandle /\ Held(i)
    BY <1>1, <1>7 DEF EntryStep, KeptRow, Untouched, Called, TimerStops, TimerRenews,
                      Renewable, Effective, NoHandle
  <2>2. PICK h, row, l : h = handle[i] /\ row = res[i] /\ l = last[s]
    OBVIOUS
  <2>3. /\ h \in Handles /\ row \in Rows /\ s \in Sessions
        /\ h.ttl \in TTLs /\ h.due \in Nat
        /\ row.expires \in Nat /\ row.maximum \in Nat /\ l \in Nat /\ l <= n
    <3>1. h \in Handles /\ row \in Rows /\ s \in Sessions
      BY <1>2, <2>1, <2>2, HeldIsRow DEF TypeOK, Owned
    <3> QED
      BY <1>4, <2>2, <3>1 DEF Handles, Rows, TypeOK, LastPast
  <2>4. /\ h.timer = "armed" => armed(n, l, h, row)
        /\ h.timer = "stopped" => s \in stopped /\ idle(l, h, row)
    BY <1>2, <1>4, <2>1, <2>2 DEF Renewing
  <2>5. PICK d : d = Delay(h.ttl)
    OBVIOUS
  <2>6. d \in Nat /\ h.ttl \in Nat /\ d < IdleLimit /\ IdleLimit \in Nat
    BY <2>3, <2>5, DelayFacts DEF RenewsBeforeIdle
  <2>7. KeptRow(i) => res'[i].expires = row.expires /\ res'[i].maximum = row.maximum
    BY <2>2 DEF KeptRow
  <2>8. CASE KeptRow(i) /\ Untouched(i)
    <3>1. /\ handle'[i] = h /\ last'[s] = l
          /\ s \in stopped => s \in stopped'
          /\ now' = n \/ (now' = n + 1 /\ (h.timer = "armed" => n < h.due))
      BY <1>2, <1>4, <2>2, <2>8 DEF Untouched
    <3>2. h.timer = "armed" => now' <= h.due
      BY <1>5, <2>3, <2>4, <3>1
    <3>3. h.timer = "armed" => armed(now', l, h, res'[i])
      BY <2>4, <2>7, <2>8, <3>2
    <3>4. h.timer = "stopped" => s \in stopped' /\ idle(l, h, res'[i])
      BY <2>4, <2>7, <2>8, <3>1
    <3> QED
      BY <1>3, <3>1, <3>3, <3>4
  <2>9. CASE KeptRow(i) /\ Called(i)
    <3>1. PICK g : g = handle'[i]
      OBVIOUS
    <3>2. /\ now' = n /\ last'[s] = n
          /\ g.timer = "armed" /\ g.ttl = h.ttl
          /\ g.due = n \/ (h.timer = "armed" /\ g.due = h.due)
      BY <1>2, <1>4, <2>2, <2>9, <3>1 DEF Called
    <3>3. n <= g.due
      BY <1>5, <2>4, <3>2
    <3>4. \/ g.due <= n + d
          \/ row.expires + d >= g.due + g.ttl
          \/ row.expires = row.maximum
      <4>1. CASE g.due = n
        BY <1>5, <2>6, <4>1
      <4>2. CASE h.timer = "armed" /\ g.due = h.due
        <5>1. h.due <= l + d => h.due <= n + d
          BY <1>5, <2>3, <2>6
        <5> QED
          BY <2>4, <2>5, <3>2, <4>2, <5>1
      <4> QED
        BY <3>2, <4>1, <4>2
    <3>5. armed(n, n, g, res'[i])
      BY <2>5, <2>7, <2>9, <3>2, <3>3, <3>4
    <3> QED
      BY <1>3, <3>1, <3>2, <3>5
  <2>10. CASE KeptRow(i) /\ TimerStops(i)
    <3>1. PICK g : g = handle'[i]
      OBVIOUS
    <3>2. /\ last' = last /\ s \in stopped' /\ g.timer = "stopped" /\ g.ttl = h.ttl
          /\ h.timer = "armed" /\ h.due <= n /\ ~(n - l < IdleLimit)
      BY <1>2, <1>4, <2>2, <2>10, <3>1 DEF TimerStops, Allowed
    <3>3. n <= h.due /\ \/ h.due <= l + d
                        \/ row.expires + d >= h.due + h.ttl
                        \/ row.expires = row.maximum
      BY <2>4, <2>5, <3>2
    <3>4. row.expires >= l + h.ttl \/ row.expires = row.maximum
      <4>1. PICK due, ttl, e : due = h.due /\ ttl = h.ttl /\ e = row.expires
        OBVIOUS
      <4>2. due \in Nat /\ ttl \in Nat /\ e \in Nat
        BY <2>3, <2>6, <4>1
      <4>3. due = n /\ ~(due <= l + d)
        BY <1>5, <2>3, <2>6, <3>2, <3>3, <4>1, <4>2
      <4>4. e + d >= n + ttl \/ row.expires = row.maximum
        BY <3>3, <4>1, <4>3
      <4>5. l + d < n
        BY <1>5, <2>3, <2>6, <4>2, <4>3
      <4>6. e + d >= n + ttl => e >= l + ttl
        BY <1>5, <2>3, <2>6, <4>2, <4>5
      <4> QED
        BY <4>1, <4>4, <4>6
    <3>5. idle(l, g, res'[i])
      BY <2>7, <2>10, <3>2, <3>4
    <3> QED
      BY <1>3, <2>2, <3>1, <3>2, <3>5
  <2>11. CASE TimerRenews(i)
    <3>1. PICK g : g = handle'[i]
      OBVIOUS
    <3>2. /\ now' = n /\ g.timer = "armed" /\ g.due = n + d /\ g.ttl = h.ttl
      BY <1>4, <2>2, <2>5, <2>11, <3>1 DEF TimerRenews, Armed
    <3>3. /\ res'[i].maximum = row.maximum
          /\ res'[i].expires = n + h.ttl \/ res'[i].expires = row.maximum
      BY <1>4, <2>2, <2>11 DEF TimerRenews, RenewedExpiry
    <3>4. n <= n + d /\ (n + h.ttl) + d >= (n + d) + h.ttl
      BY <1>5, <2>6
    <3>5. armed(n, last'[s], g, res'[i])
      BY <2>5, <3>2, <3>3, <3>4
    <3> QED
      BY <1>3, <3>1, <3>2, <3>5
  <2> QED
    BY <1>1, <1>7, <2>8, <2>9, <2>10, <2>11 DEF EntryStep
<1> QED
  BY <1>6, <1>7

\* An armed timer that is not yet due, of a client silent for one delay, was
\* armed by a renewal.
LEMMA RenewingKeeps == TypeOK /\ Owned /\ Renewing => KeptWhileActive
<1> SUFFICES ASSUME TypeOK, Owned, Renewing, NEW i \in Ids,
                    handle[i] # NoHandle, Held(i),
                    handle[i].timer = "armed" => handle[i].due > now,
                    now >= last[res[i].owner] + Delay(handle[i].ttl)
             PROVE  \/ res[i].expires >= last[res[i].owner] + handle[i].ttl
                    \/ res[i].expires = res[i].maximum
  BY DEF KeptWhileActive
<1>1. PICK s, h, row, l, d : /\ s = res[i].owner /\ h = handle[i] /\ row = res[i]
                             /\ l = last[s] /\ d = Delay(h.ttl)
  OBVIOUS
<1>2. /\ h \in Handles /\ row \in Rows /\ s \in Sessions
  BY <1>1, HeldIsRow DEF TypeOK, Owned
<1>3. /\ h.ttl \in Nat /\ d \in Nat /\ h.due \in Nat /\ row.expires \in Nat
      /\ l \in Nat /\ now \in Nat /\ h.timer \in {"armed", "stopped"}
  BY <1>1, <1>2, DelayFacts DEF Handles, Rows, TypeOK
<1>4. CASE h.timer = "stopped"
  BY <1>1, <1>4 DEF Renewing
<1>5. CASE h.timer = "armed"
  <2>1. \/ h.due <= l + d
        \/ row.expires + d >= h.due + h.ttl
        \/ row.expires = row.maximum
    BY <1>1, <1>5 DEF Renewing
  <2>2. h.due > now /\ now >= l + d
    BY <1>1, <1>5
  <2>3. row.expires + d >= h.due + h.ttl => row.expires >= l + h.ttl
    BY <1>3, <2>2
  <2>4. ~(h.due <= l + d)
    BY <1>3, <2>2
  <2> QED
    BY <1>1, <2>1, <2>3, <2>4
<1> QED
  BY <1>3, <1>4, <1>5

\* "Some renewal tick always falls within 10 minutes of the last call, so the
\* lease runs for at least 30 minutes after it"
\* (docs/reservations-and-mcp.md:327): with an idle limit longer than every
\* delay between renewals, a lease never ends before its client's last call plus
\* the TTL, but for the end of its lifetime.
THEOREM ActiveClientsKeepLeases ==
  ASSUME RenewsBeforeIdle
  PROVE  Spec => []KeptWhileActive
<1>1. Init => Renewing
  BY DEF Init, Renewing, NoHandle
<1>2. IInv /\ IInv' /\ Renewing /\ [Next]_vars => Renewing'
  BY RenewingStep DEF IInv
<1>3. IInv /\ Renewing => KeptWhileActive
  BY RenewingKeeps DEF IInv
<1> QED
  BY <1>1, <1>2, <1>3, Invariance, PTL DEF Spec
=============================================================================
