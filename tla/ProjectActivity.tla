-------------------------- MODULE ProjectActivity --------------------------
(***************************************************************************)
(* core/worker_project_activity.py: the activity lease of ONE project, as  *)
(* the file watcher and the indexing worker use it, next to the exclusive  *)
(* lock of core/project_exclusive_lock.py.                                 *)
(*                                                                         *)
(* Each call reads the clock first and runs its one SQL statement later,   *)
(* with the reading as a parameter.  Times are kept relative to the clock: *)
(* row.left is lease_until - now, age the time since a call's reading, and *)
(* Tick moves them all.  So "lease_until < ?" is row.left < -age.          *)
(***************************************************************************)
EXTENDS Integers

CONSTANTS Owner, None,
          Phased,     \* owners that acquire again before each phase: watchers
          TTL,        \* ttl_seconds of each owner
          MaxDelay,   \* ticks a statement can be under way (RPC, pool, locks)
          MaxCrashes, \* deaths of a worker
          MaxFaults   \* failing database calls

Row == [owner : Owner, left : Int]

ASSUME OwnersAreNotNone == None \notin Owner \cup Row /\ Phased \subseteq Owner
ASSUME TTLIsPositive == TTL \in [Owner -> Nat \ {0}]
ASSUME DelayIsNat == MaxDelay \in Nat
ASSUME BoundsAreNat == MaxCrashes \in Nat /\ MaxFaults \in Nat

VARIABLES
  row,       \* the row of project_activity_locks, or None
  excl,      \* a row of project_exclusive_locks exists
  pc,        \* the statement each owner executes
  age,       \* how long ago the running call read the clock
  working,   \* inside the try block that a successful acquire opens
  promised,  \* (history) what is left of the lease the owner was last given
  crashes, faults

vars == <<row, excl, pc, age, working, promised, crashes, faults>>

Steps == {"idle", "read", "upsert", "work", "beat", "release", "dead"}

Floor == -(MaxDelay + 1)   \* an expired lease is just that: all it can be compared to is -age
Past(left) == IF left > Floor THEN left - 1 ELSE Floor

TypeOK ==
  /\ row = None \/ (row \in Row /\ row.left >= Floor)
  /\ excl \in BOOLEAN
  /\ pc \in [Owner -> Steps]
  /\ age \in [Owner -> 0..MaxDelay]
  /\ working \in [Owner -> BOOLEAN]
  /\ promised \in [Owner -> Int]
  /\ crashes \in 0..MaxCrashes /\ faults \in 0..MaxFaults
  /\ \A o \in Owner : /\ pc[o] \in {"work", "beat", "release"} => working[o]
                      /\ pc[o] \in {"idle", "dead"} => ~working[o]

Init ==
  /\ row = None
  /\ excl = FALSE
  /\ pc = [o \in Owner |-> "idle"]
  /\ age = [o \in Owner |-> 0]
  /\ working = [o \in Owner |-> FALSE]
  /\ promised = [o \in Owner |-> Floor]
  /\ crashes = 0 /\ faults = 0

-----------------------------------------------------------------------------
Goto(o, step) == pc' = [pc EXCEPT ![o] = step]

(* The WHERE clauses of _RELEASE_SQL, _ACQUIRE_SQL and _HEARTBEAT_SQL: the  *)
(* row is o's; no row, or a lease that ended before o read the clock, or   *)
(* o's own; o's own and not ended by then.                                 *)
Mine(o) == row # None /\ row.owner = o
CanTake(o) == row = None \/ row.left < -age[o] \/ Mine(o)
CanRenew(o) == Mine(o) /\ row.left >= -age[o]

(* The lease o writes, counted from its reading of the clock. *)
Lease(o) == [owner |-> o, left |-> TTL[o] - age[o]]

Given(o) ==
  /\ row' = Lease(o)
  /\ promised' = [promised EXCEPT ![o] = TTL[o] - age[o]]

(* try_acquire_project_activity returns False: the worker skips the        *)
(* project, or, inside the try block, goes to its finally clause.          *)
Refused(o) == Goto(o, IF working[o] THEN "release" ELSE "idle")

(* A cycle of a worker reaches the project, or a watcher's next phase. *)
TryAcquire(o) ==
  /\ \/ pc[o] = "idle"
     \/ pc[o] = "work" /\ o \in Phased
  /\ Goto(o, "read")
  /\ UNCHANGED <<row, excl, age, working, promised, crashes, faults>>

(* A plausible slip: the exclusive lock is not looked at. *)
SeeLockedIgnored(o) ==
  /\ pc[o] = "read"
  /\ excl
  /\ Goto(o, "upsert")
  /\ age' = [age EXCEPT ![o] = 0]
  /\ UNCHANGED <<row, excl, working, promised, crashes, faults>>

(* is_project_exclusively_locked, then time.time().  The read fails open. *)
SeeLocked(o) ==
  /\ pc[o] = "read"
  /\ excl
  /\ Refused(o)
  /\ UNCHANGED <<row, excl, age, working, promised, crashes, faults>>

SeeUnlocked(o) ==
  /\ pc[o] = "read"
  /\ \/ ~excl /\ UNCHANGED faults
     \/ excl /\ faults < MaxFaults /\ faults' = faults + 1
  /\ Goto(o, "upsert")
  /\ age' = [age EXCEPT ![o] = 0]
  /\ UNCHANGED <<row, excl, working, promised, crashes>>

(* Plausible slips: the expiry compared with the new lease_until; an       *)
(* expired row of another owner not taken over.                            *)
UpsertWrongBound(o) ==
  /\ pc[o] = "upsert"
  /\ IF row = None \/ row.left < TTL[o] - age[o] \/ Mine(o)
     THEN /\ Given(o)
          /\ Goto(o, "work")
          /\ working' = [working EXCEPT ![o] = TRUE]
     ELSE /\ Refused(o)
          /\ UNCHANGED <<row, working, promised>>
  /\ UNCHANGED <<excl, age, crashes, faults>>

UpsertNoTakeover(o) ==
  /\ pc[o] = "upsert"
  /\ IF row = None \/ Mine(o)
     THEN /\ Given(o)
          /\ Goto(o, "work")
          /\ working' = [working EXCEPT ![o] = TRUE]
     ELSE /\ Refused(o)
          /\ UNCHANGED <<row, working, promised>>
  /\ UNCHANGED <<excl, age, crashes, faults>>

(* _ACQUIRE_SQL: insert, or update an expired or own row *)
Upsert(o) ==
  /\ pc[o] = "upsert"
  /\ IF CanTake(o)
     THEN /\ Given(o)
          /\ Goto(o, "work")
          /\ working' = [working EXCEPT ![o] = TRUE]
     ELSE /\ Refused(o)
          /\ UNCHANGED <<row, working, promised>>
  /\ UNCHANGED <<excl, age, crashes, faults>>

(* heartbeat_project_activity: time.time(), then _HEARTBEAT_SQL.  Its      *)
(* result is ignored by every caller: the work goes on either way.         *)
ReadClock(o) ==
  /\ pc[o] = "work"
  /\ Goto(o, "beat")
  /\ age' = [age EXCEPT ![o] = 0]
  /\ UNCHANGED <<row, excl, working, promised, crashes, faults>>

Heartbeat(o) ==
  /\ pc[o] = "beat"
  /\ Goto(o, "work")
  /\ IF CanRenew(o) THEN Given(o) ELSE UNCHANGED <<row, promised>>
  /\ UNCHANGED <<excl, age, working, crashes, faults>>

(* A call raises: its statement was not executed, or it was and the answer *)
(* is lost.                                                                *)
CallFails(o) ==
  /\ pc[o] \in {"upsert", "beat"}
  /\ faults < MaxFaults /\ faults' = faults + 1
  /\ Refused(o)
  /\ IF (pc[o] = "upsert" /\ CanTake(o)) \/ (pc[o] = "beat" /\ CanRenew(o))
     THEN row' \in {row, Lease(o)}
     ELSE UNCHANGED row
  /\ UNCHANGED <<excl, age, working, promised, crashes>>

EndWork(o) ==
  /\ pc[o] = "work"
  /\ Goto(o, "release")
  /\ UNCHANGED <<row, excl, age, working, promised, crashes, faults>>

(* A plausible slip: the row is deleted whoever owns it. *)
ReleaseAnyRow(o) ==
  /\ pc[o] = "release"
  /\ Goto(o, "idle")
  /\ working' = [working EXCEPT ![o] = FALSE]
  /\ row' = None
  /\ UNCHANGED <<excl, age, promised, crashes, faults>>

(* _RELEASE_SQL in the finally clause; when it raises, the row stays *)
Release(o) ==
  /\ pc[o] = "release"
  /\ Goto(o, "idle")
  /\ working' = [working EXCEPT ![o] = FALSE]
  /\ \/ row' = (IF Mine(o) THEN None ELSE row) /\ UNCHANGED faults
     \/ faults < MaxFaults /\ faults' = faults + 1 /\ UNCHANGED row
  /\ UNCHANGED <<excl, age, promised, crashes>>

(* A worker dies.  Its successor has a new owner id. *)
Crash(o) ==
  /\ crashes < MaxCrashes
  /\ pc[o] # "dead"
  /\ crashes' = crashes + 1
  /\ Goto(o, "dead")
  /\ working' = [working EXCEPT ![o] = FALSE]
  /\ UNCHANGED <<row, excl, age, promised, faults>>

(* rename_project and emergency_unlock_project, seen from the workers *)
LockProject == ~excl /\ excl' = TRUE
UnlockProject == excl /\ excl' = FALSE

Exclusive ==
  /\ LockProject \/ UnlockProject
  /\ UNCHANGED <<row, pc, age, working, promised, crashes, faults>>

(* No statement is under way for longer than MaxDelay. *)
Pending == {o \in Owner : pc[o] \in {"upsert", "beat"}}

Tick ==
  /\ \A o \in Pending : age[o] < MaxDelay
  /\ age' = [o \in Owner |-> IF o \in Pending THEN age[o] + 1 ELSE age[o]]
  /\ row' = IF row = None THEN None ELSE [row EXCEPT !.left = Past(row.left)]
  /\ promised' = [o \in Owner |-> Past(promised[o])]
  /\ UNCHANGED <<excl, pc, working, crashes, faults>>

-----------------------------------------------------------------------------
Step(o) ==
  \/ TryAcquire(o) \/ SeeLocked(o) \/ SeeUnlocked(o) \/ Upsert(o)
  \/ ReadClock(o) \/ Heartbeat(o) \/ CallFails(o)
  \/ EndWork(o) \/ Release(o)

Next == \/ \E o \in Owner : Step(o) \/ Crash(o)
        \/ Exclusive \/ Tick

Spec == Init /\ [][Next]_vars

(* The clock runs, a worker that is alive polls its projects and works     *)
(* through its batch; a batch ends, however often the lease is renewed.    *)
FairSpec == /\ Spec
            /\ WF_vars(Tick)
            /\ \A o \in Owner : WF_vars(Step(o)) /\ SF_vars(EndWork(o))

-----------------------------------------------------------------------------
(* What an owner may rely on: it works, and the lease it was last given    *)
(* has not run out by its own account.                                     *)
Holds(o) == working[o] /\ promised[o] >= 0

(* Two owners never rely on a lease of the project at the same time: not   *)
(* when calls are late, not when a heartbeat meets a takeover, not when an *)
(* owner releases a lease it lost (the three statements' WHERE clauses).   *)
ValidLeasesExclude ==
  \A o, q \in Owner : Holds(o) /\ Holds(q) => o = q

(* The table seen as an abstract lease: an expired row is no holder. *)
LeaseHolder == IF row # None /\ row.left >= 0 THEN row.owner ELSE None
Abstract == INSTANCE Lease WITH holder <- LeaseHolder

(* The project goes from one owner to the next only through expiry or      *)
(* release, however late the statements arrive.                            *)
ImplementsLease == Abstract!Spec

(* The lease of a dead worker does not block the project for good: some    *)
(* live worker takes it, unless an administrator locks the project or no   *)
(* worker is left.                                                         *)
DeadOwnersLeaseIsTaken ==
  (row # None /\ pc[row.owner] = "dead")
     ~> (row = None \/ pc[row.owner] # "dead" \/ excl
           \/ \A o \in Owner : pc[o] = "dead")

(* While the exclusive lock stays, the workers leave the project: the ones *)
(* inside finish, nobody new gets in (try_acquire_project_activity refuses *)
(* a locked project).  The lock does not wait for them.                    *)
LockedProjectDrains ==
  excl ~> (~excl \/ \A o \in Owner : ~working[o])
=============================================================================
