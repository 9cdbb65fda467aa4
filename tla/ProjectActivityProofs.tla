----------------------- MODULE ProjectActivityProofs -----------------------
(***************************************************************************)
(* Proofs about ProjectActivity, for any set of owners, any lease times    *)
(* and any delay of the statements.                                        *)
(***************************************************************************)
EXTENDS ProjectActivity, TLAPS

USE OwnersAreNotNone, TTLIsPositive, DelayIsNat, BoundsAreNat DEF Row

-----------------------------------------------------------------------------
(* Every variable keeps its type, and an owner outside its try block has   *)
(* given the project up.                                                   *)
THEOREM TypeCorrect == Spec => []TypeOK
<1>1. Init => TypeOK
  <2>1. Floor \in Int
    BY DEF Floor
  <2>2. 0 \in 0..MaxDelay /\ 0 \in 0..MaxCrashes /\ 0 \in 0..MaxFaults
    OBVIOUS
  <2> SUFFICES ASSUME Init PROVE TypeOK
    OBVIOUS
  <2>3. "idle" \in Steps
    BY DEF Steps
  <2>4. /\ pc \in [Owner -> Steps] /\ age \in [Owner -> 0..MaxDelay]
        /\ working \in [Owner -> BOOLEAN] /\ promised \in [Owner -> Int]
    BY <2>1, <2>2, <2>3 DEF Init
  <2>5. \A o \in Owner : pc[o] = "idle" /\ ~working[o]
    BY DEF Init
  <2> QED
    BY <2>2, <2>4, <2>5 DEF Init, TypeOK
<1>2. TypeOK /\ [Next]_vars => TypeOK'
  <2> SUFFICES ASSUME TypeOK, [Next]_vars PROVE TypeOK'
    OBVIOUS
  <2> USE DEF TypeOK, Steps, Goto, Floor
  <2>1. ASSUME NEW o \in Owner, TryAcquire(o) PROVE TypeOK'
    BY <2>1 DEF TryAcquire
  <2>2. ASSUME NEW o \in Owner, SeeLocked(o) PROVE TypeOK'
    BY <2>2 DEF SeeLocked, Refused
  <2>3. ASSUME NEW o \in Owner, SeeUnlocked(o) PROVE TypeOK'
    BY <2>3 DEF SeeUnlocked
  <2>4. ASSUME NEW o \in Owner, Upsert(o) PROVE TypeOK'
    <3>1. TTL[o] - age[o] \in Int /\ TTL[o] - age[o] >= Floor
      OBVIOUS
    <3>2. CASE CanTake(o)
      <4>1. row' \in Row /\ row'.left >= Floor
        BY <2>4, <3>1, <3>2 DEF Upsert, Given, Lease
      <4>2. /\ pc' = [pc EXCEPT ![o] = "work"]
            /\ working' = [working EXCEPT ![o] = TRUE]
            /\ promised' \in [Owner -> Int]
            /\ UNCHANGED <<excl, age, crashes, faults>>
        BY <2>4, <3>1, <3>2 DEF Upsert, Given
      <4> QED
        BY <4>1, <4>2
    <3>3. CASE ~CanTake(o)
      BY <2>4, <3>3 DEF Upsert, Refused
    <3> QED
      BY <3>2, <3>3
  <2>5. ASSUME NEW o \in Owner, ReadClock(o) PROVE TypeOK'
    BY <2>5 DEF ReadClock
  <2>6. ASSUME NEW o \in Owner, Heartbeat(o) PROVE TypeOK'
    BY <2>6 DEF Heartbeat, Given, Lease
  <2>7. ASSUME NEW o \in Owner, CallFails(o) PROVE TypeOK'
    BY <2>7 DEF CallFails, Refused, Lease
  <2>8. ASSUME NEW o \in Owner, EndWork(o) PROVE TypeOK'
    BY <2>8 DEF EndWork
  <2>9. ASSUME NEW o \in Owner, Release(o) PROVE TypeOK'
    BY <2>9 DEF Release
  <2>10. ASSUME NEW o \in Owner, Crash(o) PROVE TypeOK'
    BY <2>10 DEF Crash
  <2>11. CASE Exclusive
    BY <2>11 DEF Exclusive, LockProject, UnlockProject
  <2>12. CASE Tick
    BY <2>12 DEF Tick, Past, Pending
  <2>13. CASE UNCHANGED vars
    BY <2>13 DEF vars
  <2> QED
    BY <2>1, <2>2, <2>3, <2>4, <2>5, <2>6, <2>7, <2>8, <2>9, <2>10,
       <2>11, <2>12, <2>13 DEF Next, Step
<1> QED
  BY <1>1, <1>2, PTL DEF Spec

-----------------------------------------------------------------------------
(* The inductive invariant.  What an owner relies on is in the table, and  *)
(* will be there for at least as long; a call under way can only renew the *)
(* lease, since it read the clock after the lease was given.               *)
Backed ==
  \A o \in Owner : Holds(o) => Mine(o) /\ row.left >= promised[o]

PromisesAreBounded ==
  \A o \in Owner :
    /\ promised[o] <= TTL[o]
    /\ pc[o] \in {"upsert", "beat"} => promised[o] <= TTL[o] - age[o]

IInv == TypeOK /\ Backed /\ PromisesAreBounded

(* The lease that o writes, whether o learns of it or not, takes nothing   *)
(* from anybody who may still rely on one.                                 *)
LEMMA TakingSparesHolders ==
  ASSUME IInv, NEW o \in Owner, CanTake(o), NEW q \in Owner, Holds(q)
  PROVE  q = o
<1>1. Mine(q) /\ row.left >= promised[q] /\ promised[q] >= 0
  BY DEF IInv, Backed, Holds
<1>2. -age[o] <= 0
  BY DEF IInv, TypeOK
<1>3. row.left \in Int /\ promised[q] \in Int /\ age[o] \in Int
  BY <1>1 DEF IInv, TypeOK, Mine
<1> QED
  BY <1>1, <1>2, <1>3 DEF CanTake, Mine

LEMMA PromisesStayBounded ==
  ASSUME IInv, [Next]_vars PROVE PromisesAreBounded'
<1> USE DEF IInv, TypeOK, PromisesAreBounded, Goto, Floor
<1>1. ASSUME NEW o \in Owner, TryAcquire(o) PROVE PromisesAreBounded'
  BY <1>1 DEF TryAcquire
<1>2. ASSUME NEW o \in Owner, SeeLocked(o) PROVE PromisesAreBounded'
  BY <1>2 DEF SeeLocked, Refused
<1>3. ASSUME NEW o \in Owner, SeeUnlocked(o) PROVE PromisesAreBounded'
  BY <1>3 DEF SeeUnlocked
<1>4. ASSUME NEW o \in Owner, Upsert(o) PROVE PromisesAreBounded'
  BY <1>4 DEF Upsert, Given, Refused
<1>5. ASSUME NEW o \in Owner, ReadClock(o) PROVE PromisesAreBounded'
  BY <1>5 DEF ReadClock
<1>6. ASSUME NEW o \in Owner, Heartbeat(o) PROVE PromisesAreBounded'
  BY <1>6 DEF Heartbeat, Given
<1>7. ASSUME NEW o \in Owner, CallFails(o) PROVE PromisesAreBounded'
  BY <1>7 DEF CallFails, Refused
<1>8. ASSUME NEW o \in Owner, EndWork(o) PROVE PromisesAreBounded'
  BY <1>8 DEF EndWork
<1>9. ASSUME NEW o \in Owner, Release(o) PROVE PromisesAreBounded'
  BY <1>9 DEF Release
<1>10. ASSUME NEW o \in Owner, Crash(o) PROVE PromisesAreBounded'
  BY <1>10 DEF Crash
<1>11. CASE Exclusive
  BY <1>11 DEF Exclusive
<1>12. CASE Tick
  BY <1>12 DEF Tick, Past, Pending
<1>13. CASE UNCHANGED vars
  BY <1>13 DEF vars
<1> QED
  BY <1>1, <1>2, <1>3, <1>4, <1>5, <1>6, <1>7, <1>8, <1>9, <1>10,
     <1>11, <1>12, <1>13 DEF Next, Step

LEMMA LeasesStayBacked ==
  ASSUME IInv, [Next]_vars PROVE Backed'
<1> SUFFICES ASSUME NEW q \in Owner, Holds(q)'
             PROVE  (Mine(q) /\ row.left >= promised[q])'
  BY DEF Backed
<1> USE DEF Holds, Goto
<1>type. TypeOK
  BY DEF IInv
<1>kept. ASSUME Holds(q), UNCHANGED <<row, promised>>
         PROVE  (Mine(q) /\ row.left >= promised[q])'
  BY <1>kept DEF IInv, Backed, Mine
<1>1. ASSUME NEW o \in Owner, TryAcquire(o) PROVE (Mine(q) /\ row.left >= promised[q])'
  BY <1>1, <1>kept DEF TryAcquire
<1>2. ASSUME NEW o \in Owner, SeeLocked(o) PROVE (Mine(q) /\ row.left >= promised[q])'
  BY <1>2, <1>kept DEF SeeLocked
<1>3. ASSUME NEW o \in Owner, SeeUnlocked(o) PROVE (Mine(q) /\ row.left >= promised[q])'
  BY <1>3, <1>kept DEF SeeUnlocked
<1>4. ASSUME NEW o \in Owner, Upsert(o) PROVE (Mine(q) /\ row.left >= promised[q])'
  <2>1. CASE CanTake(o)
    <3>1. q = o
      <4> SUFFICES ASSUME q # o PROVE FALSE
        OBVIOUS
      <4>1. Holds(q)
        BY <1>4, <1>type, <2>1 DEF Upsert, Given, TypeOK
      <4> QED
        BY <4>1, <2>1, TakingSparesHolders
    <3> QED
      BY <3>1, <1>4, <2>1, <1>type DEF Upsert, Given, Lease, Mine, TypeOK
  <2>2. CASE ~CanTake(o)
    BY <1>4, <2>2, <1>kept DEF Upsert
  <2> QED
    BY <2>1, <2>2
<1>5. ASSUME NEW o \in Owner, ReadClock(o) PROVE (Mine(q) /\ row.left >= promised[q])'
  BY <1>5, <1>kept DEF ReadClock
<1>6. ASSUME NEW o \in Owner, Heartbeat(o) PROVE (Mine(q) /\ row.left >= promised[q])'
  <2>1. CASE CanRenew(o)
    <3>1. q = o
      <4> SUFFICES ASSUME q # o PROVE FALSE
        OBVIOUS
      <4>1. Holds(q)
        BY <1>6, <1>type, <2>1 DEF Heartbeat, Given, TypeOK
      <4> QED
        BY <4>1, <2>1 DEF CanRenew, Mine, IInv, Backed
    <3> QED
      BY <3>1, <1>6, <2>1, <1>type DEF Heartbeat, Given, Lease, Mine, TypeOK
  <2>2. CASE ~CanRenew(o)
    BY <1>6, <2>2, <1>kept DEF Heartbeat
  <2> QED
    BY <2>1, <2>2
<1>7. ASSUME NEW o \in Owner, CallFails(o) PROVE (Mine(q) /\ row.left >= promised[q])'
  <2>1. Holds(q)
    BY <1>7 DEF CallFails
  <2>2. CASE UNCHANGED row
    BY <1>7, <2>1, <2>2, <1>kept DEF CallFails
  <2>3. CASE row' = Lease(o) /\ CanTake(o)
    <3>1. q = o
      BY <2>1, <2>3, TakingSparesHolders
    <3>2. promised[o] <= TTL[o] - age[o]
      BY <1>7 DEF CallFails, IInv, PromisesAreBounded
    <3> QED
      BY <3>1, <3>2, <2>3, <1>7, <1>type DEF CallFails, Lease, Mine, TypeOK
  <2> QED
    BY <1>7, <2>2, <2>3 DEF CallFails, CanRenew, CanTake
<1>8. ASSUME NEW o \in Owner, EndWork(o) PROVE (Mine(q) /\ row.left >= promised[q])'
  BY <1>8, <1>kept DEF EndWork
<1>9. ASSUME NEW o \in Owner, Release(o) PROVE (Mine(q) /\ row.left >= promised[q])'
  <2>1. Holds(q) /\ q # o
    BY <1>9, <1>type DEF Release, TypeOK
  <2>2. ~Mine(o)
    BY <2>1 DEF IInv, Backed, Mine
  <2> QED
    BY <1>9, <2>1, <2>2, <1>kept DEF Release
<1>10. ASSUME NEW o \in Owner, Crash(o) PROVE (Mine(q) /\ row.left >= promised[q])'
  BY <1>10, <1>type, <1>kept DEF Crash, TypeOK
<1>11. CASE Exclusive
  BY <1>11, <1>kept DEF Exclusive
<1>12. CASE Tick
  <2>1. promised[q] \in Int /\ promised'[q] = Past(promised[q]) /\ working[q]
    BY <1>12, <1>type DEF Tick, TypeOK
  <2>2. Holds(q)
    BY <2>1 DEF Past, Floor
  <2>3. Mine(q) /\ row.left >= promised[q]
    BY <2>2 DEF IInv, Backed
  <2>4. row \in Row
    BY <2>3, <1>type DEF TypeOK, Mine
  <2>5. row' = [row EXCEPT !.left = Past(row.left)]
    BY <1>12, <2>3 DEF Tick, Mine
  <2>6. Past(row.left) \in Int /\ Past(row.left) >= Past(promised[q])
    BY <2>1, <2>3, <2>4 DEF Past, Floor
  <2>7. row' \in Row /\ row'.owner = row.owner /\ row'.left = Past(row.left)
    BY <2>4, <2>5, <2>6
  <2> QED
    BY <2>1, <2>3, <2>6, <2>7 DEF Mine
<1>13. CASE UNCHANGED vars
  BY <1>13, <1>kept DEF vars
<1> QED
  BY <1>1, <1>2, <1>3, <1>4, <1>5, <1>6, <1>7, <1>8, <1>9, <1>10,
     <1>11, <1>12, <1>13 DEF Next, Step

LEMMA Inductive == Spec => []IInv
<1>1. Init /\ TypeOK => IInv
  <2>1. Floor < 0 /\ Floor \in Int
    BY DEF Floor
  <2> QED
    BY <2>1 DEF Init, IInv, Backed, PromisesAreBounded, Holds
<1>2. IInv /\ [Next]_vars /\ TypeOK' => IInv'
  BY PromisesStayBounded, LeasesStayBacked DEF IInv
<1> QED
  BY <1>1, <1>2, TypeCorrect, PTL DEF Spec

(* Two owners never rely on a lease of one project at the same time: the   *)
(* guarantee of try_acquire, heartbeat and release_project_activity.       *)
THEOREM LeasesExclude == Spec => []ValidLeasesExclude
<1>1. IInv => ValidLeasesExclude
  BY DEF IInv, Backed, ValidLeasesExclude, Mine
<1> QED
  BY <1>1, Inductive, PTL

-----------------------------------------------------------------------------
(* The table of activity locks implements the abstract lease: every step   *)
(* grants a lease nobody has, lets one lapse, or changes nothing.          *)
LEMMA HolderType == ASSUME TypeOK PROVE LeaseHolder \in Owner \cup {None}
  BY DEF TypeOK, LeaseHolder

LEMMA TakingGrants ==
  ASSUME TypeOK, NEW o \in Owner, CanTake(o), row' = Lease(o)
  PROVE  [Abstract!Next]_LeaseHolder
<1>1. LeaseHolder \in {o, None}
  BY DEF TypeOK, LeaseHolder, CanTake, Mine
<1>2. LeaseHolder' \in {o, None}
  BY DEF LeaseHolder, Lease
<1> QED
  BY <1>1, <1>2 DEF Abstract!Next, Abstract!Grant, Abstract!Lapse

THEOREM Implementation == Spec => ImplementsLease
<1>1. Init => Abstract!Init
  BY DEF Init, Abstract!Init, LeaseHolder
<1>2. TypeOK /\ [Next]_vars => [Abstract!Next]_LeaseHolder
  <2> SUFFICES ASSUME TypeOK, [Next]_vars PROVE [Abstract!Next]_LeaseHolder
    OBVIOUS
  <2>same. ASSUME UNCHANGED row PROVE [Abstract!Next]_LeaseHolder
    BY <2>same DEF LeaseHolder
  <2>1. ASSUME NEW o \in Owner, Step(o) PROVE [Abstract!Next]_LeaseHolder
    <3>1. CASE TryAcquire(o) \/ SeeLocked(o) \/ SeeUnlocked(o) \/ ReadClock(o) \/ EndWork(o)
      BY <3>1, <2>same DEF TryAcquire, SeeLocked, SeeUnlocked, ReadClock, EndWork
    <3>2. CASE Upsert(o)
      BY <3>2, <2>same, TakingGrants DEF Upsert, Given
    <3>3. CASE Heartbeat(o)
      BY <3>3, <2>same, TakingGrants DEF Heartbeat, Given, CanRenew, CanTake
    <3>4. CASE CallFails(o)
      BY <3>4, <2>same, TakingGrants DEF CallFails, CanRenew, CanTake
    <3>5. CASE Release(o)
      <4>1. CASE Mine(o) /\ row' = None
        <5>1. LeaseHolder \in {o, None} /\ LeaseHolder' = None
          BY <4>1 DEF LeaseHolder, Mine
        <5> QED
          BY <5>1 DEF Abstract!Next, Abstract!Lapse
      <4> QED
        BY <3>5, <4>1, <2>same DEF Release
    <3> QED
      BY <2>1, <3>1, <3>2, <3>3, <3>4, <3>5 DEF Step
  <2>2. ASSUME NEW o \in Owner, Crash(o) PROVE [Abstract!Next]_LeaseHolder
    BY <2>2, <2>same DEF Crash
  <2>3. CASE Exclusive
    BY <2>3, <2>same DEF Exclusive
  <2>4. CASE Tick
    <3>1. LeaseHolder' \in {LeaseHolder, None}
      <4>1. CASE row = None
        BY <2>4, <4>1 DEF Tick, LeaseHolder
      <4>2. CASE row # None
        <5>1. row.left \in Int /\ row' = [row EXCEPT !.left = Past(row.left)]
          BY <2>4, <4>2 DEF Tick, TypeOK
        <5> QED
          BY <5>1, <4>2 DEF LeaseHolder, Past, Floor
      <4> QED
        BY <4>1, <4>2
    <3> QED
      BY <3>1, HolderType DEF Abstract!Next, Abstract!Lapse
  <2>5. CASE UNCHANGED vars
    BY <2>5, <2>same DEF vars
  <2> QED
    BY <2>1, <2>2, <2>3, <2>4, <2>5 DEF Next
<1> QED
  BY <1>1, <1>2, TypeCorrect, PTL DEF Spec, ImplementsLease, Abstract!Spec
=============================================================================
