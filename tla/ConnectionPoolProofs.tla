------------------------ MODULE ConnectionPoolProofs ------------------------
(***************************************************************************)
(* Proofs about ConnectionPool, for any number of threads, slots, pools    *)
(* and server faults.                                                      *)
(***************************************************************************)
EXTENDS ConnectionPool, TLAPS

USE NoneIsNothing, SizeIsPositive, FaultsAreNat, FirstPool

LEMMA SomeMember == ASSUME NEW S, S # {} PROVE Some(S) \in S
  BY DEF Some

LEMMA NoJobType == NoJob \in Job /\ NoJob.p = None /\ NoJob.slot = None /\ NoJob.conn = None
  BY DEF NoJob, Job

(* The next try of a call that leaves the pool *)
LEMMA LeavesType ==
  ASSUME TypeOK, NEW t \in Thread, NEW step, Leaves(t, step)
  PROVE  /\ job' \in [Thread -> Job]
         /\ job'[t].slot = None /\ job'[t].conn = None
         /\ \A u \in Thread \ {t} : job'[u] = job[u]
  BY DEF TypeOK, Leaves, NoJob, Job

LEMMA OpenPoolType ==
  ASSUME TypeOK, OpenPool
  PROVE  /\ pool' \in FreePools
         /\ closed' \in [Pool -> BOOLEAN]
         /\ conns' \in [Pool -> [Slot -> Conn \cup {None}]]
         /\ busy' \in [Pool -> SUBSET Slot]
         /\ open' \in SUBSET Conn
<1>1. pool' \in FreePools /\ pool' \in Pool
  BY SomeMember DEF OpenPool, FreePools
<1> QED
  BY <1>1 DEF TypeOK, OpenPool

LEMMA TypeInduction == TypeOK /\ [Next]_vars => TypeOK'
<1> SUFFICES ASSUME TypeOK, [Next]_vars PROVE TypeOK'
  OBVIOUS
<1> USE DEF TypeOK, Claimed, Steps
<1>0. ASSUME NEW t \in Thread, NEW step \in Steps \ {"acquire", "wait", "connect", "install", "use"},
             Leaves(t, step), GotoAndNotify(t, step) \/ Goto(t, step),
             UNCHANGED <<pool, main, closed, conns>>,
             busy' \in [Pool -> SUBSET Slot], open' \in SUBSET Conn, faults' \in 0..MaxFaults
      PROVE TypeOK'
  <2>1. /\ pc' \in [Thread -> Steps] /\ pc'[t] = step
        /\ \A u \in Thread \ {t} : pc'[u] = pc[u] \/ (pc[u] = "wait" /\ pc'[u] = "acquire")
    BY <1>0 DEF Goto, GotoAndNotify, Woken
  <2> QED
    BY <1>0, <2>1, LeavesType
<1>1. ASSUME NEW t \in Thread, Call(t) PROVE TypeOK'
  <2>1. PICK again \in BOOLEAN :
          job' = [job EXCEPT ![t] = [NoJob EXCEPT !.p = pool, !.again = again]]
    BY <1>1 DEF Call
  <2>2. [NoJob EXCEPT !.p = pool, !.again = again] \in Job
    BY NoJobType DEF Job
  <2>3. [NoJob EXCEPT !.p = pool, !.again = again].p = pool
    BY DEF NoJob
  <2>4. job' \in [Thread -> Job] /\ job'[t].p \in Pool
    BY <1>1, <2>1, <2>2, <2>3 DEF Call
  <2> QED
    BY <1>1, <2>1, <2>4 DEF Call, Goto
<1>2. ASSUME NEW t \in Thread, SeeClosed(t) PROVE TypeOK'
  BY <1>0, <1>2 DEF SeeClosed, AfterLoss
<1>3. ASSUME NEW t \in Thread, Claim(t) PROVE TypeOK'
  <2>1. PICK s \in FreeSlots(job[t].p) :
          /\ job' = [job EXCEPT ![t] = [@ EXCEPT !.slot = s, !.late = FALSE,
                                                !.conn = conns[job[t].p][s]]]
          /\ busy' = [busy EXCEPT ![job[t].p] = @ \cup {s}]
    BY <1>3 DEF Claim
  <2>2. job[t] \in Job /\ job[t].p \in Pool /\ s \in Slot
    BY <1>3 DEF Claim, FreeSlots
  <2>3. conns[job[t].p][s] \in Conn \cup {None}
    BY <2>2
  <2>4. job' \in [Thread -> Job] /\ job'[t].p \in Pool /\ job'[t].slot = s
    BY <2>1, <2>2, <2>3 DEF Job
  <2> QED
    BY <1>3, <2>1, <2>2, <2>4 DEF Claim, Goto
<1>4. ASSUME NEW t \in Thread, GiveUp(t) PROVE TypeOK'
  BY <1>0, <1>4 DEF GiveUp
<1>5. ASSUME NEW t \in Thread, Wait(t) PROVE TypeOK'
  BY <1>5 DEF Wait, Goto
<1>6. ASSUME NEW t \in Thread, TimeOut(t) PROVE TypeOK'
  <2>1. job' \in [Thread -> Job] /\ job'[t].p = job[t].p
    <3>1. job[t] \in Job
      OBVIOUS
    <3>2. [job[t] EXCEPT !.late = TRUE] \in Job /\ [job[t] EXCEPT !.late = TRUE].p = job[t].p
      BY <3>1 DEF Job
    <3> QED
      BY <1>6, <3>2 DEF TimeOut
  <2> QED
    BY <1>6, <2>1 DEF TimeOut, Goto
<1>7. ASSUME NEW t \in Thread, Establish(t) PROVE TypeOK'
  <2>1. FreeConns # {} => Some(FreeConns) \in Conn
    BY SomeMember DEF FreeConns
  <2>2. pc[t] = "connect" /\ job[t] \in Job
    BY <1>7 DEF Establish
  <2>3. /\ job' \in [Thread -> Job] /\ job'[t].p = job[t].p /\ job'[t].slot = job[t].slot
        /\ job'[t].conn \in Conn /\ \A u \in Thread \ {t} : job'[u] = job[u]
        /\ open' \in SUBSET Conn
    <3>1. CASE job[t].conn # None /\ UNCHANGED <<job, open>>
      BY <2>2, <3>1 DEF Job
    <3>2. CASE FreeConns # {} /\ job' = [job EXCEPT ![t].conn = Some(FreeConns)]
                 /\ open' = open \cup {Some(FreeConns)}
      <4>1. /\ [job[t] EXCEPT !.conn = Some(FreeConns)] \in Job
            /\ [job[t] EXCEPT !.conn = Some(FreeConns)].p = job[t].p
            /\ [job[t] EXCEPT !.conn = Some(FreeConns)].slot = job[t].slot
            /\ [job[t] EXCEPT !.conn = Some(FreeConns)].conn \in Conn
        BY <2>1, <2>2, <3>2 DEF Job
      <4> QED
        BY <2>1, <3>2, <4>1
    <3> QED
      BY <1>7, <3>1, <3>2 DEF Establish
  <2>4. pc' = [pc EXCEPT ![t] = "install"] /\ UNCHANGED <<pool, main, closed, conns, busy, faults>>
    BY <1>7 DEF Establish, Goto
  <2> QED
    BY <2>2, <2>3, <2>4
<1>8. ASSUME NEW t \in Thread, ConnectFails(t) PROVE TypeOK'
  BY <1>0, <1>8 DEF ConnectFails, AfterLoss, Free, Fault
<1>9. ASSUME NEW t \in Thread, Install(t) PROVE TypeOK'
  <2>1. CASE closed[job[t].p]
    BY <1>0, <1>9, <2>1 DEF Install, AfterLoss, Free
  <2>2. CASE ~closed[job[t].p]
    <3>1. conns' \in [Pool -> [Slot -> Conn \cup {None}]]
      BY <1>9, <2>2 DEF Install
    <3> QED
      BY <1>9, <2>2, <3>1 DEF Install, Goto
  <2> QED
    BY <2>1, <2>2
<1>10. ASSUME NEW t \in Thread, Finish(t) PROVE TypeOK'
  <2>1. busy' \in [Pool -> SUBSET Slot]
    BY <1>10 DEF Finish, Free
  <2>2. CASE Leaves(t, "idle") /\ GotoAndNotify(t, "idle") /\ UNCHANGED faults
    BY <1>0, <1>10, <2>1, <2>2 DEF Finish
  <2>3. CASE Leaves(t, AfterLoss(t)) /\ GotoAndNotify(t, AfterLoss(t)) /\ UNCHANGED faults
    BY <1>0, <1>10, <2>1, <2>3 DEF Finish, AfterLoss
  <2>4. CASE GotoAndNotify(t, "acquire") /\ Fault
             /\ job' = [job EXCEPT ![t] = [NoJob EXCEPT !.p = job[t].p]]
    <3>1. job' \in [Thread -> Job] /\ job'[t].p \in Pool
      BY <1>10, <2>4 DEF Finish, Job, NoJob
    <3> QED
      BY <1>10, <2>1, <2>4, <3>1 DEF Finish, GotoAndNotify, Woken, Fault
  <2> QED
    BY <1>10, <2>2, <2>3, <2>4 DEF Finish
<1>11. ASSUME NEW t \in Thread, SeePool(t) PROVE TypeOK'
  BY <1>11 DEF SeePool, Goto
<1>12. ASSUME NEW t \in Thread, CloseAll(t) PROVE TypeOK'
  BY <1>12 DEF CloseAll, ClosePool, Woken
<1>13. ASSUME NEW t \in Thread, CloseNothing(t) PROVE TypeOK'
  BY <1>0, <1>13 DEF CloseNothing
<1>14. ASSUME NEW t \in Thread, Drop(t) PROVE TypeOK'
  BY <1>14 DEF Drop, Goto
<1>15. ASSUME NEW t \in Thread, CloseMain(t) PROVE TypeOK'
  BY <1>15 DEF CloseMain, Goto
<1>16. ASSUME NEW t \in Thread, Dial(t) PROVE TypeOK'
  <2>1. CASE Fault /\ Goto(t, "idle") /\ Leaves(t, "idle") /\ UNCHANGED main
    <3>1. faults' \in 0..MaxFaults
      BY <2>1 DEF Fault
    <3> QED
      BY <1>0, <1>16, <2>1, <3>1 DEF Dial
  <2>2. CASE main' = TRUE /\ Goto(t, "pool") /\ UNCHANGED <<job, faults>>
    BY <1>16, <2>2 DEF Dial, Goto
  <2> QED
    BY <1>16, <2>1, <2>2 DEF Dial
<1>17. ASSUME NEW t \in Thread, NewPool(t) PROVE TypeOK'
  <2>1. CASE OpenPool /\ Goto(t, "retry") /\ UNCHANGED job
    BY <1>17, <2>1, OpenPoolType DEF NewPool, Goto, FreePools
  <2>2. CASE Goto(t, "idle") /\ Leaves(t, "idle")
             /\ UNCHANGED <<pool, closed, conns, busy, open>>
    BY <1>0, <1>17, <2>2 DEF NewPool
  <2> QED
    BY <1>17, <2>1, <2>2 DEF NewPool
<1>18. ASSUME NEW t \in Thread, Retry(t) PROVE TypeOK'
  <2>1. CASE Goto(t, "idle") /\ Leaves(t, "idle")
    BY <1>0, <1>18, <2>1 DEF Retry
  <2>2. ASSUME NEW p, p \in Pool,
               job' = [job EXCEPT ![t] = [@ EXCEPT !.p = p, !.retried = TRUE]],
               Goto(t, "acquire")
        PROVE  TypeOK'
    <3>1. job' \in [Thread -> Job] /\ job'[t].p = p
      <4>1. job[t] \in Job
        OBVIOUS
      <4>2. /\ [job[t] EXCEPT !.p = p, !.retried = TRUE] \in Job
            /\ [job[t] EXCEPT !.p = p, !.retried = TRUE].p = p
        BY <2>2, <4>1 DEF Job
      <4> QED
        BY <2>2, <4>2
    <3> QED
      BY <1>18, <2>2, <3>1 DEF Retry, Goto
  <2>3. (IF job[t].again THEN pool ELSE job[t].p) \in Pool \cup {None}
    BY DEF Job
  <2> QED
    BY <1>18, <2>1, <2>2, <2>3 DEF Retry
<1>19. CASE LoseConnections
  BY <1>19 DEF LoseConnections, Fault
<1>20. CASE Disconnect
  <2>1. pc' \in [Thread -> Steps] /\ \A t \in Thread :
          pc'[t] = pc[t] \/ (pc[t] = "wait" /\ pc'[t] = "acquire")
    BY <1>20 DEF Disconnect, Woken
  <2>2. /\ closed' \in [Pool -> BOOLEAN] /\ busy' \in [Pool -> SUBSET Slot]
        /\ conns' \in [Pool -> [Slot -> Conn \cup {None}]] /\ open' \in SUBSET Conn
    BY <1>20 DEF Disconnect, ClosePool
  <2>3. faults' \in 0..MaxFaults
    BY <1>20 DEF Disconnect, Fault
  <2> QED
    BY <1>20, <2>1, <2>2, <2>3 DEF Disconnect
<1>21. CASE Connect
  BY <1>21, OpenPoolType DEF Connect, FreePools
<1>22. CASE UNCHANGED vars
  BY <1>22 DEF vars
<1> QED
  BY <1>1, <1>2, <1>3, <1>4, <1>5, <1>6, <1>7, <1>8, <1>9, <1>10, <1>11, <1>12,
     <1>13, <1>14, <1>15, <1>16, <1>17, <1>18, <1>19, <1>20, <1>21, <1>22
     DEF Next, Step, Acquire, Lend, Reconnect

(* The tables of the pools and the state of every call keep their types.   *)
THEOREM TypeCorrect == Spec => []TypeOK
<1>1. Init => TypeOK
  BY SomeMember, NoJobType DEF Init, TypeOK, Steps, Claimed
<1> QED
  BY <1>1, TypeInduction, PTL DEF Spec

-----------------------------------------------------------------------------
(* The inductive invariant.  A slot has one user, and of an open pool the  *)
(* users are those its list shows.  A connection is in one slot; the user  *)
(* of a slot has the connection in it, or one that is in no slot at all.   *)
SlotHasOneUser ==
  \A t, u \in Thread :
    Claimed(t) /\ Claimed(u) /\ job[t].p = job[u].p /\ job[t].slot = job[u].slot
      => t = u

ConnIsHeldOnce ==
  /\ \A t \in Thread : ~Claimed(t) => job[t].conn = None
  /\ \A t, u \in Thread : job[t].conn # None /\ job[t].conn = job[u].conn => t = u

ConnIsCachedOnce ==
  \A p, q \in Pool : \A s, r \in Slot :
    conns[p][s] # None /\ conns[p][s] = conns[q][r] => p = q /\ s = r

HeldIsCachedHere ==
  \A t \in Thread : Claimed(t) =>
    /\ ~closed[job[t].p] => conns[job[t].p][job[t].slot] \in {None, job[t].conn}
    /\ job[t].conn # None =>
         \A p \in Pool : \A s \in Slot :
           conns[p][s] = job[t].conn => p = job[t].p /\ s = job[t].slot

Lent == SlotHasOneUser /\ ConnIsHeldOnce /\ ConnIsCachedOnce /\ HeldIsCachedHere

IInv == /\ TypeOK /\ Lent
        /\ SlotsAreGivenBack /\ NoForgottenWaiter /\ OpenConnectionsAreOwned

(* What the rest of the threads sees of a step of t: some are woken.       *)
Others(t) ==
  /\ \A u \in Thread \ {t} : /\ job'[u] = job[u]
                             /\ pc'[u] = pc[u] \/ (pc[u] = "wait" /\ pc'[u] = "acquire")

LEMMA QuietStep ==
  ASSUME IInv, TypeOK', NEW t \in Thread, Others(t),
         ~Claimed(t), ~Claimed(t)', job'[t].conn = None,
         pc'[t] = "wait" => ~closed[job'[t].p] /\ busy[job'[t].p] = Slot,
         UNCHANGED <<closed, conns, busy, open>>
  PROVE  IInv'
<1> USE DEF IInv, TypeOK, Others, Claimed
<1>1. \A u \in Thread : (Claimed(u)' <=> Claimed(u)) /\ (Claimed(u) => job'[u] = job[u])
  OBVIOUS
<1>2. \A p \in Pool : \A s \in Slot : Users(p, s)' = Users(p, s)
  BY <1>1 DEF Users
<1>3. Lent'
  <2>1. SlotHasOneUser'
    BY <1>1 DEF Lent, SlotHasOneUser
  <2>2. ConnIsHeldOnce'
    BY <1>1 DEF Lent, ConnIsHeldOnce
  <2>3. ConnIsCachedOnce'
    BY DEF Lent, ConnIsCachedOnce
  <2>4. HeldIsCachedHere'
    BY <1>1 DEF Lent, HeldIsCachedHere
  <2> QED
    BY <2>1, <2>2, <2>3, <2>4 DEF Lent
<1>4. SlotsAreGivenBack'
  BY <1>2 DEF SlotsAreGivenBack
<1>5. NoForgottenWaiter'
  BY DEF NoForgottenWaiter
<1>6. OpenConnectionsAreOwned'
  <2> SUFFICES ASSUME NEW c \in open
               PROVE  \/ \E p \in Pool : ~closed[p] /\ c \in Cached(p)
                      \/ \E u \in Thread : pc'[u] = "install" /\ job'[u].conn = c
    BY DEF OpenConnectionsAreOwned, Cached
  <2>1. ASSUME NEW u \in Thread, pc[u] = "install"
        PROVE  pc'[u] = "install" /\ job'[u] = job[u]
    BY <2>1, <1>1
  <2>2. \/ \E p \in Pool : ~closed[p] /\ c \in Cached(p)
        \/ \E u \in Thread : pc[u] = "install" /\ job[u].conn = c
    BY DEF OpenConnectionsAreOwned
  <2> HIDE DEF IInv, TypeOK, Others, Claimed
  <2> QED
    BY <2>1, <2>2
<1> QED
  BY <1>3, <1>4, <1>5, <1>6

(* A call leaves its slot: the list is cleared unless it is of a pool that *)
(* was closed, and a connection made for a closed pool is closed.          *)
LEMMA GiveBackStep ==
  ASSUME IInv, TypeOK', NEW t \in Thread, NEW step, step # "wait",
         Claimed(t), Free(t), GotoAndNotify(t, step), ~Claimed(t)',
         job'[t].conn = None, \A u \in Thread \ {t} : job'[u] = job[u],
         open' \in SUBSET open, pc[t] = "install" => job[t].conn \notin open',
         \A c \in open : c # job[t].conn => c \in open',
         UNCHANGED <<closed, conns>>
  PROVE  IInv'
<1> USE DEF IInv, TypeOK, Claimed
<1>1. Others(t) /\ pc'[t] = step
  BY DEF Others, GotoAndNotify, Woken
<1>2. \A u \in Thread : Claimed(u)' <=> Claimed(u) /\ u # t
  BY <1>1 DEF Others
<1>3. \A u \in Thread : Claimed(u)' => job'[u] = job[u]
  BY <1>2
<1>4. Lent'
  <2>1. SlotHasOneUser'
    BY <1>2, <1>3 DEF Lent, SlotHasOneUser
  <2>2. ConnIsHeldOnce'
    <3>1. \A u \in Thread : ~Claimed(u) => job[u].conn = None
      BY DEF Lent, ConnIsHeldOnce
    <3>2. \A u \in Thread : job'[u].conn = IF u = t THEN None ELSE job[u].conn
      OBVIOUS
    <3>3. \A u \in Thread : ~Claimed(u)' => job'[u].conn = None
      BY <1>2, <3>1, <3>2
    <3>4. \A u, v \in Thread : job[u].conn # None /\ job[u].conn = job[v].conn => u = v
      BY DEF Lent, ConnIsHeldOnce
    <3>5. \A u, v \in Thread : job'[u].conn # None /\ job'[u].conn = job'[v].conn => u = v
      BY <3>2, <3>4
    <3> QED
      BY <3>3, <3>5 DEF ConnIsHeldOnce
  <2>3. ConnIsCachedOnce'
    BY DEF Lent, ConnIsCachedOnce
  <2>4. HeldIsCachedHere'
    BY <1>2, <1>3 DEF Lent, HeldIsCachedHere
  <2> QED
    BY <2>1, <2>2, <2>3, <2>4 DEF Lent
<1>5. SlotsAreGivenBack'
  <2> SUFFICES ASSUME NEW p \in Pool, ~closed[p], NEW s \in Slot
               PROVE  s \in busy'[p] <=> Users(p, s)' # {}
    BY DEF SlotsAreGivenBack
  <2>1. Users(p, s)' = Users(p, s) \ {t}
    BY <1>2, <1>3 DEF Users
  <2>2. CASE p = job[t].p /\ s = job[t].slot
    <3>1. Users(p, s) = {t}
      BY <2>2 DEF Users, Lent, SlotHasOneUser
    <3> QED
      BY <2>1, <2>2, <3>1 DEF Free
  <2>3. CASE ~(p = job[t].p /\ s = job[t].slot)
    <3>1. t \notin Users(p, s)
      BY <2>3 DEF Users
    <3>2. s \in busy'[p] <=> s \in busy[p]
      BY <2>3 DEF Free
    <3> QED
      BY <2>1, <3>1, <3>2 DEF SlotsAreGivenBack
  <2> QED
    BY <2>2, <2>3
<1>6. NoForgottenWaiter'
  <2> SUFFICES ASSUME NEW u \in Thread, pc'[u] = "wait"
               PROVE  ~closed[job'[u].p] /\ busy'[job'[u].p] = Slot
    BY DEF NoForgottenWaiter
  <2>1. u # t /\ pc[u] = "wait" /\ job[u].p # job[t].p /\ job'[u] = job[u]
    BY <1>1 DEF GotoAndNotify, Woken
  <2>2. busy'[job[u].p] = busy[job[u].p]
    BY <2>1 DEF Free
  <2> QED
    BY <2>1, <2>2 DEF NoForgottenWaiter
<1>7. OpenConnectionsAreOwned'
  <2> SUFFICES ASSUME NEW c \in open'
               PROVE  \/ \E p \in Pool : ~closed[p] /\ c \in Cached(p)
                      \/ \E u \in Thread : pc'[u] = "install" /\ job'[u].conn = c
    BY DEF OpenConnectionsAreOwned, Cached
  <2>1. c \in open
    OBVIOUS
  <2>2. ASSUME NEW u \in Thread, pc[u] = "install", job[u].conn = c
        PROVE  pc'[u] = "install" /\ job'[u].conn = c
    BY <1>1, <2>2 DEF Others
  <2> QED
    BY <2>1, <2>2 DEF OpenConnectionsAreOwned
<1> QED
  BY <1>4, <1>5, <1>6, <1>7

LEMMA ClaimStep ==
  ASSUME IInv, TypeOK', NEW t \in Thread, Claim(t)
  PROVE  IInv'
<1> USE DEF IInv, TypeOK, Claimed
<1> DEFINE p == job[t].p
<1>1. PICK s \in FreeSlots(p) :
        /\ job' = [job EXCEPT ![t] = [@ EXCEPT !.slot = s, !.late = FALSE,
                                              !.conn = conns[job[t].p][s]]]
        /\ busy' = [busy EXCEPT ![job[t].p] = @ \cup {s}]
  BY DEF Claim
<1>2. p \in Pool /\ s \in Slot /\ s \notin busy[p] /\ ~closed[p] /\ pc[t] = "acquire"
  BY DEF Claim, FreeSlots
<1>3. job'[t].p = p /\ job'[t].slot = s /\ job'[t].conn = conns[p][s]
  <2>1. job[t] \in Job
    OBVIOUS
  <2> QED
    BY <1>1, <2>1 DEF Job
<1>4. /\ pc'[t] = "connect"
      /\ \A u \in Thread \ {t} : pc'[u] = pc[u] /\ job'[u] = job[u]
  BY <1>1 DEF Claim, Goto
<1>5. \A u \in Thread : Claimed(u)' <=> Claimed(u) \/ u = t
  BY <1>4
<1>6. UNCHANGED <<closed, conns, open>>
  BY DEF Claim
<1>7. Users(p, s) = {}
  BY <1>2 DEF SlotsAreGivenBack
<1>8. \A u \in Thread : conns[p][s] # None => job[u].conn # conns[p][s]
  <2> SUFFICES ASSUME NEW u \in Thread, conns[p][s] # None, job[u].conn = conns[p][s]
               PROVE  FALSE
    OBVIOUS
  <2>1. Claimed(u)
    BY DEF Lent, ConnIsHeldOnce
  <2>2. p = job[u].p /\ s = job[u].slot
    BY <1>2, <2>1 DEF Lent, HeldIsCachedHere
  <2> QED
    BY <1>7, <2>1, <2>2 DEF Users
<1>9. Lent'
  <2>1. SlotHasOneUser'
    <3>1. \A u \in Thread \ {t} : Claimed(u) => ~(job[u].p = p /\ job[u].slot = s)
      BY <1>7 DEF Users
    <3> QED
      <4> SUFFICES ASSUME NEW u \in Thread, NEW v \in Thread, Claimed(u)', Claimed(v)',
                          job'[u].p = job'[v].p, job'[u].slot = job'[v].slot
                   PROVE  u = v
        BY DEF SlotHasOneUser
      <4>1. CASE u = t \/ v = t
        BY <1>3, <1>4, <1>5, <3>1, <4>1
      <4>2. CASE u # t /\ v # t
        BY <1>4, <1>5, <4>2 DEF Lent, SlotHasOneUser
      <4> QED
        BY <4>1, <4>2
  <2>2. ConnIsHeldOnce'
    <3>1. \A u \in Thread : ~Claimed(u)' => job'[u].conn = None
      BY <1>4, <1>5 DEF Lent, ConnIsHeldOnce
    <3>2. \A u, v \in Thread : job[u].conn # None /\ job[u].conn = job[v].conn => u = v
      BY DEF Lent, ConnIsHeldOnce
    <3>3. \A u \in Thread : job'[u].conn = IF u = t THEN conns[p][s] ELSE job[u].conn
      BY <1>3, <1>4
    <3>4. \A u, v \in Thread : job'[u].conn # None /\ job'[u].conn = job'[v].conn => u = v
      BY <1>8, <3>2, <3>3
    <3> QED
      BY <3>1, <3>4 DEF ConnIsHeldOnce
  <2>3. ConnIsCachedOnce'
    BY <1>6 DEF Lent, ConnIsCachedOnce
  <2>4. HeldIsCachedHere'
    <3> SUFFICES ASSUME NEW u \in Thread, Claimed(u)'
                 PROVE (/\ ~closed[job[u].p] => conns[job[u].p][job[u].slot] \in {None, job[u].conn}
                        /\ job[u].conn # None =>
                             \A q \in Pool : \A r \in Slot :
                               conns[q][r] = job[u].conn => q = job[u].p /\ r = job[u].slot)'
      BY DEF HeldIsCachedHere
    <3>1. CASE u = t
      BY <1>2, <1>3, <1>6, <3>1 DEF Lent, ConnIsCachedOnce
    <3>2. CASE u # t
      BY <1>4, <1>5, <1>6, <3>2 DEF Lent, HeldIsCachedHere
    <3> QED
      BY <3>1, <3>2
  <2> QED
    BY <2>1, <2>2, <2>3, <2>4 DEF Lent
<1>10. SlotsAreGivenBack'
  <2> SUFFICES ASSUME NEW q \in Pool, ~closed[q], NEW r \in Slot
               PROVE  r \in busy'[q] <=> Users(q, r)' # {}
    BY <1>6 DEF SlotsAreGivenBack
  <2>1. CASE q = p /\ r = s
    <3>1. t \in Users(q, r)'
      BY <1>3, <1>5, <2>1 DEF Users
    <3> QED
      BY <1>1, <1>2, <2>1, <3>1
  <2>2. CASE ~(q = p /\ r = s)
    <3>1. Users(q, r)' = Users(q, r)
      BY <1>2, <1>3, <1>4, <1>5, <2>2 DEF Users
    <3>2. r \in busy'[q] <=> r \in busy[q]
      BY <1>1, <1>2, <2>2
    <3> QED
      BY <3>1, <3>2 DEF SlotsAreGivenBack
  <2> QED
    BY <2>1, <2>2
<1>11. NoForgottenWaiter'
  <2> SUFFICES ASSUME NEW u \in Thread, pc'[u] = "wait"
               PROVE  ~closed[job'[u].p] /\ busy'[job'[u].p] = Slot
    BY <1>6 DEF NoForgottenWaiter
  <2>1. u # t /\ pc[u] = "wait" /\ job'[u] = job[u] /\ job[u].p \in Pool
    BY <1>4
  <2>2. ~closed[job[u].p] /\ busy[job[u].p] = Slot
    BY <2>1 DEF NoForgottenWaiter
  <2>3. job[u].p # p
    BY <1>2, <2>2
  <2> QED
    BY <1>1, <2>1, <2>2, <2>3
<1>12. OpenConnectionsAreOwned'
  <2>1. \A q \in Pool : Cached(q)' = Cached(q)
    BY <1>6 DEF Cached
  <2>2. ASSUME NEW u \in Thread, pc[u] = "install"
        PROVE  pc'[u] = "install" /\ job'[u].conn = job[u].conn
    <3>1. u # t
      BY <2>2 DEF Claim
    <3> QED
      BY <1>4, <2>2, <3>1
  <2>3. ASSUME NEW c \in open
        PROVE  \/ \E q \in Pool : ~closed[q] /\ c \in Cached(q)
               \/ \E u \in Thread : pc[u] = "install" /\ job[u].conn = c
    BY DEF OpenConnectionsAreOwned
  <2> SUFFICES ASSUME NEW c \in open
               PROVE  \/ \E q \in Pool : ~closed[q] /\ c \in Cached(q)'
                      \/ \E u \in Thread : pc'[u] = "install" /\ job'[u].conn = c
    BY <1>6 DEF OpenConnectionsAreOwned
  <2> HIDE DEF IInv, TypeOK, Claimed
  <2> QED
    BY <2>1, <2>2, <2>3
<1> QED
  BY <1>9, <1>10, <1>11, <1>12

LEMMA EstablishStep ==
  ASSUME IInv, TypeOK', NEW t \in Thread, Establish(t)
  PROVE  IInv'
<1> USE DEF IInv, TypeOK, Claimed
<1>1. /\ pc[t] = "connect" /\ pc'[t] = "install"
      /\ \A u \in Thread \ {t} : pc'[u] = pc[u] /\ job'[u] = job[u]
      /\ UNCHANGED <<closed, conns, busy>>
  BY DEF Establish, Goto
<1>2. \A u \in Thread : Claimed(u)' <=> Claimed(u)
  BY <1>1
<1>3. job'[t].p = job[t].p /\ job'[t].slot = job[t].slot
  <2>1. job[t] \in Job
    OBVIOUS
  <2> QED
    BY <2>1 DEF Establish, Job
<1>4. \A p \in Pool : \A s \in Slot : Users(p, s)' = Users(p, s)
  <2>1. \A u \in Thread : job'[u].p = job[u].p /\ job'[u].slot = job[u].slot
    BY <1>1, <1>3
  <2> QED
    BY <1>2, <2>1, Zenon DEF Users
<1>5. SlotHasOneUser' /\ ConnIsCachedOnce'
  <2>1. SlotHasOneUser'
    <3>1. \A u \in Thread : job'[u].p = job[u].p /\ job'[u].slot = job[u].slot
      BY <1>1, <1>3
    <3> QED
      BY <1>2, <3>1 DEF Lent, SlotHasOneUser
  <2> QED
    BY <1>1, <2>1 DEF Lent, ConnIsCachedOnce
<1>6. SlotsAreGivenBack'
  BY <1>1, <1>4 DEF SlotsAreGivenBack
<1>7. NoForgottenWaiter'
  BY <1>1 DEF NoForgottenWaiter
<1>8. CASE job[t].conn # None /\ UNCHANGED <<job, open>>
  <2>1. ConnIsHeldOnce' /\ HeldIsCachedHere'
    BY <1>1, <1>2, <1>8 DEF Lent, ConnIsHeldOnce, HeldIsCachedHere
  <2>2. OpenConnectionsAreOwned'
    BY <1>1, <1>8 DEF OpenConnectionsAreOwned, Cached
  <2> QED
    BY <1>5, <1>6, <1>7, <2>1, <2>2 DEF Lent
<1>9. ASSUME NEW c \in FreeConns, job[t].conn = None,
             job' = [job EXCEPT ![t].conn = c], open' = open \cup {c}
      PROVE  IInv'
  <2>1. job'[t].conn = c
    <3>1. job[t] \in Job
      OBVIOUS
    <3> QED
      BY <1>9, <3>1 DEF Job
  <2>2. /\ c \in Conn /\ c # None
        /\ \A u \in Thread : job[u].conn # c
        /\ \A p \in Pool : \A s \in Slot : conns[p][s] # c
    BY DEF FreeConns, Cached
  <2>3. ConnIsHeldOnce'
    <3>1. \A u \in Thread : ~Claimed(u)' => job'[u].conn = None
      BY <1>1, <1>2 DEF Lent, ConnIsHeldOnce
    <3>2. \A u, v \in Thread : job[u].conn # None /\ job[u].conn = job[v].conn => u = v
      BY DEF Lent, ConnIsHeldOnce
    <3>3. \A u \in Thread : job'[u].conn = IF u = t THEN c ELSE job[u].conn
      BY <1>1, <2>1
    <3>4. \A u, v \in Thread : job'[u].conn # None /\ job'[u].conn = job'[v].conn => u = v
      BY <2>2, <3>2, <3>3
    <3> QED
      BY <3>1, <3>4 DEF ConnIsHeldOnce
  <2>4. HeldIsCachedHere'
    <3> SUFFICES ASSUME NEW u \in Thread, Claimed(u)'
                 PROVE (/\ ~closed[job[u].p] => conns[job[u].p][job[u].slot] \in {None, job[u].conn}
                        /\ job[u].conn # None =>
                             \A q \in Pool : \A r \in Slot :
                               conns[q][r] = job[u].conn => q = job[u].p /\ r = job[u].slot)'
      BY DEF HeldIsCachedHere
    <3>1. CASE u = t
      BY <1>1, <1>3, <1>9, <2>1, <2>2, <3>1 DEF Lent, HeldIsCachedHere
    <3>2. CASE u # t
      BY <1>1, <1>2, <3>2 DEF Lent, HeldIsCachedHere
    <3> QED
      BY <3>1, <3>2
  <2>5. OpenConnectionsAreOwned'
    <3> SUFFICES ASSUME NEW d \in open'
                 PROVE  \/ \E p \in Pool : ~closed[p] /\ d \in Cached(p)
                        \/ \E u \in Thread : pc'[u] = "install" /\ job'[u].conn = d
      BY <1>1 DEF OpenConnectionsAreOwned, Cached
    <3>1. CASE d = c
      BY <1>1, <2>1, <3>1
    <3>2. CASE d # c
      <4>1. d \in open
        BY <1>9, <3>2
      <4>2. ASSUME NEW u \in Thread, pc[u] = "install", job[u].conn = d
            PROVE  pc'[u] = "install" /\ job'[u].conn = d
        BY <1>1, <4>2
      <4> QED
        BY <4>1, <4>2 DEF OpenConnectionsAreOwned
    <3> QED
      BY <3>1, <3>2
  <2> QED
    BY <1>5, <1>6, <1>7, <2>3, <2>4, <2>5 DEF Lent
<1> QED
  BY <1>8, <1>9, SomeMember DEF Establish

LEMMA InstallStep ==
  ASSUME IInv, TypeOK', NEW t \in Thread, Install(t), ~closed[job[t].p]
  PROVE  IInv'
<1> USE DEF IInv, TypeOK, Claimed
<1> DEFINE p == job[t].p
           s == job[t].slot
           c == job[t].conn
<1>1. /\ pc[t] = "install" /\ pc'[t] = "use"
      /\ \A u \in Thread \ {t} : pc'[u] = pc[u]
      /\ conns' = [conns EXCEPT ![p][s] = c]
      /\ UNCHANGED <<closed, busy, open, job>>
  BY DEF Install, Goto
<1>2. p \in Pool /\ s \in Slot /\ c \in Conn /\ c # None /\ conns[p][s] \in {None, c}
  <2>1. conns[p][s] \in {None, c}
    BY <1>1 DEF Lent, HeldIsCachedHere
  <2> QED
    BY <1>1, <2>1
<1>3. \A u \in Thread : Claimed(u)' <=> Claimed(u)
  BY <1>1
<1>4. \A q \in Pool : \A r \in Slot :
        conns'[q][r] = IF q = p /\ r = s THEN c ELSE conns[q][r]
  BY <1>1, <1>2
<1>5. \A q \in Pool : \A r \in Slot : conns[q][r] = c => q = p /\ r = s
  BY <1>1, <1>2 DEF Lent, HeldIsCachedHere
<1>6. Lent'
  <2>1. SlotHasOneUser'
    BY <1>1, <1>3 DEF Lent, SlotHasOneUser
  <2>2. ConnIsHeldOnce'
    BY <1>1, <1>3 DEF Lent, ConnIsHeldOnce
  <2>3. ConnIsCachedOnce'
    <3> SUFFICES ASSUME NEW q \in Pool, NEW r \in Slot, NEW x \in Pool, NEW y \in Slot,
                        conns'[q][r] # None, conns'[q][r] = conns'[x][y]
                 PROVE  q = x /\ r = y
      BY DEF ConnIsCachedOnce
    <3>same. conns'[q][r] # None /\ conns'[q][r] = conns'[x][y]
      OBVIOUS
    <3> QED
      <4> HIDE DEF p, s, c
      <4>a. \A v \in Pool : \A w \in Slot : conns'[v][w] = c => v = p /\ w = s
        BY <1>4, <1>5
      <4>b. \A v \in Pool : \A w \in Slot : conns'[v][w] # c => conns'[v][w] = conns[v][w]
        BY <1>4
      <4>1. CASE conns'[q][r] = c
        BY <4>a, <4>1
      <4>2. CASE conns'[q][r] # c
        <5>1. conns'[q][r] = conns[q][r]
          BY <4>b, <4>2
        <5>2. conns'[x][y] # c
          BY <3>same, <4>2
        <5>3. conns'[x][y] = conns[x][y]
          BY <4>b, <5>2
        <5>4. conns[q][r] # None /\ conns[q][r] = conns[x][y]
          BY <3>same, <5>1, <5>3
        <5> QED
          BY <5>4 DEF Lent, ConnIsCachedOnce
      <4> QED
        BY <4>1, <4>2
  <2>4. HeldIsCachedHere'
    <3> SUFFICES ASSUME NEW u \in Thread, Claimed(u)
                 PROVE  /\ ~closed[job[u].p] => conns'[job[u].p][job[u].slot] \in {None, job[u].conn}
                        /\ job[u].conn # None =>
                             \A q \in Pool : \A r \in Slot :
                               conns'[q][r] = job[u].conn => q = job[u].p /\ r = job[u].slot
      BY <1>1, <1>3 DEF HeldIsCachedHere
    <3>1. CASE u = t
      BY <1>2, <1>4, <1>5, <3>1
    <3>2. CASE u # t
      <4>1. job[u].conn # c
        BY <1>2, <3>2 DEF Lent, ConnIsHeldOnce
      <4>2. ~(job[u].p = p /\ job[u].slot = s)
        BY <1>1, <3>2 DEF Lent, SlotHasOneUser
      <4> QED
        BY <1>4, <4>1, <4>2 DEF Lent, HeldIsCachedHere
    <3> QED
      BY <3>1, <3>2
  <2> QED
    BY <2>1, <2>2, <2>3, <2>4 DEF Lent
<1>7. SlotsAreGivenBack'
  <2>1. \A q \in Pool : \A r \in Slot : Users(q, r)' = Users(q, r)
    BY <1>1, <1>3, Zenon DEF Users
  <2> QED
    BY <1>1, <2>1 DEF SlotsAreGivenBack
<1>8. NoForgottenWaiter'
  BY <1>1 DEF NoForgottenWaiter
<1>9. OpenConnectionsAreOwned'
  <2> SUFFICES ASSUME NEW d \in open
               PROVE  \/ \E q \in Pool : ~closed[q] /\ d \in Cached(q)'
                      \/ \E u \in Thread : pc'[u] = "install" /\ job[u].conn = d
    BY <1>1 DEF OpenConnectionsAreOwned
  <2>1. CASE d = c
    <3> SUFFICES ASSUME NEW q \in Pool, NEW r \in Slot, q = p, r = s
                 PROVE  ~closed[q] /\ d \in Cached(q)'
      BY <1>2
    <3>1. conns'[q][r] = d /\ d # None
      BY <1>2, <1>4, <2>1
    <3> QED
      BY <3>1 DEF Cached
  <2>2. ASSUME d # c, NEW q \in Pool, ~closed[q], d \in Cached(q)
        PROVE  d \in Cached(q)'
    <3>1. PICK r \in Slot : conns[q][r] = d /\ d # None
      BY <2>2 DEF Cached
    <3>2. conns'[q][r] = d
      BY <1>2, <1>4, <2>2, <3>1
    <3> QED
      BY <3>1, <3>2 DEF Cached
  <2>3. ASSUME d # c, NEW u \in Thread, pc[u] = "install", job[u].conn = d
        PROVE  pc'[u] = "install"
    BY <1>1, <2>3
  <2> QED
    BY <2>1, <2>2, <2>3 DEF OpenConnectionsAreOwned
<1> QED
  BY <1>6, <1>7, <1>8, <1>9

(* A new pool has no users: the object it replaces had none left.          *)
LEMMA OpenPoolStep ==
  ASSUME IInv, TypeOK', OpenPool, UNCHANGED job,
         \A u \in Thread : pc'[u] # pc[u] =>
           ~Claimed(u) /\ pc'[u] \notin {"wait", "connect", "install", "use"}
  PROVE  IInv'
<1> USE DEF IInv, TypeOK, Claimed
<1> DEFINE p == Some(FreePools)
<1>1. p \in Pool /\ \A u \in Thread : job[u].p # p
  BY SomeMember DEF OpenPool, FreePools
<1>2. /\ open' = open \ Cached(p)
      /\ closed' = [closed EXCEPT ![p] = FALSE]
      /\ conns' = [conns EXCEPT ![p] = [s \in Slot |-> None]]
      /\ busy' = [busy EXCEPT ![p] = {}]
  BY DEF OpenPool
<1>3. \A u \in Thread : Claimed(u)' <=> Claimed(u)
  OBVIOUS
<1>4. \A q \in Pool : q # p => /\ closed'[q] = closed[q] /\ busy'[q] = busy[q]
                               /\ \A r \in Slot : conns'[q][r] = conns[q][r]
  BY <1>1, <1>2
<1>5. ~closed'[p] /\ busy'[p] = {} /\ \A r \in Slot : conns'[p][r] = None
  BY <1>1, <1>2
<1>6. Lent'
  <2>1. SlotHasOneUser'
    BY <1>3 DEF Lent, SlotHasOneUser
  <2>2. ConnIsHeldOnce'
    BY <1>3 DEF Lent, ConnIsHeldOnce
  <2>3. ConnIsCachedOnce'
    <3>1. \A q \in Pool : \A r \in Slot :
            conns'[q][r] # None => conns'[q][r] = conns[q][r]
      BY <1>4, <1>5
    <3> QED
      BY <3>1 DEF Lent, ConnIsCachedOnce
  <2>4. HeldIsCachedHere'
    <3> SUFFICES ASSUME NEW u \in Thread, Claimed(u)
                 PROVE  /\ ~closed'[job[u].p] => conns'[job[u].p][job[u].slot] \in {None, job[u].conn}
                        /\ job[u].conn # None =>
                             \A q \in Pool : \A r \in Slot :
                               conns'[q][r] = job[u].conn => q = job[u].p /\ r = job[u].slot
      BY <1>3 DEF HeldIsCachedHere
    <3> QED
      BY <1>1, <1>4, <1>5 DEF Lent, HeldIsCachedHere
  <2> QED
    BY <2>1, <2>2, <2>3, <2>4 DEF Lent
<1>7. SlotsAreGivenBack'
  <2>1. \A q \in Pool : \A r \in Slot : Users(q, r)' = Users(q, r)
    BY <1>3, Zenon DEF Users
  <2>2. \A r \in Slot : Users(p, r) = {}
    BY <1>1 DEF Users
  <2> SUFFICES ASSUME NEW q \in Pool, ~closed'[q], NEW r \in Slot
               PROVE  r \in busy'[q] <=> Users(q, r) # {}
    BY <2>1 DEF SlotsAreGivenBack
  <2>3. CASE q = p
    BY <1>5, <2>2, <2>3
  <2>4. CASE q # p
    BY <1>4, <2>4 DEF SlotsAreGivenBack
  <2> QED
    BY <2>3, <2>4
<1>8. NoForgottenWaiter'
  BY <1>1, <1>4 DEF NoForgottenWaiter
<1>9. OpenConnectionsAreOwned'
  <2> SUFFICES ASSUME NEW d \in open, d \notin Cached(p)
               PROVE  \/ \E q \in Pool : ~closed'[q] /\ d \in Cached(q)'
                      \/ \E u \in Thread : pc'[u] = "install" /\ job[u].conn = d
    BY <1>2 DEF OpenConnectionsAreOwned
  <2>1. ASSUME NEW q \in Pool, ~closed[q], d \in Cached(q)
        PROVE  ~closed'[q] /\ d \in Cached(q)'
    <3>1. q # p
      BY <2>1
    <3> QED
      BY <1>4, <2>1, <3>1 DEF Cached
  <2>2. ASSUME NEW u \in Thread, pc[u] = "install", job[u].conn = d
        PROVE  pc'[u] = "install"
    BY <2>2
  <2>3. \/ \E q \in Pool : ~closed[q] /\ d \in Cached(q)
        \/ \E u \in Thread : pc[u] = "install" /\ job[u].conn = d
    BY DEF OpenConnectionsAreOwned
  <2> QED
    BY <2>1, <2>2, <2>3
<1> QED
  BY <1>6, <1>7, <1>8, <1>9

(* Closing a pool takes its connections away and wakes its waiters.        *)
LEMMA ClosePoolStep ==
  ASSUME IInv, TypeOK', pool # None, ClosePool, UNCHANGED job,
         \A u \in Thread : pc'[u] # Woken(u, pool) =>
           ~Claimed(u) /\ pc'[u] \notin {"wait", "connect", "install", "use"}
  PROVE  IInv'
<1> USE DEF IInv, TypeOK, Claimed
<1>1. /\ open' = open \ Cached(pool)
      /\ closed' = [closed EXCEPT ![pool] = TRUE]
      /\ conns' = [conns EXCEPT ![pool] = [s \in Slot |-> None]]
      /\ busy' = [busy EXCEPT ![pool] = {}]
  BY DEF ClosePool
<1>2. pool \in Pool
  OBVIOUS
<1>3. \A u \in Thread : /\ Claimed(u)' <=> Claimed(u)
                        /\ pc'[u] = "wait" => pc[u] = "wait" /\ job[u].p # pool
                        /\ pc[u] = "install" => pc'[u] = "install"
  BY DEF Woken
<1>4. \A q \in Pool : q # pool => /\ closed'[q] = closed[q] /\ busy'[q] = busy[q]
                                  /\ \A r \in Slot : conns'[q][r] = conns[q][r]
  BY <1>1, <1>2
<1>5. closed'[pool] /\ \A r \in Slot : conns'[pool][r] = None
  BY <1>1, <1>2
<1>6. Lent'
  <2>1. SlotHasOneUser'
    BY <1>3 DEF Lent, SlotHasOneUser
  <2>2. ConnIsHeldOnce'
    BY <1>3 DEF Lent, ConnIsHeldOnce
  <2>3. ConnIsCachedOnce'
    <3>1. \A q \in Pool : \A r \in Slot :
            conns'[q][r] # None => conns'[q][r] = conns[q][r]
      BY <1>4, <1>5
    <3> QED
      BY <3>1 DEF Lent, ConnIsCachedOnce
  <2>4. HeldIsCachedHere'
    <3> SUFFICES ASSUME NEW u \in Thread, Claimed(u)
                 PROVE  /\ ~closed'[job[u].p] => conns'[job[u].p][job[u].slot] \in {None, job[u].conn}
                        /\ job[u].conn # None =>
                             \A q \in Pool : \A r \in Slot :
                               conns'[q][r] = job[u].conn => q = job[u].p /\ r = job[u].slot
      BY <1>3 DEF HeldIsCachedHere
    <3>1. /\ job[u].p \in Pool /\ job[u].slot \in Slot
          /\ ~closed[job[u].p] => conns[job[u].p][job[u].slot] \in {None, job[u].conn}
          /\ job[u].conn # None =>
               \A q \in Pool : \A r \in Slot :
                 conns[q][r] = job[u].conn => q = job[u].p /\ r = job[u].slot
      BY DEF Lent, HeldIsCachedHere
    <3>2. ~closed'[job[u].p] => job[u].p # pool
      BY <1>5
    <3>3. \A q \in Pool : \A r \in Slot : conns'[q][r] # None => conns'[q][r] = conns[q][r]
      BY <1>4, <1>5
    <3> HIDE DEF IInv, TypeOK, Claimed
    <3> QED
      BY <1>4, <3>1, <3>2, <3>3
  <2> QED
    BY <2>1, <2>2, <2>3, <2>4 DEF Lent
<1>7. SlotsAreGivenBack'
  <2>1. \A q \in Pool : \A r \in Slot : Users(q, r)' = Users(q, r)
    BY <1>3, Zenon DEF Users
  <2> QED
    BY <1>4, <1>5, <2>1 DEF SlotsAreGivenBack
<1>8. NoForgottenWaiter'
  BY <1>3, <1>4 DEF NoForgottenWaiter
<1>9. OpenConnectionsAreOwned'
  <2> SUFFICES ASSUME NEW d \in open, d \notin Cached(pool)
               PROVE  \/ \E q \in Pool : ~closed'[q] /\ d \in Cached(q)'
                      \/ \E u \in Thread : pc'[u] = "install" /\ job[u].conn = d
    BY <1>1 DEF OpenConnectionsAreOwned
  <2>1. ASSUME NEW q \in Pool, ~closed[q], d \in Cached(q)
        PROVE  ~closed'[q] /\ d \in Cached(q)'
    <3>1. q # pool
      BY <2>1
    <3> QED
      BY <1>4, <2>1, <3>1 DEF Cached
  <2>2. ASSUME NEW u \in Thread, pc[u] = "install", job[u].conn = d
        PROVE  pc'[u] = "install"
    BY <1>3, <2>2
  <2> QED
    BY <2>1, <2>2 DEF OpenConnectionsAreOwned
<1> QED
  BY <1>6, <1>7, <1>8, <1>9

LEMMA InductiveStep == IInv /\ [Next]_vars => IInv'
<1> SUFFICES ASSUME IInv, [Next]_vars PROVE IInv'
  OBVIOUS
<1>type. TypeOK /\ TypeOK'
  BY TypeInduction DEF IInv
<1>leaves. ASSUME NEW t \in Thread, NEW step, Leaves(t, step)
           PROVE  job'[t].conn = None /\ \A u \in Thread \ {t} : job'[u] = job[u]
  BY <1>type, <1>leaves, LeavesType
<1>quiet. ASSUME NEW t \in Thread, NEW step, Goto(t, step), ~Claimed(t),
                 step \notin {"wait", "connect", "install", "use"},
                 \A u \in Thread \ {t} : job'[u] = job[u],
                 job'[t].conn = job[t].conn \/ job'[t].conn = None,
                 UNCHANGED <<closed, conns, busy, open>>
          PROVE  IInv'
  <2>1. pc'[t] = step /\ \A u \in Thread \ {t} : pc'[u] = pc[u]
    BY <1>quiet, <1>type DEF Goto, TypeOK
  <2>2. job'[t].conn = None
    BY <1>quiet DEF IInv, Lent, ConnIsHeldOnce
  <2> QED
    BY <1>quiet, <1>type, <2>1, <2>2, QuietStep DEF Others, Claimed
<1>1. ASSUME NEW t \in Thread, Call(t) PROVE IInv'
  <2>1. job'[t].conn = None /\ \A u \in Thread \ {t} : job'[u] = job[u]
    BY <1>1, <1>type DEF Call, NoJob, TypeOK
  <2> QED
    BY <1>1, <1>quiet, <2>1 DEF Call, Claimed
<1>2. ASSUME NEW t \in Thread, SeeClosed(t) PROVE IInv'
  <2>1. AfterLoss(t) \in {"idle", "reconnect"}
    BY DEF AfterLoss
  <2> QED
    BY <1>2, <1>quiet, <1>leaves, <2>1 DEF SeeClosed, Claimed
<1>3. ASSUME NEW t \in Thread, Claim(t) PROVE IInv'
  BY <1>3, <1>type, ClaimStep
<1>4. ASSUME NEW t \in Thread, GiveUp(t) PROVE IInv'
  BY <1>4, <1>quiet, <1>leaves DEF GiveUp, Claimed
<1>5. ASSUME NEW t \in Thread, Wait(t) PROVE IInv'
  <2>1. /\ pc[t] = "acquire" /\ pc'[t] = "wait" /\ job' = job
        /\ \A u \in Thread \ {t} : pc'[u] = pc[u]
    BY <1>5, <1>type DEF Wait, Goto, TypeOK
  <2>2. job[t].conn = None
    BY <2>1 DEF IInv, Lent, ConnIsHeldOnce, Claimed
  <2>3. ~closed[job[t].p] /\ busy[job[t].p] = Slot
    BY <1>5, <1>type DEF Wait, FreeSlots, TypeOK
  <2> QED
    BY <1>5, <1>type, <2>1, <2>2, <2>3, QuietStep DEF Wait, Others, Claimed
<1>6. ASSUME NEW t \in Thread, TimeOut(t) PROVE IInv'
  <2>1. job[t] \in Job
    BY <1>type DEF TypeOK
  <2>2. [job[t] EXCEPT !.late = TRUE].conn = job[t].conn
    BY <2>1 DEF Job
  <2>3. job'[t].conn = job[t].conn /\ \A u \in Thread \ {t} : job'[u] = job[u]
    BY <1>6, <1>type, <2>2 DEF TimeOut, TypeOK
  <2> QED
    BY <1>6, <1>quiet, <2>3 DEF TimeOut, Claimed
<1>7. ASSUME NEW t \in Thread, Establish(t) PROVE IInv'
  BY <1>7, <1>type, EstablishStep
<1>giveback. ASSUME NEW t \in Thread, NEW step, step \in {"idle", "acquire", "reconnect"},
                    Claimed(t), Free(t), GotoAndNotify(t, step),
                    job'[t].conn = None, \A u \in Thread \ {t} : job'[u] = job[u],
                    \/ pc[t] # "install" /\ UNCHANGED open
                    \/ open' = open \ {job[t].conn},
                    UNCHANGED <<closed, conns>>
             PROVE  IInv'
  <2>1. pc'[t] = step
    BY <1>giveback DEF GotoAndNotify
  <2>2. ~Claimed(t)'
    BY <1>giveback, <2>1 DEF Claimed
  <2> QED
    BY <1>giveback, <1>type, <2>2, GiveBackStep
<1>loss. \A t \in Thread : AfterLoss(t) \in {"idle", "reconnect"}
  BY DEF AfterLoss
<1>8. ASSUME NEW t \in Thread, ConnectFails(t) PROVE IInv'
  <2>1. PICK step \in {"idle", AfterLoss(t)} : GotoAndNotify(t, step) /\ Leaves(t, step)
    BY <1>8 DEF ConnectFails
  <2> QED
    BY <1>8, <1>giveback, <1>leaves, <1>loss, <2>1 DEF ConnectFails, Claimed
<1>9. ASSUME NEW t \in Thread, Install(t) PROVE IInv'
  <2>1. CASE closed[job[t].p]
    BY <1>9, <1>giveback, <1>leaves, <1>loss, <2>1 DEF Install, Claimed
  <2>2. CASE ~closed[job[t].p]
    BY <1>9, <1>type, <2>2, InstallStep
  <2> QED
    BY <2>1, <2>2
<1>10. ASSUME NEW t \in Thread, Finish(t) PROVE IInv'
  <2>1. Claimed(t) /\ Free(t) /\ pc[t] # "install" /\ UNCHANGED <<closed, conns, open>>
    BY <1>10 DEF Finish, Claimed
  <2>2. CASE Leaves(t, "idle") /\ GotoAndNotify(t, "idle")
    BY <1>giveback, <1>leaves, <2>1, <2>2
  <2>3. CASE Leaves(t, AfterLoss(t)) /\ GotoAndNotify(t, AfterLoss(t))
    BY <1>giveback, <1>leaves, <1>loss, <2>1, <2>3
  <2>4. CASE GotoAndNotify(t, "acquire")
             /\ job' = [job EXCEPT ![t] = [NoJob EXCEPT !.p = job[t].p]]
    <3>1. [NoJob EXCEPT !.p = job[t].p].conn = None
      BY DEF NoJob
    <3>2. job'[t].conn = None /\ \A u \in Thread \ {t} : job'[u] = job[u]
      BY <1>type, <2>4, <3>1 DEF TypeOK
    <3> QED
      BY <1>giveback, <2>1, <2>4, <3>2
  <2> QED
    BY <1>10, <2>2, <2>3, <2>4 DEF Finish
<1>11. ASSUME NEW t \in Thread, SeePool(t) PROVE IInv'
  BY <1>11, <1>quiet DEF SeePool, Claimed
<1>12. ASSUME NEW t \in Thread, CloseAll(t) PROVE IInv'
  <2>1. \A u \in Thread : pc'[u] # Woken(u, pool) => u = t /\ pc'[u] = "drop"
    BY <1>12 DEF CloseAll
  <2> QED
    BY <1>12, <1>type, <2>1, ClosePoolStep DEF CloseAll, Claimed
<1>13. ASSUME NEW t \in Thread, CloseNothing(t) PROVE IInv'
  BY <1>13, <1>quiet, <1>leaves DEF CloseNothing, Claimed
<1>14. ASSUME NEW t \in Thread, Drop(t) PROVE IInv'
  BY <1>14, <1>quiet DEF Drop, Claimed
<1>15. ASSUME NEW t \in Thread, CloseMain(t) PROVE IInv'
  BY <1>15, <1>quiet DEF CloseMain, Claimed
<1>16. ASSUME NEW t \in Thread, Dial(t) PROVE IInv'
  <2>1. CASE Goto(t, "pool") /\ UNCHANGED job
    BY <1>16, <1>quiet, <2>1 DEF Dial, Claimed
  <2>2. CASE Goto(t, "idle") /\ Leaves(t, "idle")
    BY <1>16, <1>quiet, <1>leaves, <2>2 DEF Dial, Claimed
  <2> QED
    BY <1>16, <2>1, <2>2 DEF Dial
<1>17. ASSUME NEW t \in Thread, NewPool(t) PROVE IInv'
  <2>1. CASE OpenPool /\ Goto(t, "retry") /\ UNCHANGED job
    <3>1. \A u \in Thread : pc'[u] # pc[u] => u = t /\ pc'[u] = "retry"
      BY <1>type, <2>1 DEF Goto, TypeOK
    <3> QED
      BY <1>17, <1>type, <2>1, <3>1, OpenPoolStep DEF NewPool, Claimed
  <2>2. CASE Goto(t, "idle") /\ Leaves(t, "idle")
             /\ UNCHANGED <<pool, closed, conns, busy, open>>
    BY <1>17, <1>quiet, <1>leaves, <2>2 DEF NewPool, Claimed
  <2> QED
    BY <1>17, <2>1, <2>2 DEF NewPool
<1>18. ASSUME NEW t \in Thread, Retry(t) PROVE IInv'
  <2>1. CASE Goto(t, "idle") /\ Leaves(t, "idle")
    BY <1>18, <1>quiet, <1>leaves, <2>1 DEF Retry, Claimed
  <2>2. ASSUME NEW p,
               job' = [job EXCEPT ![t] = [@ EXCEPT !.p = p, !.retried = TRUE]],
               Goto(t, "acquire")
        PROVE  IInv'
    <3>1. job[t] \in Job
      BY <1>type DEF TypeOK
    <3>2. [job[t] EXCEPT !.p = p, !.retried = TRUE].conn = job[t].conn
      BY <3>1 DEF Job
    <3>3. job'[t].conn = job[t].conn /\ \A u \in Thread \ {t} : job'[u] = job[u]
      BY <1>type, <2>2, <3>2 DEF TypeOK
    <3> QED
      BY <1>18, <1>quiet, <2>2, <3>3 DEF Retry, Claimed
  <2> QED
    BY <1>18, <2>1, <2>2 DEF Retry
<1>19. CASE LoseConnections
  <2>1. open' \in SUBSET open /\ UNCHANGED <<pool, main, closed, conns, busy, pc, job>>
    BY <1>19 DEF LoseConnections
  <2> QED
    BY <1>type, <2>1 DEF IInv, Lent, SlotHasOneUser, ConnIsHeldOnce, ConnIsCachedOnce,
       HeldIsCachedHere, SlotsAreGivenBack, NoForgottenWaiter, OpenConnectionsAreOwned,
       Users, Claimed, Cached
<1>20. CASE Disconnect
  <2>1. \A u \in Thread : pc'[u] = Woken(u, pool)
    BY <1>20 DEF Disconnect
  <2> QED
    BY <1>20, <1>type, <2>1, ClosePoolStep DEF Disconnect
<1>21. CASE Connect
  BY <1>21, <1>type, OpenPoolStep DEF Connect
<1>22. CASE UNCHANGED vars
  BY <1>type, <1>22 DEF vars, IInv, Lent, SlotHasOneUser, ConnIsHeldOnce, ConnIsCachedOnce,
     HeldIsCachedHere, SlotsAreGivenBack, NoForgottenWaiter, OpenConnectionsAreOwned,
     Users, Claimed, Cached
<1> QED
  BY <1>1, <1>2, <1>3, <1>4, <1>5, <1>6, <1>7, <1>8, <1>9, <1>10, <1>11, <1>12,
     <1>13, <1>14, <1>15, <1>16, <1>17, <1>18, <1>19, <1>20, <1>21, <1>22
     DEF Next, Step, Acquire, Lend, Reconnect

LEMMA Inductive == Spec => []IInv
<1>1. Init => IInv
  <2>1. Init => TypeOK
    BY SomeMember, NoJobType DEF Init, TypeOK, Steps, Claimed
  <2> QED
    BY <2>1, NoJobType DEF Init, IInv, Lent, SlotHasOneUser, ConnIsHeldOnce,
       ConnIsCachedOnce, HeldIsCachedHere, SlotsAreGivenBack, NoForgottenWaiter,
       OpenConnectionsAreOwned, Users, Claimed
<1> QED
  BY <1>1, InductiveStep, PTL DEF Spec

(* No connection has two users: the claim of a slot under the lock of the  *)
(* pool is enough, although connect and the statement run outside it.      *)
THEOREM OneUser == Spec => []ConnectionHasOneUser
<1>1. IInv => ConnectionHasOneUser
  BY DEF IInv, TypeOK, Lent, ConnIsHeldOnce, ConnectionHasOneUser
<1> QED
  BY <1>1, Inductive, PTL

(* Every way out of a call gives its slot back.                            *)
THEOREM SlotsComeBack == Spec => []SlotsAreGivenBack
<1>1. IInv => SlotsAreGivenBack
  BY DEF IInv
<1> QED
  BY <1>1, Inductive, PTL

(* No wakeup is lost: a thread waits only while all slots are taken.       *)
THEOREM WaitersAreWoken == Spec => []NoForgottenWaiter
<1>1. IInv => NoForgottenWaiter
  BY DEF IInv
<1> QED
  BY <1>1, Inductive, PTL

(* No working connection escapes: a pool that is not closed has it, or a   *)
(* call that will look whether the pool was closed meanwhile.              *)
THEOREM ConnectionsAreOwned == Spec => []OpenConnectionsAreOwned
<1>1. IInv => OpenConnectionsAreOwned
  BY DEF IInv
<1> QED
  BY <1>1, Inductive, PTL
-----------------------------------------------------------------------------
(* The pool implements Lending: the user of a slot is the call that has    *)
(* claimed it.  Sections outside the lock change nothing the promise sees. *)
lent == [p \in Pool |-> [s \in Slot |-> UserOf(p, s)]]

LEMMA SameUsers ==
  ASSUME NEW p \in Pool, NEW s \in Slot, Users(p, s)' = Users(p, s)
  PROVE  UserOf(p, s)' = UserOf(p, s)
  BY DEF UserOf

LEMMA TheUser ==
  ASSUME NEW t \in Thread, NEW p, NEW s, Users(p, s) = {t}
  PROVE  UserOf(p, s) = t
  BY DEF UserOf

(* Steps that move no thread in or out of a slot *)
LEMMA UnseenStep ==
  ASSUME \A u \in Thread : Claimed(u)' <=> Claimed(u),
         \A u \in Thread : Claimed(u) => job'[u].p = job[u].p /\ job'[u].slot = job[u].slot
  PROVE  lent' = lent
<1>1. ASSUME NEW p \in Pool, NEW s \in Slot PROVE UserOf(p, s)' = UserOf(p, s)
  <2>1. Users(p, s)' = Users(p, s)
    BY DEF Users
  <2> QED
    BY <2>1, SameUsers
<1> QED
  BY <1>1 DEF lent

(* A call leaves the slot it has: the abstract Return. *)
LEMMA LeavingReturns ==
  ASSUME IInv, NEW t \in Thread, Claimed(t), ~Claimed(t)', UNCHANGED closed,
         \A u \in Thread \ {t} : (Claimed(u)' <=> Claimed(u)) /\ job'[u] = job[u]
  PROVE  \E q \in Pool, r \in Slot : Promise!Return(q, r)
<1>1. PICK q \in Pool, r \in Slot : q = job[t].p /\ r = job[t].slot
  BY DEF IInv, TypeOK
<1>2. Users(q, r) = {t}
  BY <1>1 DEF Users, IInv, Lent, SlotHasOneUser
<1>3. Users(q, r)' = {}
  <2> SUFFICES ASSUME NEW u \in Thread, Claimed(u)', job'[u].p = q, job'[u].slot = r
               PROVE  FALSE
    BY DEF Users
  <2>1. u # t /\ Claimed(u) /\ job'[u] = job[u]
    OBVIOUS
  <2> QED
    BY <1>1, <1>2, <2>1 DEF Users
<1>4. UserOf(q, r) = t /\ UserOf(q, r)' = None /\ t # None
  BY <1>1, <1>2, <1>3, TheUser, NoneIsNothing DEF UserOf
<1>5. ASSUME NEW p \in Pool, NEW s \in Slot, ~(p = q /\ s = r)
      PROVE  UserOf(p, s)' = UserOf(p, s)
  <2>1. Users(p, s)' = Users(p, s)
    <3>1. t \notin Users(p, s) /\ t \notin Users(p, s)'
      BY <1>1, <1>5 DEF Users
    <3>2. \A u \in Thread \ {t} : u \in Users(p, s)' <=> u \in Users(p, s)
      BY DEF Users
    <3> QED
      BY <3>1, <3>2 DEF Users
  <2> QED
    BY <2>1, SameUsers
<1>6. lent' = [lent EXCEPT ![q][r] = None]
  <2>1. \A p \in Pool, s \in Slot :
          UserOf(p, s)' = IF p = q /\ s = r THEN None ELSE UserOf(p, s)
    BY <1>4, <1>5
  <2>2. q \in Pool /\ r \in Slot
    BY <1>1
  <2> QED
    BY <2>1, <2>2 DEF lent
<1> QED
  BY <1>1, <1>4, <1>6 DEF Promise!Return, lent

(* A claim under the lock: the abstract Lend. *)
LEMMA ClaimLends ==
  ASSUME IInv, NEW t \in Thread, Claim(t)
  PROVE  Promise!Next
<1> USE DEF IInv, TypeOK
<1> PICK q \in Pool : q = job[t].p
  BY DEF Claim
<1>1. PICK r \in FreeSlots(q) :
        /\ job' = [job EXCEPT ![t] = [@ EXCEPT !.slot = r, !.late = FALSE, !.conn = conns[q][r]]]
        /\ busy' = [busy EXCEPT ![q] = @ \cup {r}]
  BY DEF Claim
<1>2. q \in Pool /\ r \in Slot /\ r \notin busy[q] /\ ~closed[q]
  BY <1>1 DEF Claim, FreeSlots
<1>3. pc' = [pc EXCEPT ![t] = "connect"] /\ UNCHANGED closed /\ ~Claimed(t) /\ Claimed(t)'
  BY DEF Claim, Goto, Claimed
<1>4. job'[t].p = q /\ job'[t].slot = r /\ \A u \in Thread \ {t} : job'[u] = job[u]
  BY <1>1 DEF Job
<1>5. Users(q, r) = {}
  BY <1>2 DEF SlotsAreGivenBack
<1>6. \A p \in Pool, s \in Slot :
        Users(p, s)' = IF p = q /\ s = r THEN Users(p, s) \cup {t} ELSE Users(p, s)
  BY <1>3, <1>4 DEF Users, Claimed
<1>7. UserOf(q, r) = None /\ UserOf(q, r)' = t
  <2>1. Users(q, r)' = {t}
    BY <1>2, <1>5, <1>6
  <2>2. (CHOOSE u \in Thread : u \in {t}) = t
    OBVIOUS
  <2> QED
    BY <1>5, <2>1, <2>2 DEF UserOf
<1>8. ASSUME NEW p \in Pool, NEW s \in Slot, ~(p = q /\ s = r)
      PROVE  UserOf(p, s)' = UserOf(p, s)
  <2>1. Users(p, s)' = Users(p, s)
    BY <1>6, <1>8
  <2> QED
    BY <2>1, SameUsers
<1>9. lent' = [lent EXCEPT ![q][r] = t]
  <2>1. \A p \in Pool, s \in Slot :
          UserOf(p, s)' = IF p = q /\ s = r THEN t ELSE UserOf(p, s)
    BY <1>7, <1>8
  <2>2. [lent EXCEPT ![q][r] = t] =
          [p \in Pool |-> [s \in Slot |-> IF p = q /\ s = r THEN t ELSE UserOf(p, s)]]
    BY <1>2 DEF lent
  <2> QED
    BY <2>1, <2>2 DEF lent
<1>10. Promise!Lend(q, r, t)
  BY <1>2, <1>3, <1>7, <1>9 DEF Promise!Lend, lent
<1> QED
  BY <1>2, <1>10 DEF Promise!Next

(* A pool is made anew only when no call refers to the old one. *)
LEMMA OpenPoolRenews ==
  ASSUME IInv, OpenPool, lent' = lent
  PROVE  Promise!Next
<1>1. pool' \in FreePools /\ pool' \in Pool /\ closed' = [closed EXCEPT ![pool'] = FALSE]
  BY SomeMember DEF OpenPool, FreePools
<1>2. \A s \in Slot : UserOf(pool', s) = None
  BY <1>1 DEF FreePools, UserOf, Users
<1>3. Promise!Renew(pool')
  BY <1>1, <1>2 DEF Promise!Renew, lent
<1> QED
  BY <1>1, <1>3 DEF Promise!Next

LEMMA ClosePoolCloses ==
  ASSUME IInv, pool # None, ClosePool, lent' = lent
  PROVE  Promise!Next
<1>1. pool \in Pool
  BY DEF IInv, TypeOK
<1> QED
  BY <1>1 DEF Promise!Next, Promise!Close, ClosePool, lent

(* Every step of the pool lends a slot, gets one back, closes or renews a  *)
(* pool, or is not seen at all.                                            *)
LEMMA StepImplements == IInv /\ [Next]_vars => [Promise!Next]_<<lent, closed>>
<1> SUFFICES ASSUME IInv, [Next]_vars PROVE [Promise!Next]_<<lent, closed>>
  OBVIOUS
<1> USE DEF IInv, TypeOK, Claimed
<1>1. ASSUME NEW t \in Thread, Call(t) \/ Acquire(t)
      PROVE  [Promise!Next]_<<lent, closed>>
  <2>1. CASE Claim(t)
    BY <2>1, ClaimLends
  <2>2. CASE Call(t) \/ SeeClosed(t) \/ GiveUp(t) \/ Wait(t) \/ TimeOut(t)
    <3>1. UNCHANGED closed /\ ~Claimed(t) /\ ~Claimed(t)'
      BY <2>2 DEF Call, SeeClosed, GiveUp, Wait, TimeOut, Goto, AfterLoss
    <3>2. \A u \in Thread \ {t} : pc'[u] = pc[u] /\ job'[u] = job[u]
      BY <2>2 DEF Call, SeeClosed, GiveUp, Wait, TimeOut, Goto, Leaves
    <3> QED
      BY <3>1, <3>2, UnseenStep
  <2> QED
    BY <1>1, <2>1, <2>2 DEF Acquire
<1>2. ASSUME NEW t \in Thread, Lend(t)
      PROVE  [Promise!Next]_<<lent, closed>>
  <2>woken. ASSUME NEW step, GotoAndNotify(t, step), step \in {"idle", "reconnect", "acquire"},
                   Leaves(t, step) \/ job' = [job EXCEPT ![t] = [NoJob EXCEPT !.p = job[t].p]],
                   Claimed(t), UNCHANGED closed
            PROVE  [Promise!Next]_<<lent, closed>>
    <3>1. ~Claimed(t)' /\ \A u \in Thread \ {t} : (Claimed(u)' <=> Claimed(u)) /\ job'[u] = job[u]
      BY <2>woken DEF GotoAndNotify, Woken, Leaves
    <3> QED
      BY <2>woken, <3>1, LeavingReturns DEF Promise!Next
  <2>1. CASE Establish(t)
    <3>1. UNCHANGED closed /\ Claimed(t) /\ Claimed(t)'
      BY <2>1 DEF Establish, Goto
    <3>2. \A u \in Thread : job'[u].p = job[u].p /\ job'[u].slot = job[u].slot
      BY <2>1 DEF Establish, Job
    <3>3. \A u \in Thread \ {t} : pc'[u] = pc[u]
      BY <2>1 DEF Establish, Goto
    <3> QED
      BY <3>1, <3>2, <3>3, UnseenStep
  <2>2. CASE ConnectFails(t)
    BY <2>2, <2>woken DEF ConnectFails, AfterLoss
  <2>3. CASE Install(t)
    <3>1. CASE closed[job[t].p]
      BY <2>3, <3>1, <2>woken DEF Install, AfterLoss
    <3>2. CASE ~closed[job[t].p]
      <4>1. UNCHANGED <<closed, job>> /\ pc' = [pc EXCEPT ![t] = "use"] /\ pc[t] = "install"
        BY <2>3, <3>2 DEF Install, Goto
      <4>2. \A u \in Thread : Claimed(u)' <=> Claimed(u)
        BY <4>1
      <4> QED
        BY <4>1, <4>2, UnseenStep
    <3> QED
      BY <3>1, <3>2
  <2>4. CASE Finish(t)
    BY <2>4, <2>woken DEF Finish, AfterLoss
  <2> QED
    BY <1>2, <2>1, <2>2, <2>3, <2>4 DEF Lend
<1>3. ASSUME NEW t \in Thread, Reconnect(t)
      PROVE  [Promise!Next]_<<lent, closed>>
  <2>1. \A u \in Thread : Claimed(u)' <=> Claimed(u)
    BY <1>3 DEF Reconnect, SeePool, CloseAll, CloseNothing, Drop, CloseMain, Dial, NewPool,
       Retry, Goto, Woken
  <2>2. \A u \in Thread : Claimed(u) => job'[u] = job[u]
    BY <1>3 DEF Reconnect, SeePool, CloseAll, CloseNothing, Drop, CloseMain, Dial, NewPool,
       Retry, Leaves
  <2>3. lent' = lent
    BY <2>1, <2>2, UnseenStep
  <2>4. CASE CloseAll(t)
    BY <2>3, <2>4, ClosePoolCloses DEF CloseAll
  <2>5. CASE NewPool(t)
    BY <2>3, <2>5, OpenPoolRenews DEF NewPool
  <2>6. CASE SeePool(t) \/ CloseNothing(t) \/ Drop(t) \/ CloseMain(t) \/ Dial(t) \/ Retry(t)
    BY <2>3, <2>6 DEF SeePool, CloseNothing, Drop, CloseMain, Dial, Retry
  <2> QED
    BY <1>3, <2>4, <2>5, <2>6 DEF Reconnect
<1>4. CASE LoseConnections \/ UNCHANGED vars
  BY <1>4, UnseenStep DEF LoseConnections, vars
<1>5. CASE Disconnect
  <2>1. \A u \in Thread : (Claimed(u)' <=> Claimed(u)) /\ job'[u] = job[u]
    BY <1>5 DEF Disconnect, Woken
  <2> QED
    BY <1>5, <2>1, UnseenStep, ClosePoolCloses DEF Disconnect
<1>6. CASE Connect
  <2>1. lent' = lent
    BY <1>6, UnseenStep DEF Connect
  <2> QED
    BY <1>6, <2>1, OpenPoolRenews DEF Connect
<1> QED
  BY <1>1, <1>2, <1>3, <1>4, <1>5, <1>6 DEF Next, Step

(* The pool keeps the promise of Lending, through timeouts, reconnects and *)
(* disconnects: no slot is lent twice, none while its pool is closed.      *)
THEOREM SlotsAreLentProperly == Spec => SlotsAreLent
<1>1. Init => Promise!Init
  BY DEF Init, Promise!Init, UserOf, Users, Claimed
<1>2. IInv /\ [Next]_vars => [Promise!Next]_<<[p \in Pool |-> [s \in Slot |-> UserOf(p, s)]], closed>>
  BY StepImplements DEF lent
<1> QED
  BY <1>1, <1>2, Inductive, PTL DEF Spec, SlotsAreLent, Promise!Spec
=============================================================================
