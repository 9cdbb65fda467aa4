--------------------------- MODULE ConnectionPool ---------------------------
(***************************************************************************)
(* One lane of PostgreSQLConnectionPool (drivers/postgres_connection_pool  *)
(* .py) and the driver that reopens it (drivers/postgres.py): threads call *)
(* execute, which keeps the pool it began with, or select, which looks the *)
(* pool up again after a reconnect.                                        *)
(*                                                                         *)
(* A section under the pool's condition variable is one action; psycopg's  *)
(* connect and the statement itself run outside it.  close_all replaces    *)
(* the lists of the pool; a call inside it goes on with the lists it had,  *)
(* of which it only uses its own slot: job.conn is what it found there.    *)
(***************************************************************************)
EXTENDS Integers, FiniteSets

CONSTANTS Thread, None,
          Conn,       \* connection objects; one is free again when unreferenced
          Pool,       \* pool objects, likewise
          Size,       \* slots of the lane
          MaxFaults   \* lost connections, failed connects, deadlocks, disconnects

Slot == 1..Size

ASSUME NoneIsNothing == None \notin Thread \cup Conn \cup Pool \cup Slot
ASSUME SizeIsPositive == Size \in Nat \ {0}
ASSUME FaultsAreNat == MaxFaults \in Nat
ASSUME FirstPool == Pool # {}

VARIABLES
  pool,    \* PostgreSQLDriver._pool, or None
  main,    \* PostgreSQLDriver.conn is set
  closed,  \* _closed of each pool
  conns,   \* the connection cached in each slot, or None
  busy,    \* the slots that are claimed
  open,    \* connections that work: neither closed here nor lost
  pc, job, \* what each thread does
  faults

vars == <<pool, main, closed, conns, busy, open, pc, job, faults>>

Steps == {"idle", "acquire", "wait", "connect", "install", "use",
          "reconnect", "close", "drop", "main", "dial", "pool", "retry"}

(* p: the pool the call acquires from; again: it looks the pool up again   *)
(* to retry (select); late: its deadline has passed; retried: after a      *)
(* reconnect.                                                              *)
Job == [p : Pool \cup {None}, slot : Slot \cup {None}, conn : Conn \cup {None},
        again : BOOLEAN, late : BOOLEAN, retried : BOOLEAN]

NoJob == [p |-> None, slot |-> None, conn |-> None,
          again |-> FALSE, late |-> FALSE, retried |-> FALSE]

Some(objects) == CHOOSE x \in objects : TRUE   \* which one does not matter

Claimed(t) == pc[t] \in {"connect", "install", "use"}

TypeOK ==
  /\ pool \in Pool \cup {None} /\ main \in BOOLEAN
  /\ closed \in [Pool -> BOOLEAN]
  /\ conns \in [Pool -> [Slot -> Conn \cup {None}]]
  /\ busy \in [Pool -> SUBSET Slot]
  /\ open \in SUBSET Conn
  /\ pc \in [Thread -> Steps] /\ job \in [Thread -> Job]
  /\ faults \in 0..MaxFaults
  /\ \A t \in Thread :
       /\ pc[t] \in {"acquire", "wait"} \/ Claimed(t) => job[t].p \in Pool
       /\ Claimed(t) => job[t].slot \in Slot
       /\ pc[t] \in {"install", "use"} => job[t].conn \in Conn

Init ==
  /\ pool = Some(Pool) /\ main = TRUE
  /\ closed = [p \in Pool |-> FALSE]
  /\ conns = [p \in Pool |-> [s \in Slot |-> None]]
  /\ busy = [p \in Pool |-> {}]
  /\ open = {}
  /\ pc = [t \in Thread |-> "idle"]
  /\ job = [t \in Thread |-> NoJob]
  /\ faults = 0

-----------------------------------------------------------------------------
Cached(p) == {conns[p][s] : s \in Slot} \ {None}

(* What no variable of the program refers to any more can be made anew. *)
FreeConns ==
  {c \in Conn : c \notin open /\ (\A p \in Pool : c \notin Cached(p))
                              /\ (\A t \in Thread : job[t].conn # c)}
FreePools == {p \in Pool : p # pool /\ \A t \in Thread : job[t].p # p}

Fault == faults < MaxFaults /\ faults' = faults + 1

Goto(t, step) == pc' = [pc EXCEPT ![t] = step]

(* self._pool = PostgreSQLConnectionPool(...): no connection is made yet.  *)
OpenPool ==
  LET p == Some(FreePools)
  IN  /\ FreePools # {}
      /\ pool' = p
      /\ open' = open \ Cached(p)     \* of a pool that was dropped unclosed
      /\ closed' = [closed EXCEPT ![p] = FALSE]
      /\ conns' = [conns EXCEPT ![p] = [s \in Slot |-> None]]
      /\ busy' = [busy EXCEPT ![p] = {}]

(* close_all closes the connections in use as well, and wakes the waiters. *)
ClosePool ==
  /\ closed' = [closed EXCEPT ![pool] = TRUE]
  /\ open' = open \ Cached(pool)
  /\ conns' = [conns EXCEPT ![pool] = [s \in Slot |-> None]]
  /\ busy' = [busy EXCEPT ![pool] = {}]

Woken(u, p) == IF pc[u] = "wait" /\ job[u].p = p THEN "acquire" ELSE pc[u]

(* The same, and self._cond.notify_all() on the pool of t *)
GotoAndNotify(t, step) ==
  pc' = [u \in Thread |-> IF u = t THEN step ELSE Woken(u, job[t].p)]

(* The call leaves the pool: it returns, raises, or tries once more; only  *)
(* execute keeps its reference to the pool.                                *)
Leaves(t, step) ==
  job' = [job EXCEPT ![t] =
            IF step = "idle" THEN NoJob
            ELSE [NoJob EXCEPT !.p = IF job[t].again THEN None ELSE job[t].p,
                               !.again = job[t].again]]

(* An error that _is_connection_lost_error recognises, "PostgreSQL         *)
(* connection pool is closed" among them: reconnect and retry, once.       *)
AfterLoss(t) ==
  IF job[t].retried \/ (~main /\ ~job[t].again) THEN "idle" ELSE "reconnect"

FreeSlots(p) == Slot \ busy[p]

(* busy[idx] = False, in the list that the call holds: after close_all it  *)
(* is no longer the list of the pool.                                      *)
Free(t) ==
  busy' = IF closed[job[t].p] THEN busy
          ELSE [busy EXCEPT ![job[t].p] = @ \ {job[t].slot}]

-----------------------------------------------------------------------------
(* execute, execute_batch (again = FALSE) or select (again = TRUE).        *)
Call(t) ==
  /\ pc[t] = "idle"
  /\ pool # None
  /\ \E again \in BOOLEAN :
       /\ main \/ again
       /\ job' = [job EXCEPT ![t] = [NoJob EXCEPT !.p = pool, !.again = again]]
  /\ Goto(t, "acquire")
  /\ UNCHANGED <<pool, main, closed, conns, busy, open, faults>>

(* One turn of acquire's loop: the pool is closed; a slot is free; none    *)
(* is, and the deadline has passed or the thread waits.                    *)
SeeClosed(t) ==
  /\ pc[t] = "acquire"
  /\ closed[job[t].p]
  /\ Goto(t, AfterLoss(t)) /\ Leaves(t, AfterLoss(t))
  /\ UNCHANGED <<pool, main, closed, conns, busy, open, faults>>

(* Plausible slips: a thread that was notified does not look whether the   *)
(* pool was closed; the slot is marked only when its connection is there.  *)
ClaimClosed(t) ==
  /\ pc[t] = "acquire"
  /\ \E s \in FreeSlots(job[t].p) :
       /\ \A r \in FreeSlots(job[t].p) : s <= r
       /\ job' = [job EXCEPT ![t] = [@ EXCEPT !.slot = s, !.late = FALSE,
                                              !.conn = conns[job[t].p][s]]]
       /\ busy' = [busy EXCEPT ![job[t].p] = @ \cup {s}]
  /\ Goto(t, "connect")
  /\ UNCHANGED <<pool, main, closed, conns, open, faults>>

ClaimUnmarked(t) ==
  /\ pc[t] = "acquire"
  /\ ~closed[job[t].p]
  /\ \E s \in FreeSlots(job[t].p) :
       /\ \A r \in FreeSlots(job[t].p) : s <= r
       /\ job' = [job EXCEPT ![t] = [@ EXCEPT !.slot = s, !.late = FALSE,
                                              !.conn = conns[job[t].p][s]]]
  /\ Goto(t, "connect")
  /\ UNCHANGED <<pool, main, closed, conns, busy, open, faults>>

Claim(t) ==
  /\ pc[t] = "acquire"
  /\ ~closed[job[t].p]
  /\ \E s \in FreeSlots(job[t].p) :
       /\ \A r \in FreeSlots(job[t].p) : s <= r
       /\ job' = [job EXCEPT ![t] = [@ EXCEPT !.slot = s, !.late = FALSE,
                                              !.conn = conns[job[t].p][s]]]
       /\ busy' = [busy EXCEPT ![job[t].p] = @ \cup {s}]
  /\ Goto(t, "connect")
  /\ UNCHANGED <<pool, main, closed, conns, open, faults>>

GiveUp(t) ==
  /\ pc[t] = "acquire"
  /\ ~closed[job[t].p] /\ FreeSlots(job[t].p) = {}
  /\ job[t].late
  /\ Goto(t, "idle") /\ Leaves(t, "idle")
  /\ UNCHANGED <<pool, main, closed, conns, busy, open, faults>>

(* A plausible slip: the whole timeout anew in each turn of the loop. *)
WaitAnew(t) ==
  /\ pc[t] = "acquire"
  /\ ~closed[job[t].p] /\ FreeSlots(job[t].p) = {}
  /\ Goto(t, "wait")
  /\ job' = [job EXCEPT ![t].late = FALSE]
  /\ UNCHANGED <<pool, main, closed, conns, busy, open, faults>>

Wait(t) ==
  /\ pc[t] = "acquire"
  /\ ~closed[job[t].p] /\ FreeSlots(job[t].p) = {}
  /\ ~job[t].late
  /\ Goto(t, "wait")
  /\ UNCHANGED <<pool, main, closed, conns, busy, open, job, faults>>

(* The deadline passes, in cond.wait(timeout=remaining) or before it. *)
TimeOut(t) ==
  /\ pc[t] \in {"acquire", "wait"}
  /\ ~job[t].late
  /\ Goto(t, "acquire")
  /\ job' = [job EXCEPT ![t].late = TRUE]
  /\ UNCHANGED <<pool, main, closed, conns, busy, open, faults>>

-----------------------------------------------------------------------------
(* _establish_slot: the cached connection, or a new one *)
Establish(t) ==
  /\ pc[t] = "connect"
  /\ \/ job[t].conn # None /\ UNCHANGED <<job, open>>
     \/ /\ job[t].conn = None
        /\ FreeConns # {}
        /\ job' = [job EXCEPT ![t].conn = Some(FreeConns)]
        /\ open' = open \cup {Some(FreeConns)}
  /\ Goto(t, "install")
  /\ UNCHANGED <<pool, main, closed, conns, busy, faults>>

(* A plausible slip: the slot is given back, but nobody is told.           *)
ConnectFailsQuietly(t) ==
  /\ pc[t] = "connect"
  /\ job[t].conn = None
  /\ Fault /\ Free(t)
  /\ \E step \in {"idle", AfterLoss(t)} : Goto(t, step) /\ Leaves(t, step)
  /\ UNCHANGED <<pool, main, closed, conns, open>>

(* psycopg.connect raises; its text may read like a lost connection *)
ConnectFails(t) ==
  /\ pc[t] = "connect"
  /\ job[t].conn = None
  /\ Fault /\ Free(t)
  /\ \E step \in {"idle", AfterLoss(t)} : GotoAndNotify(t, step) /\ Leaves(t, step)
  /\ UNCHANGED <<pool, main, closed, conns, open>>

(* A plausible slip: the pool is not looked at again after the connect. *)
InstallBlindly(t) ==
  /\ pc[t] = "install"
  /\ conns' = [conns EXCEPT ![job[t].p][job[t].slot] = job[t].conn]
  /\ Goto(t, "use")
  /\ UNCHANGED <<pool, main, closed, busy, open, job, faults>>

(* The pool was closed during the connect, or takes the connection. *)
Install(t) ==
  /\ pc[t] = "install"
  /\ IF closed[job[t].p]
     THEN /\ Free(t)
          /\ open' = open \ {job[t].conn}
          /\ GotoAndNotify(t, AfterLoss(t)) /\ Leaves(t, AfterLoss(t))
          /\ UNCHANGED conns
     ELSE /\ conns' = [conns EXCEPT ![job[t].p][job[t].slot] = job[t].conn]
          /\ Goto(t, "use")
          /\ UNCHANGED <<busy, open, job>>
  /\ UNCHANGED <<pool, main, closed, faults>>

(* The statement ends, well or with an SQL error; its connection is lost   *)
(* or was closed under it; or it meets a deadlock, and execute tries it    *)
(* once more on the pool it began with.  The finally clause frees the slot.*)
Finish(t) ==
  /\ pc[t] = "use"
  /\ \/ /\ job[t].conn \in open
        /\ GotoAndNotify(t, "idle") /\ Leaves(t, "idle")
        /\ UNCHANGED faults
     \/ /\ job[t].conn \notin open
        /\ GotoAndNotify(t, AfterLoss(t)) /\ Leaves(t, AfterLoss(t))
        /\ UNCHANGED faults
     \/ /\ job[t].conn \in open /\ ~job[t].again /\ main
        /\ Fault
        /\ GotoAndNotify(t, "acquire")
        /\ job' = [job EXCEPT ![t] = [NoJob EXCEPT !.p = job[t].p]]
  /\ Free(t)
  /\ UNCHANGED <<pool, main, closed, conns, open>>

-----------------------------------------------------------------------------
(* _reconnect_main, which no lock protects.  self._pool is read anew in    *)
(* each line: another thread may have set it to None, or to a new pool.    *)
SeePool(t) ==
  /\ pc[t] = "reconnect"
  /\ Goto(t, IF pool # None THEN "close" ELSE "main")
  /\ UNCHANGED <<pool, main, closed, conns, busy, open, job, faults>>

CloseAll(t) ==
  /\ pc[t] = "close"
  /\ pool # None
  /\ ClosePool
  /\ pc' = [u \in Thread |-> IF u = t THEN "drop" ELSE Woken(u, pool)]
  /\ UNCHANGED <<pool, main, job, faults>>

(* AttributeError: the pool is gone since SeePool *)
CloseNothing(t) ==
  /\ pc[t] = "close"
  /\ pool = None
  /\ Goto(t, "idle") /\ Leaves(t, "idle")
  /\ UNCHANGED <<pool, main, closed, conns, busy, open, faults>>

Drop(t) ==
  /\ pc[t] = "drop"
  /\ pool' = None
  /\ Goto(t, "main")
  /\ UNCHANGED <<main, closed, conns, busy, open, job, faults>>

CloseMain(t) ==
  /\ pc[t] = "main"
  /\ main' = FALSE
  /\ Goto(t, "dial")
  /\ UNCHANGED <<pool, closed, conns, busy, open, job, faults>>

(* self.conn = psycopg.connect(...); when it fails, self.conn stays None.  *)
Dial(t) ==
  /\ pc[t] = "dial"
  /\ \/ main' = TRUE /\ Goto(t, "pool") /\ UNCHANGED <<job, faults>>
     \/ Fault /\ Goto(t, "idle") /\ Leaves(t, "idle") /\ UNCHANGED main
  /\ UNCHANGED <<pool, closed, conns, busy, open>>

(* The schema work between the two fails when another thread has taken     *)
(* self.conn away.                                                         *)
NewPool(t) ==
  /\ pc[t] = "pool"
  /\ \/ /\ OpenPool
        /\ Goto(t, "retry")
        /\ UNCHANGED job
     \/ /\ ~main
        /\ Goto(t, "idle") /\ Leaves(t, "idle")
        /\ UNCHANGED <<pool, closed, conns, busy, open>>
  /\ UNCHANGED <<main, faults>>

(* The second try: select reads self._pool, execute still has its own. *)
Retry(t) ==
  /\ pc[t] = "retry"
  /\ LET p == IF job[t].again THEN pool ELSE job[t].p
     IN  IF p = None \/ (~main /\ ~job[t].again)
         THEN Goto(t, "idle") /\ Leaves(t, "idle")
         ELSE /\ Goto(t, "acquire")
              /\ job' = [job EXCEPT ![t] = [@ EXCEPT !.p = p, !.retried = TRUE]]
  /\ UNCHANGED <<pool, main, closed, conns, busy, open, faults>>

(* The server restarts or ends some connections. *)
LoseConnections ==
  /\ Fault
  /\ \E lost \in SUBSET open : lost # {} /\ open' = open \ lost
  /\ UNCHANGED <<pool, main, closed, conns, busy, pc, job>>

(* disconnect, at the end of the server; connect, at its next start or     *)
(* when a worker opens the database again.                                 *)
Disconnect ==
  /\ pool # None
  /\ Fault
  /\ ClosePool
  /\ pc' = [u \in Thread |-> Woken(u, pool)]
  /\ pool' = None /\ main' = FALSE
  /\ UNCHANGED job

Connect ==
  /\ pool = None
  /\ \A t \in Thread : pc[t] = "idle"
  /\ OpenPool /\ main' = TRUE
  /\ UNCHANGED <<pc, job, faults>>

-----------------------------------------------------------------------------
Acquire(t) == SeeClosed(t) \/ Claim(t) \/ GiveUp(t) \/ Wait(t) \/ TimeOut(t)
Lend(t) == Establish(t) \/ ConnectFails(t) \/ Install(t) \/ Finish(t)
Reconnect(t) ==
  SeePool(t) \/ CloseAll(t) \/ CloseNothing(t) \/ Drop(t) \/ CloseMain(t)
    \/ Dial(t) \/ NewPool(t) \/ Retry(t)
Step(t) == Acquire(t) \/ Lend(t) \/ Reconnect(t)

Next == \/ \E t \in Thread : Call(t) \/ Step(t)
        \/ LoseConnections \/ Disconnect \/ Connect

Spec == Init /\ [][Next]_vars

(* A call that has begun goes on: every statement and every connect ends,  *)
(* and the clock reaches every deadline.  Nobody has to call.              *)
FairSpec == Spec /\ \A t \in Thread : WF_vars(Step(t)) /\ WF_vars(TimeOut(t))

-----------------------------------------------------------------------------
(* Two threads never have one connection, neither while one is being made  *)
(* nor across the pools of a reconnect: the claim of a slot under the lock *)
(* is all that keeps them apart (connect and statement run outside it).    *)
ConnectionHasOneUser ==
  \A t, u \in Thread :
    pc[t] \in {"install", "use"} /\ pc[u] \in {"install", "use"}
      /\ job[t].conn = job[u].conn => t = u

Users(p, s) == {t \in Thread : Claimed(t) /\ job[t].p = p /\ job[t].slot = s}

(* A slot is marked busy exactly while one call has it, however the call   *)
(* leaves: a failed connect, a pool closed meanwhile, a lost connection.   *)
SlotsAreGivenBack ==
  \A p \in Pool : ~closed[p] =>
    \A s \in Slot : s \in busy[p] <=> Users(p, s) # {}

(* Nobody sleeps while a slot is free or the pool is closed: whoever frees *)
(* a slot or closes the pool wakes the waiters (notify_all).               *)
NoForgottenWaiter ==
  \A t \in Thread : pc[t] = "wait" => ~closed[job[t].p] /\ busy[job[t].p] = Slot

(* A working connection is in the slot of a pool that is not closed, or    *)
(* its thread has yet to look at the pool again: closing a pool during a   *)
(* connect leaves no connection that nobody will ever close.               *)
OpenConnectionsAreOwned ==
  \A c \in open : \/ \E p \in Pool : ~closed[p] /\ c \in Cached(p)
                  \/ \E t \in Thread : pc[t] = "install" /\ job[t].conn = c

(* The slots of each pool are lent one user at a time, and a closed pool   *)
(* lends nothing, whatever is going on outside the lock.                   *)
UserOf(p, s) == IF Users(p, s) = {} THEN None ELSE CHOOSE t \in Thread : t \in Users(p, s)
Promise == INSTANCE Lending WITH
  User <- Thread, user <- [p \in Pool |-> [s \in Slot |-> UserOf(p, s)]]
SlotsAreLent == Promise!Spec

(* Every call ends, through its statement, its deadline or an error, also  *)
(* when it has to reconnect and others reconnect at the same time.         *)
EveryCallReturns == \A t \in Thread : pc[t] # "idle" ~> pc[t] = "idle"

(* A call that had to reconnect and found a working server runs on an open *)
(* pool when nobody else reconnects: refuted for execute.                  *)
RetryFindsOpenPool ==
  \A t \in Thread : pc[t] = "acquire" /\ job[t].retried => ~closed[job[t].p]
=============================================================================
