---------------------------- MODULE Transactions ----------------------------
(***************************************************************************)
(* Explicit transactions of the PostgreSQL driver: the manager of          *)
(* drivers/postgres_transactions.py with its reaper, and its two kinds of  *)
(* callers, execute_logical_write_operation (drivers/postgres.py), which   *)
(* rolls back and tries again after a transient error, and commands that   *)
(* begin, execute and commit by themselves and may never come back.        *)
(*                                                                         *)
(* A transaction id and its connection are one value: the manager never    *)
(* gives a transaction another connection.  A section under the manager's  *)
(* lock is one action; every call of psycopg is outside it.  psycopg's     *)
(* connections run one call at a time: rollback and close from another     *)
(* thread wait for a running statement.  The server keeps the rows that a  *)
(* transaction has written locked until it ends.                           *)
(***************************************************************************)
EXTENDS Integers, Sequences, FiniteSets

CONSTANTS Thread, None,
          Commands,     \* threads that manage their transactions by themselves
          Conn,         \* connection objects; one is free again when unreferenced
          Row,
          Programs,     \* what the calls of a thread write, a row for each batch
          MaxAttempts,  \* policy.attempts
          MaxFaults     \* failures, lost connections, abandoned calls, disconnects

ASSUME CommandsAreThreads == Commands \subseteq Thread
ASSUME NoneIsNothing == None \notin Conn
ASSUME ProgramsWriteRows ==
  Programs \in [Thread -> SUBSET (Seq(Row) \ {<<>>})]
ASSUME AttemptsAreCounted == MaxAttempts \in Nat \ {0}
ASSUME FaultsAreNat == MaxFaults \in Nat

Sweeper == {"reaper", "closer"}   \* reap_expired and close_all

VARIABLES
  up,          \* the driver has a transaction manager
  registered,  \* _transactions of that manager
  older,       \* those begun before, as the dict of transactions keeps them
  expired,     \* transactions older than transaction_max_age_seconds
  open,        \* connections that work
  work,        \* rows a connection has written and not yet committed
  todo, victim,\* what a sweeper has left to look at, and is tearing down
  pc, job,     \* what each thread does
  stored,      \* how often each batch of a thread's call has been committed
  result,      \* what its last call told the caller
  faults

vars == <<up, registered, older, expired, open, work, todo, victim, pc, job, stored,
          result, faults>>

Steps == {"idle", "begin", "register", "next", "call", "blocked",
          "committing", "teardown", "rollback"}

(* next: the batch to run.  then: how the call goes on after the rollback  *)
(* or the teardown.  table: the one in which begin_transaction registers,  *)
(* of the current manager or of one that was dropped meanwhile.            *)
Job == [conn : Conn \cup {None}, rows : Seq(Row),
        next : Nat, attempt : 1..MaxAttempts,
        then : {"ok", "retry", "error"}, table : {"live", "dropped"}]

NoJob == [conn |-> None, rows |-> <<>>, next |-> 1, attempt |-> 1,
          then |-> "error", table |-> "live"]

TypeOK ==
  /\ up \in BOOLEAN
  /\ registered \in SUBSET Conn /\ expired \in SUBSET registered /\ open \in SUBSET Conn
  /\ older \in [Conn -> SUBSET Conn]
  /\ work \in [Conn -> SUBSET Row]
  /\ todo \in [Sweeper -> SUBSET Conn]
  /\ victim \in [Sweeper -> Conn \cup {None}]
  /\ pc \in [Thread -> Steps] /\ job \in [Thread -> Job]
  /\ stored \in [Thread -> Seq(Nat)]
  /\ result \in [Thread -> {"none", "ok", "error"}]
  /\ faults \in 0..MaxFaults

Init ==
  /\ up = TRUE
  /\ registered = {} /\ expired = {} /\ open = {}
  /\ older = [c \in Conn |-> {}]
  /\ work = [c \in Conn |-> {}]
  /\ todo = [s \in Sweeper |-> {}] /\ victim = [s \in Sweeper |-> None]
  /\ pc = [t \in Thread |-> "idle"] /\ job = [t \in Thread |-> NoJob]
  /\ stored = [t \in Thread |-> <<>>]
  /\ result = [t \in Thread |-> "none"]
  /\ faults = 0

-----------------------------------------------------------------------------
Wanted(t) == job[t].rows[job[t].next]

FreeConns ==
  {c \in Conn : /\ c \notin open \cup registered
                /\ \A t \in Thread : job[t].conn # c
                /\ \A s \in Sweeper : c \notin todo[s] /\ victim[s] # c}

Some(objects) == CHOOSE x \in objects : TRUE   \* which one does not matter

Fault == faults < MaxFaults /\ faults' = faults + 1

Goto(t, step) == pc' = [pc EXCEPT ![t] = step]

server == <<open, work>>
manager == <<up, registered, older, expired, todo, victim>>
caller == <<stored, result>>

(* pop: the manager forgets the transaction *)
Unregister(c) == registered' = registered \ {c} /\ expired' = expired \ {c}

(* Another transaction has written the row. *)
Taken(c, r) == \E d \in open \ {c} : r \in work[d]

(* The transaction is gone: rolled back or lost with its connection. *)
End(c) == open' = open \ {c} /\ work' = [work EXCEPT ![c] = {}]

(* A plausible slip: the attempts are not counted. *)
LeaveUncounted(t, how) ==
  IF how = "retry"
  THEN /\ Goto(t, "begin")
       /\ job' = [job EXCEPT ![t] = [job[t] EXCEPT !.conn = None, !.next = 1,
                                              !.then = "error"]]
       /\ UNCHANGED result
  ELSE /\ Goto(t, "idle")
       /\ job' = [job EXCEPT ![t] = NoJob]
       /\ result' = [result EXCEPT ![t] = how]

(* The call leaves the driver: with its result, or for another attempt. *)
Leave(t, how) ==
  IF how = "retry"
  THEN /\ Goto(t, "begin")
       /\ job' = [job EXCEPT ![t] = [job[t] EXCEPT !.conn = None, !.next = 1,
                                              !.attempt = @ + 1, !.then = "error"]]
       /\ UNCHANGED result
  ELSE /\ Goto(t, "idle")
       /\ job' = [job EXCEPT ![t] = NoJob]
       /\ result' = [result EXCEPT ![t] = how]

(* except TransientDatabaseError: only a logical write tries again. *)
AfterTransient(t) ==
  IF t \notin Commands /\ job[t].attempt < MaxAttempts THEN "retry" ELSE "error"

(* An exception: the caller's handler calls rollback_transaction next. *)
Raise(t, then) ==
  /\ Goto(t, "rollback")
  /\ job' = [job EXCEPT ![t].then = then]

-----------------------------------------------------------------------------
(* begin_transaction: connect, set the timeouts, register under the lock *)
Call(t) ==
  /\ pc[t] = "idle"
  /\ up
  /\ \E rows \in Programs[t] :
       /\ job' = [job EXCEPT ![t] = [NoJob EXCEPT !.rows = rows]]
       /\ stored' = [stored EXCEPT ![t] = [i \in 1..Len(rows) |-> 0]]
  /\ Goto(t, "begin")
  /\ result' = [result EXCEPT ![t] = "none"]
  /\ UNCHANGED <<manager, server, faults>>

Open(t) ==
  /\ pc[t] = "begin"
  /\ up
  /\ FreeConns # {}
  /\ open' = open \cup {Some(FreeConns)}
  /\ job' = [job EXCEPT ![t].conn = Some(FreeConns)]
  /\ Goto(t, "register")
  /\ UNCHANGED <<manager, work, caller, faults>>

(* No manager any more at a retry, or TransactionError: psycopg.connect or *)
(* SET LOCAL fails; the second closes the new connection.                  *)
BeginFails(t) ==
  /\ pc[t] = "begin"
  /\ up => Fault
  /\ ~up => UNCHANGED faults
  /\ Leave(t, "error")
  /\ UNCHANGED <<manager, server, stored>>

(* A manager that the driver has dropped meanwhile is collected, with the  *)
(* connection, as soon as begin_transaction returns.                       *)
Register(t) ==
  /\ pc[t] = "register"
  /\ IF job[t].table = "dropped"
     THEN End(job[t].conn) /\ UNCHANGED <<registered, older>>
     ELSE /\ registered' = registered \cup {job[t].conn}
          /\ older' = [c \in Conn |-> IF c = job[t].conn THEN registered
                                      ELSE older[c] \ {job[t].conn}]
          /\ UNCHANGED server
  /\ Goto(t, "next")
  /\ job' = [job EXCEPT ![t].table = "live"]
  /\ UNCHANGED <<up, expired, todo, victim, caller, faults>>

-----------------------------------------------------------------------------
MoreToDo(t) == job[t].next <= Len(job[t].rows)

(* A plausible slip: a transaction the manager does not know is treated as *)
(* no transaction, and the batch runs on a connection of the pool.         *)
LookUpOrAutocommit(t) ==
  /\ pc[t] = "next"
  /\ MoreToDo(t)
  /\ IF job[t].conn \in registered
     THEN Goto(t, "call") /\ UNCHANGED <<job, stored>>
     ELSE /\ stored' = [stored EXCEPT ![t][job[t].next] = @ + 1]
          /\ job' = [job EXCEPT ![t].next = @ + 1]
          /\ UNCHANGED pc
  /\ UNCHANGED <<manager, server, result, faults>>

(* execute_batch asks the manager for the connection of the transaction. *)
LookUp(t) ==
  /\ pc[t] = "next"
  /\ MoreToDo(t)
  /\ IF job[t].conn \in registered
     THEN Goto(t, "call") /\ UNCHANGED job
     ELSE Raise(t, "error")
  /\ UNCHANGED <<manager, server, caller, faults>>

(* The statement goes through, at once or after waiting for the row. *)
Execute(t) ==
  /\ pc[t] \in {"call", "blocked"}
  /\ job[t].conn \in open
  /\ ~Taken(job[t].conn, Wanted(t))
  /\ work' = [work EXCEPT ![job[t].conn] = @ \cup {Wanted(t)}]
  /\ job' = [job EXCEPT ![t].next = @ + 1]
  /\ Goto(t, "next")
  /\ UNCHANGED <<manager, open, caller, faults>>

Block(t) ==
  /\ pc[t] = "call"
  /\ job[t].conn \in open
  /\ Taken(job[t].conn, Wanted(t))
  /\ Goto(t, "blocked")
  /\ UNCHANGED <<manager, server, job, caller, faults>>

(* The server ends the transaction of a statement that fails: a deadlock,  *)
(* an error of its own.  No timeout of a lock or a statement is configured *)
(* by default.                                                             *)
WaitsFor(t, u) == Wanted(t) \in work[job[u].conn]

InDeadlock(t) ==
  \E ring \in SUBSET {u \in Thread : pc[u] = "blocked"} :
    /\ t \in ring
    /\ \A u \in ring : (\E v \in ring \ {u} : WaitsFor(u, v))
                       /\ (\E v \in ring \ {u} : WaitsFor(v, u))

Deadlock(t) ==
  /\ pc[t] = "blocked"
  /\ InDeadlock(t)
  /\ work' = [work EXCEPT ![job[t].conn] = {}]
  /\ Raise(t, AfterTransient(t))
  /\ UNCHANGED <<manager, open, caller, faults>>

StatementFails(t) ==
  /\ pc[t] \in {"call", "blocked"}
  /\ IF job[t].conn \in open
     THEN /\ Fault
          /\ work' = [work EXCEPT ![job[t].conn] = {}]
     ELSE UNCHANGED <<work, faults>>
  /\ Raise(t, "error")
  /\ UNCHANGED <<manager, open, caller>>

-----------------------------------------------------------------------------
(* A plausible slip: nothing to commit is not an error. *)
CommitLeniently(t) ==
  /\ pc[t] = "next"
  /\ ~MoreToDo(t)
  /\ Unregister(job[t].conn)
  /\ IF job[t].conn \in registered
     THEN Goto(t, "committing") /\ UNCHANGED job
     ELSE Goto(t, "teardown") /\ job' = [job EXCEPT ![t].then = "ok"]
  /\ UNCHANGED <<up, older, todo, victim, server, caller, faults>>

(* commit_transaction first takes the transaction out of the table, so     *)
(* that the reaper cannot have it any more.                                *)
Commit(t) ==
  /\ pc[t] = "next"
  /\ ~MoreToDo(t)
  /\ Unregister(job[t].conn)
  /\ IF job[t].conn \in registered
     THEN Goto(t, "committing") /\ UNCHANGED job
     ELSE Raise(t, "error")
  /\ UNCHANGED <<up, older, todo, victim, server, caller, faults>>

(* The server makes what the connection has written permanent. *)
Store(t) ==
  stored' = [stored EXCEPT ![t] =
    [i \in 1..Len(@) |-> @[i] + (IF job[t].rows[i] \in work[job[t].conn] THEN 1 ELSE 0)]]

Committed(t) ==
  /\ pc[t] = "committing"
  /\ job[t].conn \in open
  /\ Store(t)
  /\ work' = [work EXCEPT ![job[t].conn] = {}]
  /\ Goto(t, "teardown")
  /\ job' = [job EXCEPT ![t].then = "ok"]
  /\ UNCHANGED <<manager, open, result, faults>>

(* Plausible slips: every failed commit counts as transient; a failed      *)
(* commit leaves the connection to its fate.                               *)
CommitFailsTransiently(t) ==
  /\ pc[t] = "committing"
  /\ \/ job[t].conn \notin open /\ UNCHANGED <<server, stored, faults>>
     \/ /\ job[t].conn \in open
        /\ Fault
        /\ \/ UNCHANGED stored /\ UNCHANGED open
           \/ Store(t) /\ open' = open \ {job[t].conn}
        /\ work' = [work EXCEPT ![job[t].conn] = {}]
  /\ Goto(t, "teardown")
  /\ job' = [job EXCEPT ![t].then = AfterTransient(t)]
  /\ UNCHANGED <<manager, result>>

CommitFailsUntidily(t) ==
  /\ pc[t] = "committing"
  /\ \/ job[t].conn \notin open /\ UNCHANGED <<server, stored, faults>>
     \/ /\ job[t].conn \in open
        /\ Fault
        /\ \/ UNCHANGED stored /\ UNCHANGED open
           \/ Store(t) /\ open' = open \ {job[t].conn}
        /\ work' = [work EXCEPT ![job[t].conn] = {}]
  /\ Raise(t, "error")
  /\ UNCHANGED <<manager, result>>

(* conn.commit() raises: the connection was lost before; the server        *)
(* refuses (a deferred constraint); or it has committed and the connection *)
(* is lost before it can say so.                                           *)
CommitFails(t) ==
  /\ pc[t] = "committing"
  /\ \/ job[t].conn \notin open /\ UNCHANGED <<server, stored, faults>>
     \/ /\ job[t].conn \in open
        /\ Fault
        /\ \/ UNCHANGED stored /\ UNCHANGED open
           \/ Store(t) /\ open' = open \ {job[t].conn}
        /\ work' = [work EXCEPT ![job[t].conn] = {}]
  /\ Goto(t, "teardown")
  /\ job' = [job EXCEPT ![t].then = "error"]
  /\ UNCHANGED <<manager, result>>

(* _teardown_conn by the owner, after its commit or its rollback *)
Teardown(t) ==
  /\ pc[t] = "teardown"
  /\ End(job[t].conn)
  /\ Leave(t, job[t].then)
  /\ UNCHANGED <<manager, stored, faults>>

(* rollback_transaction; when the transaction is not in the table any more *)
(* the rollback fails, and with it the call, whatever it was meant to do.  *)
Rollback(t) ==
  /\ pc[t] = "rollback"
  /\ Unregister(job[t].conn)
  /\ IF job[t].conn \in registered
     THEN Goto(t, "teardown") /\ UNCHANGED <<job, result>>
     ELSE Leave(t, "error")
  /\ UNCHANGED <<up, older, todo, victim, server, stored, faults>>

(* A command never gets to its commit or rollback. *)
Abandon(t) ==
  /\ pc[t] = "next"
  /\ t \in Commands
  /\ Fault
  /\ Leave(t, "error")
  /\ UNCHANGED <<manager, server, stored>>

-----------------------------------------------------------------------------
Expire(c) ==
  /\ c \in registered
  /\ c \notin expired
  /\ older[c] \cap registered \subseteq expired
  /\ expired' = expired \cup {c}
  /\ UNCHANGED <<up, registered, older, server, todo, victim, pc, job, caller, faults>>

Resting(s) == todo[s] = {} /\ victim[s] = None

(* reap_expired works on a copy of the table. *)
Sweep ==
  /\ up
  /\ Resting("reaper")
  /\ expired # {}
  /\ todo' = [todo EXCEPT !["reaper"] = expired]
  /\ UNCHANGED <<up, registered, older, expired, server, victim, pc, job, caller, faults>>

(* The oldest comes first; each is popped under the lock and torn down     *)
(* outside it.                                                             *)
IsNext(s, c) == c \in todo[s] /\ victim[s] = None /\ older[c] \cap todo[s] = {}

Reap(c) ==
  /\ IsNext("reaper", c)
  /\ todo' = [todo EXCEPT !["reaper"] = @ \ {c}]
  /\ Unregister(c)
  /\ victim' = [victim EXCEPT !["reaper"] = IF c \in registered THEN c ELSE None]
  /\ UNCHANGED <<up, older, server, pc, job, caller, faults>>

(* close_all has emptied the table before. *)
Close(c) ==
  /\ IsNext("closer", c)
  /\ todo' = [todo EXCEPT !["closer"] = @ \ {c}]
  /\ victim' = [victim EXCEPT !["closer"] = c]
  /\ UNCHANGED <<up, registered, older, expired, server, pc, job, caller, faults>>

Busy(c) == \E t \in Thread : pc[t] = "blocked" /\ job[t].conn = c

(* A plausible slip: a connection in use is left to its user. *)
TearDownIdleOnly(s) ==
  /\ victim[s] # None
  /\ IF Busy(victim[s]) THEN UNCHANGED server ELSE End(victim[s])
  /\ victim' = [victim EXCEPT ![s] = None]
  /\ UNCHANGED <<up, registered, older, expired, todo, pc, job, caller, faults>>

(* conn.rollback() and close() wait until no statement runs on it. *)
TearDown(s) ==
  /\ victim[s] # None
  /\ ~Busy(victim[s])
  /\ End(victim[s])
  /\ victim' = [victim EXCEPT ![s] = None]
  /\ UNCHANGED <<up, registered, older, expired, todo, pc, job, caller, faults>>

(* disconnect, at the end of the server or as the first thing of a second  *)
(* connect; connect makes a new manager once the reaper has been joined.   *)
Disconnect ==
  /\ up
  /\ Fault
  /\ up' = FALSE
  /\ todo' = [todo EXCEPT !["closer"] = registered]
  /\ registered' = {} /\ expired' = {}
  /\ job' = [t \in Thread |->
             [job[t] EXCEPT !.table = IF pc[t] = "register" THEN "dropped" ELSE job[t].table]]
  /\ UNCHANGED <<older, server, victim, pc, caller>>

Connect ==
  /\ ~up
  /\ \A s \in Sweeper : Resting(s)
  /\ up' = TRUE
  /\ UNCHANGED <<registered, older, expired, server, todo, victim, pc, job, caller, faults>>

LoseConnection(c) ==
  /\ c \in open
  /\ Fault
  /\ End(c)
  /\ UNCHANGED <<manager, pc, job, caller>>

-----------------------------------------------------------------------------
(* A call of the driver, and what its caller does between two calls. *)
Driver(t) ==
  \/ Open(t) \/ BeginFails(t) \/ Register(t) \/ Execute(t) \/ Block(t)
  \/ Deadlock(t) \/ StatementFails(t)
  \/ Committed(t) \/ CommitFails(t) \/ Teardown(t) \/ Rollback(t)

Proceed(t) == LookUp(t) \/ Commit(t)

Reaper == Sweep \/ (\E c \in Conn : Reap(c)) \/ TearDown("reaper")
Closer == (\E c \in Conn : Close(c)) \/ TearDown("closer")

Next ==
  \/ \E t \in Thread : Call(t) \/ Driver(t) \/ Proceed(t) \/ Abandon(t)
  \/ \E c \in Conn : Expire(c) \/ LoseConnection(c)
  \/ Reaper \/ Closer \/ Disconnect \/ Connect

Spec == Init /\ [][Next]_vars

(* Calls of the driver end; a caller goes on from one to the next unless   *)
(* it never comes back (Abandon); the reaper and close_all go on; time     *)
(* passes.  The server gives a row to the one that waits for it, in the    *)
(* end.  A connection is made when it is asked for: that Conn is finite    *)
(* must starve nobody.                                                     *)
FairSpec ==
  /\ Spec
  /\ \A t \in Thread :
       /\ WF_vars(Driver(t)) /\ WF_vars(Proceed(t))
       /\ SF_vars(Open(t)) /\ SF_vars(Execute(t))
  /\ \A c \in Conn : WF_vars(Expire(c))
  /\ WF_vars(Reaper) /\ WF_vars(Closer)

-----------------------------------------------------------------------------
(* Of the batches of a call all are committed or none, whoever reaps its   *)
(* transaction between two of them (execute_batch with a transaction_id,   *)
(* postgres.py 666-681).                                                   *)
EffectIsAtomic ==
  \A t \in Thread : \A i, k \in 1..Len(stored[t]) : stored[t][i] = stored[t][k]

(* No retry repeats what has been committed: a commit whose outcome is     *)
(* unknown ends the call (commit_transaction, 204-212, and the handlers of *)
(* execute_logical_write_operation).                                       *)
NeverAppliedTwice == \A t \in Thread : \A i \in 1..Len(stored[t]) : stored[t][i] <= 1

(* A call that returned has been committed, although its transaction may   *)
(* be reaped, closed or lost at any time before (commit_transaction pops   *)
(* first).                                                                 *)
SuccessMeansCommitted ==
  \A t \in Thread : result[t] = "ok" => \A i \in 1..Len(stored[t]) : stored[t][i] = 1

(* Every open connection is in the table or in the hands of the one that   *)
(* took it out and will close it ("the manager owns the lifecycle of every *)
(* connection it opens").                                                  *)
Owners(c) ==
  {t \in Thread : job[t].conn = c /\ pc[t] \in {"register", "committing", "teardown"}}

ConnectionsAreAccountedFor ==
  \A c \in open : \/ c \in registered
                  \/ Owners(c) # {}
                  \/ \E s \in Sweeper : victim[s] = c
                  \/ c \in todo["closer"]

(* A transaction that its owner took out first is not torn down again.     *)
TornDownOnce ==
  \A c \in Conn : \A s \in Sweeper :
    victim[s] = c => /\ c \notin registered
                     /\ Owners(c) = {}
                     /\ \A z \in Sweeper \ {s} : victim[z] # c

(* No thread works for the transaction any more. *)
Orphan(c) == c \in open /\ \A t \in Thread : job[t].conn # c

(* "so a caller that fails to reach commit/rollback cannot orphan a        *)
(* backend connection indefinitely" (_start_transaction_reaper, 333-335).  *)
(* The code does not guarantee it: an older transaction whose statement    *)
(* waits for a row of the orphan holds up the sweep before it comes to the *)
(* orphan.                                                                 *)
OrphansAreReaped ==
  \A c \in Conn : c \in registered /\ Orphan(c) ~> c \notin open

(* No connection stays open for good, whatever its user does, as long as   *)
(* no statement waits for a row of an orphan: that is all that can hold up *)
(* the reaper and close_all.                                               *)
NoConnectionForever ==
  \A c \in Conn : c \in open ~>
    (c \notin open \/ \E t \in Thread, d \in Conn :
                        pc[t] = "blocked" /\ Orphan(d) /\ Wanted(t) \in work[d])

(* A logical write returns, through its retries and whoever else writes    *)
(* the rows it wants, unless there is an orphan: a transaction abandoned   *)
(* by a command, or cut off from its caller by a disconnect that cannot    *)
(* close it yet.                                                           *)
LogicalWriteReturns ==
  \A t \in Thread \ Commands :
    pc[t] # "idle" ~> (pc[t] = "idle" \/ \E c \in Conn : Orphan(c))
=============================================================================
