--------------------------- MODULE ClientSessions ---------------------------
(***************************************************************************)
(* Client sessions and what they hold: file locks, subordinate links and   *)
(* advisory leases (core/client_sessions.py, core/subordinate_sessions.py, *)
(* the lease half of core/runtime_lock_sessions.py), the session commands  *)
(* built on them and the reaper (core/session_lock_reaper.py).             *)
(*                                                                         *)
(* Command bodies run on a pool of worker threads (core/command_offload)   *)
(* and the reaper in a thread of its own.  None of these functions opens a *)
(* transaction that its statements run in: every SQL statement commits by  *)
(* itself, so every statement is one step and all threads interleave       *)
(* between statements.  The tables are the database's shared state.        *)
(***************************************************************************)
EXTENDS Integers, FiniteSets

CONSTANTS
  Session,    \* the uuids session_create may generate; never generated twice
  File,       \* file ids (one project; a file id stands for its path too)
  Server,     \* server uuids of subordinate links
  Worker,     \* threads of the command pool
  Reaper,     \* the thread of the background sweep
  None,       \* "no argument"
  Commands,   \* the commands clients issue to each thread of the pool
  TTL,        \* idle time after which a session is stale
  MaxTime,    \* bound on the clock
  MaxRef,     \* bound on a lease's refcount
  MaxFaults   \* bound on failed statements and server restarts

ASSUME TimeAssumption == TTL \in Nat /\ MaxTime \in Nat
ASSUME BoundAssumption == MaxRef \in Nat \ {0} /\ MaxFaults \in Nat
ASSUME ThreadAssumption == Reaper \notin Worker

VARIABLES
  now,             \* the database clock, julianday('now')
  lastActive,      \* client_sessions.last_active_at (0 for a session with no row)
  clientSessions,  \* sessions with a row in client_sessions
  created,         \* every uuid generated so far
  announced,       \* sessions whose id session_create returned to a client
  fileLocks,       \* session_file_locks: pairs <<session, file>>
  subordinates,    \* subordinate_sessions: pairs <<session, server>>
  runtimeSessions, \* sessions with a row in runtime_lock_sessions
  leases,          \* file_advisory_lock_leases.refcount; 0 is "no row"
  pc,              \* the next statement of each thread
  job,             \* the command each thread runs, with its locals
  raced,           \* (history) files for which two opens overlapped
  faults           \* failed statements and restarts so far

tables == <<lastActive, clientSessions, created, announced, fileLocks,
            subordinates, runtimeSessions, leases>>
vars == <<now, tables, pc, job, raced, faults>>

Thread == Worker \cup {Reaper}
Cmd == {"create", "touch", "open", "close", "delete", "link", "unlink", "sweep"}

ASSUME NoneAssumption == None \notin Session \cup File \cup Server \cup Cmd

Counted == {"subs", "locks", "leases"}

\* A thread's command: its arguments, the table counts it read (only zero or
\* not matters), the files whose leases it has listed and not yet released and,
\* for a sweep, the sessions still to delete.
Job == [cmd : Cmd \cup {None}, sid : Session \cup {None}, obj : File \cup Server \cup {None},
        force : BOOLEAN, seen : SUBSET Counted, files : SUBSET File, todo : SUBSET Session]

NoJob == [cmd |-> None, sid |-> None, obj |-> None, force |-> FALSE,
          seen |-> {}, files |-> {}, todo |-> {}]

Pc == {"idle", "createRow", "createRole", "createRead", "touch",
       "openSelect", "openInsert", "closeDelete", "relativePath",
       "lockSessionValid", "lockSessionExists", "lockSessionInsert",
       "leaseExists", "leaseSelect", "leaseUpdate", "leaseInsert",
       "leaseFind", "leaseDelete",
       "delGet", "delCountLocks", "delCountSubs", "delCountLeases",
       "delSubs", "delLocks", "delListLeases", "delLease", "delLeases",
       "delRuntime", "delSession",
       "linkValid", "linkExists", "linkInsert", "unlinkDelete",
       "sweepList", "sweepNext"}

Stale(s) == s \in clientSessions /\ now - lastActive[s] > TTL
Holders(f) == {s \in Session : <<s, f>> \in fileLocks}

-----------------------------------------------------------------------------
(* Control: how a thread moves on.                                         *)

Goto(t, p) == pc' = [pc EXCEPT ![t] = p] /\ UNCHANGED <<job, now, faults>>

\* The command ends, by its result or by an exception.  Inside a sweep only
\* this session's deletion ends: the sweep catches the exception and goes on.
Finish(t) ==
  /\ UNCHANGED <<now, faults>>
  /\ IF job[t].cmd = "sweep"
       THEN pc' = [pc EXCEPT ![t] = "sweepNext"] /\ UNCHANGED job
       ELSE pc' = [pc EXCEPT ![t] = "idle"] /\ job' = [job EXCEPT ![t] = NoJob]

Sid(t) == job[t].sid
Obj(t) == job[t].obj

Start(t, c, s, o, f, p) ==
  /\ pc[t] = "idle"
  /\ c \in Commands[t]
  /\ pc' = [pc EXCEPT ![t] = p]
  /\ job' = [job EXCEPT ![t] = [NoJob EXCEPT !.cmd = c, !.sid = s, !.obj = o, !.force = f]]
  /\ UNCHANGED <<now, tables, faults>>

-----------------------------------------------------------------------------
(* session_create: the rows are inserted by separate statements.           *)

StartCreate(t) ==
  \E s \in Session \ created :
    /\ pc[t] = "idle" /\ "create" \in Commands[t]
    /\ created' = created \cup {s}
    /\ pc' = [pc EXCEPT ![t] = "createRow"]
    /\ job' = [job EXCEPT ![t] = [NoJob EXCEPT !.cmd = "create", !.sid = s]]
    /\ UNCHANGED <<now, faults, lastActive, clientSessions, announced, fileLocks,
                   subordinates, runtimeSessions, leases>>

\* The session row; then the roles, when role ids were given.
CreateRow(t) ==
  /\ pc[t] = "createRow"
  /\ clientSessions' = clientSessions \cup {Sid(t)}
  /\ lastActive' = [lastActive EXCEPT ![Sid(t)] = now]
  /\ \E p \in {"createRole", "createRead"} : Goto(t, p)
  /\ UNCHANGED <<created, announced, fileLocks, subordinates, runtimeSessions, leases>>

\* INSERT INTO session_roles: an unknown role id breaks the foreign key.
CreateRole(t) ==
  /\ pc[t] = "createRole"
  /\ \/ Goto(t, "createRead")
     \/ Finish(t)
  /\ UNCHANGED tables

CreateRead(t) ==
  /\ pc[t] = "createRead"
  /\ announced' = IF Sid(t) \in clientSessions THEN announced \cup {Sid(t)} ELSE announced
  /\ Finish(t)
  /\ UNCHANGED <<lastActive, clientSessions, created, fileLocks, subordinates,
                 runtimeSessions, leases>>

-----------------------------------------------------------------------------
(* touch_or_error, the first statement of every session-scoped command.    *)

AfterTouch(c) == IF c = "open" THEN "openSelect" ELSE "closeDelete"

Touch(t) ==
  /\ pc[t] = "touch"
  /\ IF Sid(t) \in clientSessions
       THEN /\ lastActive' = [lastActive EXCEPT ![Sid(t)] = now]
            /\ IF job[t].cmd = "touch" THEN Finish(t) ELSE Goto(t, AfterTouch(job[t].cmd))
       ELSE UNCHANGED lastActive /\ Finish(t)
  /\ UNCHANGED <<clientSessions, created, announced, fileLocks, subordinates,
                 runtimeSessions, leases>>

-----------------------------------------------------------------------------
(* open_session_file: read one holder of the file, insert when there is    *)
(* none.  The holder itself goes on to the lease; another one is refused.  *)

\* Broken variant: the SELECT asks for the caller's own row only.
OpenSelect_OwnRowOnly(t) ==
  /\ pc[t] = "openSelect"
  /\ Goto(t, IF Sid(t) \in Holders(Obj(t)) THEN "relativePath" ELSE "openInsert")
  /\ UNCHANGED tables

OpenSelect(t) ==
  /\ pc[t] = "openSelect"
  /\ \/ Holders(Obj(t)) = {} /\ Goto(t, "openInsert")
     \/ Sid(t) \in Holders(Obj(t)) /\ Goto(t, "relativePath")
     \/ Holders(Obj(t)) \ {Sid(t)} # {} /\ Finish(t)
  /\ UNCHANGED tables

\* Broken variant: no foreign key on session_file_locks.
OpenInsert_NoForeignKey(t) ==
  /\ pc[t] = "openInsert"
  /\ fileLocks' = fileLocks \cup {<<Sid(t), Obj(t)>>}
  /\ Goto(t, "relativePath")
  /\ UNCHANGED <<lastActive, clientSessions, created, announced, subordinates,
                 runtimeSessions, leases>>

\* The row needs its session (foreign key) and must be new (primary key).
OpenInsert(t) ==
  /\ pc[t] = "openInsert"
  /\ IF Sid(t) \in clientSessions /\ <<Sid(t), Obj(t)>> \notin fileLocks
       THEN fileLocks' = fileLocks \cup {<<Sid(t), Obj(t)>>} /\ Goto(t, "relativePath")
       ELSE UNCHANGED fileLocks /\ Finish(t)
  /\ UNCHANGED <<lastActive, clientSessions, created, announced, subordinates,
                 runtimeSessions, leases>>

CloseDelete(t) ==
  /\ pc[t] = "closeDelete"
  /\ fileLocks' = fileLocks \ {<<Sid(t), Obj(t)>>}
  /\ Goto(t, "relativePath")
  /\ UNCHANGED <<lastActive, clientSessions, created, announced, subordinates,
                 runtimeSessions, leases>>

\* _session_file_relative_posix: without a row of the file or a root of the
\* project there is no path to lease or release, and the command ends.
RelativePath(t) ==
  /\ pc[t] = "relativePath"
  /\ Goto(t, "lockSessionValid") \/ Finish(t)
  /\ UNCHANGED tables

-----------------------------------------------------------------------------
(* ensure_client_lock_session: open and close both come here to map the    *)
(* client session to a runtime_lock_sessions row, inserted when missing.   *)

LeaseStep(c) == IF c = "open" THEN "leaseExists" ELSE "leaseFind"

LockSessionValid(t) ==
  /\ pc[t] = "lockSessionValid"
  /\ IF Sid(t) \in clientSessions THEN Goto(t, "lockSessionExists") ELSE Finish(t)
  /\ UNCHANGED tables

LockSessionExists(t) ==
  /\ pc[t] = "lockSessionExists"
  /\ Goto(t, IF Sid(t) \in runtimeSessions THEN LeaseStep(job[t].cmd) ELSE "lockSessionInsert")
  /\ UNCHANGED tables

\* No foreign key ties this row to client_sessions.  A duplicate is caught
\* and accepted.
LockSessionInsert(t) ==
  /\ pc[t] = "lockSessionInsert"
  /\ runtimeSessions' = runtimeSessions \cup {Sid(t)}
  /\ Goto(t, LeaseStep(job[t].cmd))
  /\ UNCHANGED <<lastActive, clientSessions, created, announced, fileLocks, subordinates, leases>>

-----------------------------------------------------------------------------
(* acquire_file_advisory_lease, mode "exclusive".                          *)

SetLease(s, f, n) == leases' = [leases EXCEPT ![s][f] = n]

LeaseExists(t) ==
  /\ pc[t] = "leaseExists"
  /\ IF Sid(t) \in runtimeSessions THEN Goto(t, "leaseSelect") ELSE Finish(t)
  /\ UNCHANGED tables

LeaseSelect(t) ==
  /\ pc[t] = "leaseSelect"
  /\ Goto(t, IF leases[Sid(t)][Obj(t)] > 0 THEN "leaseUpdate" ELSE "leaseInsert")
  /\ UNCHANGED tables

\* refcount = refcount + 1 WHERE ...: no effect, and no error, when the row
\* is gone by now.
LeaseUpdate(t) ==
  /\ pc[t] = "leaseUpdate"
  /\ leases[Sid(t)][Obj(t)] < MaxRef
  /\ IF leases[Sid(t)][Obj(t)] > 0
       THEN SetLease(Sid(t), Obj(t), leases[Sid(t)][Obj(t)] + 1)
       ELSE UNCHANGED leases
  /\ Finish(t)
  /\ UNCHANGED <<lastActive, clientSessions, created, announced, fileLocks, subordinates,
                 runtimeSessions>>

\* Fails when the runtime session is gone (foreign key) or the row exists.
LeaseInsert(t) ==
  /\ pc[t] = "leaseInsert"
  /\ IF Sid(t) \in runtimeSessions /\ leases[Sid(t)][Obj(t)] = 0
       THEN SetLease(Sid(t), Obj(t), 1)
       ELSE UNCHANGED leases
  /\ Finish(t)
  /\ UNCHANGED <<lastActive, clientSessions, created, announced, fileLocks, subordinates,
                 runtimeSessions>>

(* release_file_advisory_lease with force: find the row, delete it.        *)

LeaseFind(t) ==
  /\ pc[t] = "leaseFind"
  /\ IF leases[Sid(t)][Obj(t)] > 0 THEN Goto(t, "leaseDelete") ELSE Finish(t)
  /\ UNCHANGED tables

LeaseDelete(t) ==
  /\ pc[t] = "leaseDelete"
  /\ SetLease(Sid(t), Obj(t), 0)
  /\ Finish(t)
  /\ UNCHANGED <<lastActive, clientSessions, created, announced, fileLocks, subordinates,
                 runtimeSessions>>

-----------------------------------------------------------------------------
(* delete_client_session: read the session and the three counts, decide,   *)
(* then delete what was counted and last the session's row.                *)

See(t, what, present, p) ==
  /\ job' = [job EXCEPT ![t].seen = IF present THEN @ \cup {what} ELSE @]
  /\ pc' = [pc EXCEPT ![t] = p]
  /\ UNCHANGED <<now, tables, faults>>

LocksOf(s) == {l \in fileLocks : l[1] = s}
SubordinatesOf(s) == {l \in subordinates : l[1] = s}
HasLease(s) == \E f \in File : leases[s][f] > 0

DelGet(t) ==
  /\ pc[t] = "delGet"
  /\ IF Sid(t) \in clientSessions THEN Goto(t, "delCountLocks") ELSE Finish(t)
  /\ UNCHANGED tables

DelCountLocks(t) ==
  pc[t] = "delCountLocks" /\ See(t, "locks", LocksOf(Sid(t)) # {}, "delCountSubs")

DelCountSubs(t) ==
  pc[t] = "delCountSubs" /\ See(t, "subs", SubordinatesOf(Sid(t)) # {}, "delCountLeases")

\* The statements that follow are those whose count was not zero.
AfterLocks(seen) == IF "leases" \in seen THEN "delListLeases" ELSE "delSession"
AfterSubs(seen) == IF "locks" \in seen THEN "delLocks" ELSE AfterLocks(seen)
AfterCounts(seen) == IF "subs" \in seen THEN "delSubs" ELSE AfterSubs(seen)

DelCountLeases(t) ==
  /\ pc[t] = "delCountLeases"
  /\ LET seen == job[t].seen \cup (IF HasLease(Sid(t)) THEN {"leases"} ELSE {}) IN
       IF ~job[t].force /\ seen # {}
         THEN Finish(t) /\ UNCHANGED tables
         ELSE See(t, "leases", HasLease(Sid(t)), AfterCounts(seen))

DelSubs(t) ==
  /\ pc[t] = "delSubs"
  /\ subordinates' = subordinates \ SubordinatesOf(Sid(t))
  /\ Goto(t, AfterSubs(job[t].seen))
  /\ UNCHANGED <<lastActive, clientSessions, created, announced, fileLocks, runtimeSessions, leases>>

DelLocks(t) ==
  /\ pc[t] = "delLocks"
  /\ fileLocks' = fileLocks \ LocksOf(Sid(t))
  /\ Goto(t, AfterLocks(job[t].seen))
  /\ UNCHANGED <<lastActive, clientSessions, created, announced, subordinates,
                 runtimeSessions, leases>>

\* force_release_session_advisory_locks: lists the files, releases each by its
\* name (sidecar and row), deletes what rows are left, then the runtime row.
DelListLeases(t) ==
  /\ pc[t] = "delListLeases"
  /\ job' = [job EXCEPT ![t].files = {f \in File : leases[Sid(t)][f] > 0}]
  /\ pc' = [pc EXCEPT ![t] = "delLease"]
  /\ UNCHANGED <<now, tables, faults>>

DelLease(t) ==
  /\ pc[t] = "delLease"
  /\ \/ \E f \in job[t].files :
          /\ SetLease(Sid(t), f, 0)
          /\ job' = [job EXCEPT ![t].files = @ \ {f}]
          /\ UNCHANGED <<now, pc, faults>>
     \/ job[t].files = {} /\ Goto(t, "delLeases") /\ UNCHANGED leases
  /\ UNCHANGED <<lastActive, clientSessions, created, announced, fileLocks, subordinates,
                 runtimeSessions>>

DelLeases(t) ==
  /\ pc[t] = "delLeases"
  /\ leases' = [leases EXCEPT ![Sid(t)] = [f \in File |-> 0]]
  /\ Goto(t, "delRuntime")
  /\ UNCHANGED <<lastActive, clientSessions, created, announced, fileLocks, subordinates,
                 runtimeSessions>>

\* A lease inserted meanwhile goes with its runtime session (ON DELETE CASCADE).
DelRuntime(t) ==
  /\ pc[t] = "delRuntime"
  /\ runtimeSessions' = runtimeSessions \ {Sid(t)}
  /\ leases' = [leases EXCEPT ![Sid(t)] = [f \in File |-> 0]]
  /\ Goto(t, "delSession")
  /\ UNCHANGED <<lastActive, clientSessions, created, announced, fileLocks, subordinates>>

\* The row, and by cascade every file lock and link of the session.
DelSession(t) ==
  /\ pc[t] = "delSession"
  /\ clientSessions' = clientSessions \ {Sid(t)}
  /\ lastActive' = [lastActive EXCEPT ![Sid(t)] = 0]
  /\ fileLocks' = fileLocks \ LocksOf(Sid(t))
  /\ subordinates' = subordinates \ SubordinatesOf(Sid(t))
  /\ Finish(t)
  /\ UNCHANGED <<created, announced, runtimeSessions, leases>>

-----------------------------------------------------------------------------
(* create_subordinate_session and delete_subordinate_session.              *)

LinkValid(t) ==
  /\ pc[t] = "linkValid"
  /\ IF Sid(t) \in clientSessions THEN Goto(t, "linkExists") ELSE Finish(t)
  /\ UNCHANGED tables

LinkExists(t) ==
  /\ pc[t] = "linkExists"
  /\ IF <<Sid(t), Obj(t)>> \in subordinates THEN Finish(t) ELSE Goto(t, "linkInsert")
  /\ UNCHANGED tables

LinkInsert(t) ==
  /\ pc[t] = "linkInsert"
  /\ subordinates' = IF Sid(t) \in clientSessions
                       THEN subordinates \cup {<<Sid(t), Obj(t)>>} ELSE subordinates
  /\ Finish(t)
  /\ UNCHANGED <<lastActive, clientSessions, created, announced, fileLocks,
                 runtimeSessions, leases>>

UnlinkDelete(t) ==
  /\ pc[t] = "unlinkDelete"
  /\ subordinates' = subordinates \ {<<Sid(t), Obj(t)>>}
  /\ Finish(t)
  /\ UNCHANGED <<lastActive, clientSessions, created, announced, fileLocks,
                 runtimeSessions, leases>>

-----------------------------------------------------------------------------
(* sweep_dead_sessions, run by the reaper over every session and by        *)
(* session_reap_dead over the sessions it names (its "scope").             *)

Sweepers == {Reaper} \cup {w \in Worker : "sweep" \in Commands[w]}

\* Broken variant: the deletions of a sweep are not forced.
StartSweep_WithoutForce(t) ==
  /\ pc[t] = "idle"
  /\ t \in Sweepers
  /\ pc' = [pc EXCEPT ![t] = "sweepList"]
  /\ job' = [job EXCEPT ![t] = [NoJob EXCEPT !.cmd = "sweep"]]
  /\ UNCHANGED <<now, tables, faults>>

StartSweep(t) ==
  /\ pc[t] = "idle"
  /\ t \in Sweepers
  /\ pc' = [pc EXCEPT ![t] = "sweepList"]
  /\ job' = [job EXCEPT ![t] = [NoJob EXCEPT !.cmd = "sweep", !.force = TRUE]]
  /\ UNCHANGED <<now, tables, faults>>

\* The stale sessions are listed once, before the first deletion.
SweepList(t) ==
  /\ pc[t] = "sweepList"
  /\ \E scope \in IF t = Reaper THEN {Session} ELSE SUBSET announced :
       job' = [job EXCEPT ![t].todo = {s \in scope : Stale(s)}]
  /\ pc' = [pc EXCEPT ![t] = "sweepNext"]
  /\ UNCHANGED <<now, tables, faults>>

SweepNext(t) ==
  /\ pc[t] = "sweepNext"
  /\ \/ \E s \in job[t].todo :
          /\ job' = [job EXCEPT ![t].todo = @ \ {s}, ![t].sid = s, ![t].seen = {}]
          /\ pc' = [pc EXCEPT ![t] = "delGet"]
     \/ /\ job[t].todo = {}
        /\ job' = [job EXCEPT ![t] = NoJob]
        /\ pc' = [pc EXCEPT ![t] = "idle"]
  /\ UNCHANGED <<now, tables, faults>>

-----------------------------------------------------------------------------
(* The environment: clients, time, failing statements, restarts.           *)

StartCommand(t) ==
  \E s \in announced :
    \/ Start(t, "touch", s, None, FALSE, "touch")
    \/ \E f \in File : Start(t, "open", s, f, FALSE, "touch")
    \/ \E f \in File : Start(t, "close", s, f, FALSE, "touch")
    \/ \E force \in BOOLEAN : Start(t, "delete", s, None, force, "delGet")
    \/ \E v \in Server : Start(t, "link", s, v, FALSE, "linkValid")
    \/ \E v \in Server : Start(t, "unlink", s, v, FALSE, "unlinkDelete")

Tick == now < MaxTime /\ now' = now + 1 /\ UNCHANGED <<tables, pc, job, faults>>

\* A statement raises; it changed nothing, the earlier ones stay.
StatementFails(t) ==
  /\ pc[t] \notin {"idle", "sweepNext"}
  /\ faults < MaxFaults
  /\ faults' = faults + 1
  /\ IF job[t].cmd = "sweep" /\ pc[t] # "sweepList"
       THEN pc' = [pc EXCEPT ![t] = "sweepNext"] /\ UNCHANGED job
       ELSE pc' = [pc EXCEPT ![t] = "idle"] /\ job' = [job EXCEPT ![t] = NoJob]
  /\ UNCHANGED <<now, tables>>

\* The server process dies and comes back: the threads are gone, the tables stay.
Restart ==
  /\ faults < MaxFaults
  /\ faults' = faults + 1
  /\ pc' = [t \in Thread |-> "idle"]
  /\ job' = [t \in Thread |-> NoJob]
  /\ UNCHANGED <<now, tables>>

Init ==
  /\ now = 0
  /\ lastActive = [s \in Session |-> 0]
  /\ clientSessions = {}
  /\ created = {}
  /\ announced = {}
  /\ fileLocks = {}
  /\ subordinates = {}
  /\ runtimeSessions = {}
  /\ leases = [s \in Session |-> [f \in File |-> 0]]
  /\ pc = [t \in Thread |-> "idle"]
  /\ job = [t \in Thread |-> NoJob]
  /\ raced = {}
  /\ faults = 0

\* One statement of the command thread t runs.
Step(t) ==
  \/ CreateRow(t) \/ CreateRole(t) \/ CreateRead(t)
  \/ Touch(t) \/ OpenSelect(t) \/ OpenInsert(t) \/ CloseDelete(t) \/ RelativePath(t)
  \/ LockSessionValid(t) \/ LockSessionExists(t) \/ LockSessionInsert(t)
  \/ LeaseExists(t) \/ LeaseSelect(t) \/ LeaseUpdate(t) \/ LeaseInsert(t)
  \/ LeaseFind(t) \/ LeaseDelete(t)
  \/ DelGet(t) \/ DelCountLocks(t) \/ DelCountSubs(t) \/ DelCountLeases(t)
  \/ DelSubs(t) \/ DelLocks(t) \/ DelListLeases(t) \/ DelLease(t) \/ DelLeases(t)
  \/ DelRuntime(t) \/ DelSession(t)
  \/ LinkValid(t) \/ LinkExists(t) \/ LinkInsert(t) \/ UnlinkDelete(t)
  \/ SweepList(t) \/ SweepNext(t)

\* Files that two threads have found free and not inserted their locks for yet.
Overlapping ==
  {f \in File : \E t, u \in Thread : /\ t # u
                                     /\ pc[t] = "openInsert" /\ Obj(t) = f
                                     /\ pc[u] = "openInsert" /\ Obj(u) = f}

History == raced' = raced \cup Overlapping'

Next ==
  /\ \/ \E t \in Worker : StartCreate(t) \/ StartCommand(t)
     \/ \E t \in Thread : StartSweep(t) \/ Step(t) \/ StatementFails(t)
     \/ Tick
     \/ Restart
  /\ History

Spec == Init /\ [][Next]_vars

\* The reaper's loop never ends (while True) and its thread is scheduled;
\* nothing is assumed of the clients.
ReaperRuns == WF_vars((StartSweep(Reaper) \/ Step(Reaper)) /\ History)
FairSpec == Spec /\ ReaperRuns

-----------------------------------------------------------------------------
(* Properties.                                                             *)

\* Every variable has its type, and a thread that is idle holds no command.
TypeOK ==
  /\ now \in 0..MaxTime
  /\ lastActive \in [Session -> 0..MaxTime]
  /\ created \subseteq Session
  /\ clientSessions \subseteq Session
  /\ announced \subseteq Session
  /\ fileLocks \subseteq Session \X File
  /\ subordinates \subseteq Session \X Server
  /\ runtimeSessions \subseteq Session
  /\ leases \in [Session -> [File -> 0..MaxRef]]
  /\ pc \in [Thread -> Pc]
  /\ job \in [Thread -> Job]
  /\ raced \subseteq File
  /\ faults \in 0..MaxFaults

\* No lock or link survives its session and no lease its runtime session, even
\* when the command that inserts it started before the session was deleted
\* (the foreign keys and cascades open_session_file, create_subordinate_session
\* and acquire_file_advisory_lease lean on instead of a transaction).
NothingOutlivesItsSession ==
  /\ \A l \in fileLocks : l[1] \in clientSessions
  /\ \A l \in subordinates : l[1] \in clientSessions
  /\ \A s \in Session : HasLease(s) => s \in runtimeSessions

\* Two sessions hold a file only if two opens of it overlapped: both found it
\* free before either inserted its lock.  Deletes, sweeps, failed
\* statements and restarts between the two statements of open_session_file
\* give a file no second holder, although no key spans (project, file).
SecondHolderNeedsOverlap ==
  \A l, m \in fileLocks : l[2] = m[2] /\ l[2] \notin raced => l[1] = m[1]

(* What the code does not guarantee; TLC refutes each with two workers.    *)

\* FileLockedByOtherSessionError: a file held by one session is refused to
\* every other.  Two opens that overlap both insert.
SingleHolder == \A l, m \in fileLocks : l[2] = m[2] => l[1] = m[1]

\* A thread is working for session s.
Busy(s) == \E t \in Thread : job[t].sid = s

\* A deleted session has no advisory lease left once every command for it has
\* ended (force_release_session_advisory_locks): a lease recorded after the
\* count of delete_client_session survives.
NoOrphanLease ==
  \A s \in Session : HasLease(s) /\ ~Busy(s) => s \in clientSessions

\* "naming a session asks for it to be reaped IF it is dead, it does not force
\* the release of a live one" (sweep_dead_sessions): the sweep lists first, and
\* a client that comes back meanwhile is reaped.
ReaperSparesLive ==
  [][\A t \in Thread : \A s \in clientSessions \ clientSessions' :
       job[t].cmd = "sweep" /\ job[t].sid = s /\ pc[t] = "delSession" => Stale(s)]_vars

\* A session_delete without force takes no file lock away: it fails when the
\* session has locks.  The count may be stale by the time the cascade runs.
PlainDeleteKeepsLocks ==
  [][\A t \in Thread :
       job[t].cmd = "delete" /\ ~job[t].force /\ pc'[t] # pc[t]
         => LocksOf(Sid(t)) \subseteq fileLocks']_vars

\* The docstring of create_client_session says that its inserts are one
\* transaction: a role that is refused leaves the session behind.
CreateIsAllOrNothing ==
  [][\A t \in Thread :
       pc[t] = "createRole" /\ pc'[t] = "idle" => Sid(t) \notin clientSessions']_vars

-----------------------------------------------------------------------------
\* A session whose client went silent does not stay stale for ever: the reaper
\* deletes it, and its locks with it, unless its client comes back.
DeadSessionsAreReaped == \A s \in Session : Stale(s) ~> ~Stale(s)
=============================================================================
