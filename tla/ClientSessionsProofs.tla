------------------------ MODULE ClientSessionsProofs ------------------------
(***************************************************************************)
(* Theorems about ClientSessions, for every set of sessions, files,        *)
(* servers and threads and every bound.                                    *)
(*                                                                         *)
(* The inductive invariant is TypeOK with JobOK: a thread at a statement   *)
(* runs the command that statement belongs to and has its arguments.  It   *)
(* is split in the tables and the control state because almost every       *)
(* action changes the control state by Goto or Finish alone.               *)
(***************************************************************************)
EXTENDS ClientSessions, TLAPS

OpenPc == {"openSelect", "openInsert", "leaseExists", "leaseSelect", "leaseUpdate", "leaseInsert"}
ClosePc == {"closeDelete", "leaseFind", "leaseDelete"}
LockPc == {"relativePath", "lockSessionValid", "lockSessionExists", "lockSessionInsert"}
LinkPc == {"linkValid", "linkExists", "linkInsert", "unlinkDelete"}
SweepPc == {"sweepList", "sweepNext"}

\* The statement a thread is at belongs to its command, whose arguments it has.
JobOK(j, p) ==
  /\ p \notin SweepPc \cup {"idle"} => j.sid \in Session
  /\ p \in OpenPc => j.cmd = "open"
  /\ p \in ClosePc => j.cmd = "close"
  /\ p \in LockPc => j.cmd \in {"open", "close"}
  /\ p = "touch" => j.cmd \in {"touch", "open", "close"}
  /\ p \in SweepPc => j.cmd = "sweep"
  /\ j.cmd \in {"open", "close"} => j.obj \in File
  /\ p \in LinkPc => j.obj \in Server

Control ==
  /\ now \in 0..MaxTime
  /\ pc \in [Thread -> Pc]
  /\ job \in [Thread -> Job]
  /\ faults \in 0..MaxFaults
  /\ \A t \in Thread : JobOK(job[t], pc[t])

Tables ==
  /\ lastActive \in [Session -> 0..MaxTime]
  /\ created \subseteq Session
  /\ clientSessions \subseteq Session
  /\ announced \subseteq Session
  /\ fileLocks \subseteq Session \X File
  /\ subordinates \subseteq Session \X Server
  /\ runtimeSessions \subseteq Session
  /\ leases \in [Session -> [File -> 0..MaxRef]]

IInv == Tables /\ Control

USE DEF OpenPc, ClosePc, LockPc, LinkPc, SweepPc

\* The initial state satisfies the invariant.
LEMMA InitIInv == Init => IInv
  BY TimeAssumption, BoundAssumption, NoneAssumption
  DEF Init, IInv, Tables, Control, JobOK, NoJob, Job, Cmd, Counted, Pc

\* A thread with no command has nothing to be checked.
LEMMA NoJobOK == NoJob \in Job /\ JobOK(NoJob, "idle")
  BY TimeAssumption, NoneAssumption DEF NoJob, Job, JobOK, Cmd

\* Moving on to a statement of the same command keeps the control invariant.
LEMMA GotoOK ==
  ASSUME Control, NEW t \in Thread, NEW p \in Pc, Goto(t, p), JobOK(job[t], p)
  PROVE  Control'
  BY DEF Control, Goto

\* So does giving a thread another command and statement.
LEMMA SetJobOK ==
  ASSUME Control, NEW t \in Thread, NEW p \in Pc, NEW j \in Job, JobOK(j, p),
         pc' = [pc EXCEPT ![t] = p], job' = [job EXCEPT ![t] = j],
         now' \in 0..MaxTime, faults' \in 0..MaxFaults
  PROVE  Control'
  BY DEF Control

\* So does ending a command, or one deletion of a sweep.
LEMMA FinishOK ==
  ASSUME Control, NEW t \in Thread, Finish(t)
  PROVE  Control'
<1>1. CASE job[t].cmd = "sweep"
  <2>1. JobOK(job[t], "sweepNext")
    BY <1>1 DEF JobOK, Control
  <2> QED BY <1>1, <2>1 DEF Control, Finish, Pc
<1>2. CASE job[t].cmd # "sweep"
  BY <1>2, NoJobOK DEF Control, Finish, Pc
<1> QED BY <1>1, <1>2

\* The same for a count that is read, which also changes the job.
LEMMA SeeOK ==
  ASSUME Control, NEW t \in Thread, NEW p \in Pc, NEW what \in Counted, NEW present \in BOOLEAN,
         See(t, what, present, p), JobOK(job[t], p)
  PROVE  Control'
<1> DEFINE j == [job[t] EXCEPT !.seen = IF present THEN @ \cup {what} ELSE @]
<1>1. job[t] \in Job
  BY DEF Control
<1>2. j \in Job /\ JobOK(j, p)
  BY <1>1 DEF Job, JobOK
<1>3. job' = [job EXCEPT ![t] = j]
  BY DEF See, Control
<1> QED BY <1>2, <1>3, SetJobOK DEF See, Control

-----------------------------------------------------------------------------
\* What the invariant says of the thread that takes a step.
LEMMA AtThread ==
  ASSUME IInv, NEW t \in Thread
  PROVE  /\ pc[t] \in Pc /\ job[t] \in Job /\ JobOK(job[t], pc[t])
         /\ job[t].seen \subseteq Counted /\ job[t].todo \subseteq Session
         /\ job[t].force \in BOOLEAN
  BY DEF IInv, Control, Job

\* The statements of session_create and the touch keep the invariant.
LEMMA CreateAndTouchOK ==
  ASSUME IInv, NEW t \in Thread,
         CreateRow(t) \/ CreateRole(t) \/ CreateRead(t) \/ Touch(t)
  PROVE  IInv'
<1>1. CASE CreateRow(t)
  <2>1. Control'
    BY <1>1, AtThread, GotoOK, FinishOK DEF CreateRow, JobOK, Pc, IInv
  <2>2. Tables'
    BY <1>1, AtThread, BoundAssumption DEF CreateRow, JobOK, Sid, Obj, IInv, Tables, Control, tables
  <2> QED BY <2>1, <2>2 DEF IInv
<1>2. CASE CreateRole(t)
  <2>1. Control'
    BY <1>2, AtThread, GotoOK, FinishOK DEF CreateRole, JobOK, Pc, IInv
  <2>2. Tables'
    BY <1>2, AtThread, BoundAssumption DEF CreateRole, JobOK, Sid, Obj, IInv, Tables, Control, tables
  <2> QED BY <2>1, <2>2 DEF IInv
<1>3. CASE CreateRead(t)
  <2>1. Control'
    BY <1>3, AtThread, GotoOK, FinishOK DEF CreateRead, JobOK, Pc, IInv
  <2>2. Tables'
    BY <1>3, AtThread, BoundAssumption DEF CreateRead, JobOK, Sid, Obj, IInv, Tables, Control, tables
  <2> QED BY <2>1, <2>2 DEF IInv
<1>4. CASE Touch(t)
  <2>1. Control'
    BY <1>4, AtThread, GotoOK, FinishOK DEF Touch, JobOK, Pc, IInv, AfterTouch
  <2>2. Tables'
    BY <1>4, AtThread, BoundAssumption DEF Touch, JobOK, Sid, Obj, IInv, Tables, Control, tables, AfterTouch
  <2> QED BY <2>1, <2>2 DEF IInv
<1> QED BY <1>1, <1>2, <1>3, <1>4

\* The lock statements of open and close, and the mapping to a runtime session, keep it.
LEMMA OpenCloseOK ==
  ASSUME IInv, NEW t \in Thread,
         OpenSelect(t) \/ OpenInsert(t) \/ CloseDelete(t) \/ RelativePath(t)
           \/ LockSessionValid(t) \/ LockSessionExists(t) \/ LockSessionInsert(t)
  PROVE  IInv'
<1>1. CASE OpenSelect(t)
  <2>1. Control'
    BY <1>1, AtThread, GotoOK, FinishOK DEF OpenSelect, JobOK, Pc, IInv
  <2>2. Tables'
    BY <1>1, AtThread, BoundAssumption DEF OpenSelect, JobOK, Sid, Obj, IInv, Tables, Control, tables
  <2> QED BY <2>1, <2>2 DEF IInv
<1>2. CASE OpenInsert(t)
  <2>1. Control'
    BY <1>2, AtThread, GotoOK, FinishOK DEF OpenInsert, JobOK, Pc, IInv
  <2>2. Tables'
    BY <1>2, AtThread, BoundAssumption DEF OpenInsert, JobOK, Sid, Obj, IInv, Tables, Control, tables
  <2> QED BY <2>1, <2>2 DEF IInv
<1>3. CASE CloseDelete(t)
  <2>1. Control'
    BY <1>3, AtThread, GotoOK, FinishOK DEF CloseDelete, JobOK, Pc, IInv
  <2>2. Tables'
    BY <1>3, AtThread, BoundAssumption DEF CloseDelete, JobOK, Sid, Obj, IInv, Tables, Control, tables
  <2> QED BY <2>1, <2>2 DEF IInv
<1>4. CASE LockSessionValid(t)
  <2>1. Control'
    BY <1>4, AtThread, GotoOK, FinishOK DEF LockSessionValid, JobOK, Pc, IInv
  <2>2. Tables'
    BY <1>4, AtThread, BoundAssumption DEF LockSessionValid, JobOK, Sid, Obj, IInv, Tables, Control, tables
  <2> QED BY <2>1, <2>2 DEF IInv
<1>5. CASE LockSessionExists(t)
  <2>1. Control'
    BY <1>5, AtThread, GotoOK, FinishOK DEF LockSessionExists, JobOK, Pc, IInv, LeaseStep
  <2>2. Tables'
    BY <1>5, AtThread, BoundAssumption DEF LockSessionExists, JobOK, Sid, Obj, IInv, Tables, Control, tables, LeaseStep
  <2> QED BY <2>1, <2>2 DEF IInv
<1>6. CASE LockSessionInsert(t)
  <2>1. Control'
    BY <1>6, AtThread, GotoOK, FinishOK DEF LockSessionInsert, JobOK, Pc, IInv, LeaseStep
  <2>2. Tables'
    BY <1>6, AtThread, BoundAssumption DEF LockSessionInsert, JobOK, Sid, Obj, IInv, Tables, Control, tables, LeaseStep
  <2> QED BY <2>1, <2>2 DEF IInv
<1>7. CASE RelativePath(t)
  <2>1. Control'
    BY <1>7, AtThread, GotoOK, FinishOK DEF RelativePath, JobOK, Pc, IInv
  <2>2. Tables'
    BY <1>7 DEF RelativePath, IInv, Tables, tables
  <2> QED BY <2>1, <2>2 DEF IInv
<1> QED BY <1>1, <1>2, <1>3, <1>4, <1>5, <1>6, <1>7

\* Setting one refcount within its bound keeps the type of the leases.
LEMMA SetLeaseOK ==
  ASSUME leases \in [Session -> [File -> 0..MaxRef]],
         NEW s \in Session, NEW f \in File, NEW n \in 0..MaxRef, SetLease(s, f, n)
  PROVE  leases' \in [Session -> [File -> 0..MaxRef]]
<1>1. leases[s] \in [File -> 0..MaxRef]
  OBVIOUS
<1>2. [leases[s] EXCEPT ![f] = n] \in [File -> 0..MaxRef]
  BY <1>1
<1> QED BY <1>2 DEF SetLease

\* The lease statements keep it; an increment starts from an existing row below the bound.
LEMMA LeaseOK ==
  ASSUME IInv, NEW t \in Thread,
         LeaseExists(t) \/ LeaseSelect(t) \/ LeaseUpdate(t) \/ LeaseInsert(t) \/ LeaseFind(t) \/ LeaseDelete(t)
  PROVE  IInv'
<1>1. CASE LeaseExists(t)
  <2>1. Control'
    BY <1>1, AtThread, GotoOK, FinishOK DEF LeaseExists, JobOK, Pc, IInv
  <2>2. Tables'
    BY <1>1, AtThread, BoundAssumption DEF LeaseExists, JobOK, Sid, Obj, IInv, Tables, Control, tables
  <2> QED BY <2>1, <2>2 DEF IInv
<1>2. CASE LeaseSelect(t)
  <2>1. Control'
    BY <1>2, AtThread, GotoOK, FinishOK DEF LeaseSelect, JobOK, Pc, IInv
  <2>2. Tables'
    BY <1>2, AtThread, BoundAssumption DEF LeaseSelect, JobOK, Sid, Obj, IInv, Tables, Control, tables
  <2> QED BY <2>1, <2>2 DEF IInv
<1>3. CASE LeaseUpdate(t)
  <2>1. Control'
    BY <1>3, AtThread, GotoOK, FinishOK DEF LeaseUpdate, JobOK, Pc, IInv
  <2>2. Sid(t) \in Session /\ Obj(t) \in File
    BY <1>3, AtThread DEF LeaseUpdate, JobOK, Sid, Obj
  <2>3. leases[Sid(t)][Obj(t)] \in 0..MaxRef /\ leases[Sid(t)][Obj(t)] < MaxRef
    BY <1>3, <2>2 DEF LeaseUpdate, IInv, Tables
  <2>4. leases[Sid(t)][Obj(t)] + 1 \in 0..MaxRef
    BY <2>3, BoundAssumption
  <2>5. leases' \in [Session -> [File -> 0..MaxRef]]
    <3>1. leases \in [Session -> [File -> 0..MaxRef]]
      BY DEF IInv, Tables
    <3>2. CASE SetLease(Sid(t), Obj(t), leases[Sid(t)][Obj(t)] + 1)
      BY <2>2, <2>4, <3>1, <3>2, SetLeaseOK
    <3>3. CASE UNCHANGED leases
      BY <3>1, <3>3
    <3> QED BY <1>3, <3>2, <3>3 DEF LeaseUpdate
  <2>6. Tables'
    BY <1>3, <2>5 DEF LeaseUpdate, IInv, Tables
  <2> QED BY <2>1, <2>6 DEF IInv
<1>4. CASE LeaseInsert(t)
  <2>1. Control'
    BY <1>4, FinishOK DEF LeaseInsert, IInv
  <2>2. Sid(t) \in Session /\ Obj(t) \in File
    BY <1>4, AtThread DEF LeaseInsert, JobOK, Sid, Obj
  <2>3. SetLease(Sid(t), Obj(t), 1) \/ UNCHANGED leases
    BY <1>4 DEF LeaseInsert
  <2>4. leases' \in [Session -> [File -> 0..MaxRef]]
    BY <2>2, <2>3, SetLeaseOK, BoundAssumption DEF IInv, Tables
  <2>5. Tables'
    BY <1>4, <2>4 DEF LeaseInsert, IInv, Tables
  <2> QED BY <2>1, <2>5 DEF IInv
<1>5. CASE LeaseFind(t)
  <2>1. Control'
    BY <1>5, AtThread, GotoOK, FinishOK DEF LeaseFind, JobOK, Pc, IInv
  <2>2. Tables'
    BY <1>5, AtThread, BoundAssumption DEF LeaseFind, JobOK, Sid, Obj, IInv, Tables, Control, tables
  <2> QED BY <2>1, <2>2 DEF IInv
<1>6. CASE LeaseDelete(t)
  <2>1. Control'
    BY <1>6, FinishOK DEF LeaseDelete, IInv
  <2>2. Sid(t) \in Session /\ Obj(t) \in File
    BY <1>6, AtThread DEF LeaseDelete, JobOK, Sid, Obj
  <2>3. SetLease(Sid(t), Obj(t), 0) \/ UNCHANGED leases
    BY <1>6 DEF LeaseDelete
  <2>4. leases' \in [Session -> [File -> 0..MaxRef]]
    BY <2>2, <2>3, SetLeaseOK, BoundAssumption DEF IInv, Tables
  <2>5. Tables'
    BY <1>6, <2>4 DEF LeaseDelete, IInv, Tables
  <2> QED BY <2>1, <2>5 DEF IInv
<1> QED BY <1>1, <1>2, <1>3, <1>4, <1>5, <1>6

\* The statements of delete_client_session keep it.
LEMMA DeleteOK ==
  ASSUME IInv, NEW t \in Thread,
         DelGet(t) \/ DelCountLocks(t) \/ DelCountSubs(t) \/ DelCountLeases(t) \/ DelSubs(t) \/ DelLocks(t)
           \/ DelListLeases(t) \/ DelLease(t) \/ DelLeases(t) \/ DelRuntime(t) \/ DelSession(t)
  PROVE  IInv'
<1>1. CASE DelGet(t)
  <2>1. Control'
    BY <1>1, AtThread, GotoOK, FinishOK DEF DelGet, JobOK, Pc, IInv
  <2>2. Tables'
    BY <1>1, AtThread, BoundAssumption DEF DelGet, JobOK, Sid, Obj, IInv, Tables, Control, tables
  <2> QED BY <2>1, <2>2 DEF IInv
<1>2. CASE DelCountLocks(t)
  <2>1. JobOK(job[t], "delCountSubs") /\ "delCountSubs" \in Pc
    BY <1>2, AtThread DEF JobOK, Pc, DelCountLocks
  <2>2. Control'
    BY <1>2, <2>1, SeeOK DEF DelCountLocks, IInv, Counted
  <2> QED BY <1>2, <2>2 DEF DelCountLocks, See, IInv, Tables, tables
<1>3. CASE DelCountSubs(t)
  <2>1. JobOK(job[t], "delCountLeases") /\ "delCountLeases" \in Pc
    BY <1>3, AtThread DEF JobOK, Pc, DelCountSubs
  <2>2. Control'
    BY <1>3, <2>1, SeeOK DEF DelCountSubs, IInv, Counted
  <2> QED BY <1>3, <2>2 DEF DelCountSubs, See, IInv, Tables, tables
<1>4. CASE DelCountLeases(t)
  <2> DEFINE seen == job[t].seen \cup (IF HasLease(Sid(t)) THEN {"leases"} ELSE {})
  <2>1. JobOK(job[t], AfterCounts(seen)) /\ AfterCounts(seen) \in Pc
    BY <1>4, AtThread DEF JobOK, Pc, DelCountLeases, AfterCounts, AfterSubs, AfterLocks
  <2>2. CASE ~job[t].force /\ seen # {}
    BY <1>4, <2>2, FinishOK DEF DelCountLeases, IInv, Tables, tables
  <2>3. CASE ~(~job[t].force /\ seen # {})
    <3>1. See(t, "leases", HasLease(Sid(t)), AfterCounts(seen))
      BY <1>4, <2>3 DEF DelCountLeases
    <3>2. HasLease(Sid(t)) \in BOOLEAN /\ "leases" \in Counted
      BY DEF HasLease, Counted
    <3>3. Control'
      BY <2>1, <3>1, <3>2, SeeOK DEF IInv
    <3> QED BY <3>1, <3>3 DEF See, IInv, Tables, tables
  <2> QED BY <2>2, <2>3
<1>5. CASE DelSubs(t)
  <2>1. Control'
    BY <1>5, AtThread, GotoOK, FinishOK DEF DelSubs, JobOK, Pc, IInv, SubordinatesOf, AfterSubs, AfterLocks
  <2>2. Tables'
    BY <1>5, AtThread, BoundAssumption DEF DelSubs, JobOK, Sid, Obj, IInv, Tables, Control, tables, SubordinatesOf, AfterSubs, AfterLocks
  <2> QED BY <2>1, <2>2 DEF IInv
<1>6. CASE DelLocks(t)
  <2>1. Control'
    BY <1>6, AtThread, GotoOK, FinishOK DEF DelLocks, JobOK, Pc, IInv, LocksOf, AfterLocks
  <2>2. Tables'
    BY <1>6, AtThread, BoundAssumption DEF DelLocks, JobOK, Sid, Obj, IInv, Tables, Control, tables, LocksOf, AfterLocks
  <2> QED BY <2>1, <2>2 DEF IInv
<1>7. CASE DelLeases(t)
  <2>1. Control'
    BY <1>7, AtThread, GotoOK, FinishOK DEF DelLeases, JobOK, Pc, IInv
  <2>2. Tables'
    BY <1>7, AtThread, BoundAssumption DEF DelLeases, JobOK, Sid, Obj, IInv, Tables, Control, tables
  <2> QED BY <2>1, <2>2 DEF IInv
<1>8. CASE DelRuntime(t)
  <2>1. Control'
    BY <1>8, AtThread, GotoOK, FinishOK DEF DelRuntime, JobOK, Pc, IInv
  <2>2. Tables'
    BY <1>8, AtThread, BoundAssumption DEF DelRuntime, JobOK, Sid, Obj, IInv, Tables, Control, tables
  <2> QED BY <2>1, <2>2 DEF IInv
<1>9. CASE DelSession(t)
  <2>1. Control'
    BY <1>9, AtThread, GotoOK, FinishOK DEF DelSession, JobOK, Pc, IInv
  <2>2. Tables'
    BY <1>9, AtThread, TimeAssumption DEF DelSession, JobOK, Sid, Obj, IInv, Tables, Control, tables, LocksOf, SubordinatesOf
  <2> QED BY <2>1, <2>2 DEF IInv
<1>10. CASE DelListLeases(t)
  <2> DEFINE j == [job[t] EXCEPT !.files = {f \in File : leases[Sid(t)][f] > 0}]
  <2>1. j \in Job /\ JobOK(j, "delLease") /\ "delLease" \in Pc
    BY <1>10, AtThread DEF DelListLeases, JobOK, Job, Pc
  <2>2. job' = [job EXCEPT ![t] = j]
    BY <1>10 DEF DelListLeases, IInv, Control
  <2>3. Control'
    BY <1>10, <2>1, <2>2, SetJobOK DEF DelListLeases, IInv, Control
  <2> QED BY <1>10, <2>3 DEF DelListLeases, IInv, Tables, tables
<1>11. CASE DelLease(t)
  <2>1. ASSUME NEW f \in job[t].files, SetLease(Sid(t), f, 0),
               job' = [job EXCEPT ![t].files = @ \ {f}], UNCHANGED <<now, pc, faults>>
        PROVE  IInv'
    <3> DEFINE j == [job[t] EXCEPT !.files = @ \ {f}]
    <3>1. pc[t] = "delLease" /\ job[t] \in Job /\ Sid(t) \in Session /\ f \in File
      BY <1>11, <2>1, AtThread DEF DelLease, JobOK, Job, Sid
    <3>2. j \in Job /\ JobOK(j, "delLease") /\ "delLease" \in Pc
      BY <1>11, <3>1, AtThread DEF JobOK, Job, Pc
    <3>3. job' = [job EXCEPT ![t] = j] /\ pc' = [pc EXCEPT ![t] = "delLease"]
      BY <2>1, <3>1 DEF IInv, Control
    <3>4. Control'
      BY <2>1, <3>2, <3>3, SetJobOK DEF IInv, Control
    <3>5. leases' \in [Session -> [File -> 0..MaxRef]]
      <4>1. leases \in [Session -> [File -> 0..MaxRef]] /\ 0 \in 0..MaxRef
        BY BoundAssumption DEF IInv, Tables

      <4> QED BY <2>1, <3>1, <4>1, SetLeaseOK
    <3> QED BY <1>11, <3>4, <3>5 DEF DelLease, IInv, Tables
  <2>2. ASSUME Goto(t, "delLeases"), UNCHANGED leases
        PROVE  IInv'
    <3>1. Control'
      BY <1>11, <2>2, AtThread, GotoOK DEF DelLease, JobOK, Pc, IInv
    <3> QED BY <1>11, <2>2, <3>1 DEF DelLease, IInv, Tables
  <2> QED BY <1>11, <2>1, <2>2 DEF DelLease
<1> QED BY <1>1, <1>2, <1>3, <1>4, <1>5, <1>6, <1>7, <1>8, <1>9, <1>10, <1>11

\* The statements about subordinate links keep it.
LEMMA LinkOK ==
  ASSUME IInv, NEW t \in Thread,
         LinkValid(t) \/ LinkExists(t) \/ LinkInsert(t) \/ UnlinkDelete(t)
  PROVE  IInv'
<1>1. CASE LinkValid(t)
  <2>1. Control'
    BY <1>1, AtThread, GotoOK, FinishOK DEF LinkValid, JobOK, Pc, IInv
  <2>2. Tables'
    BY <1>1, AtThread, BoundAssumption DEF LinkValid, JobOK, Sid, Obj, IInv, Tables, Control, tables
  <2> QED BY <2>1, <2>2 DEF IInv
<1>2. CASE LinkExists(t)
  <2>1. Control'
    BY <1>2, AtThread, GotoOK, FinishOK DEF LinkExists, JobOK, Pc, IInv
  <2>2. Tables'
    BY <1>2, AtThread, BoundAssumption DEF LinkExists, JobOK, Sid, Obj, IInv, Tables, Control, tables
  <2> QED BY <2>1, <2>2 DEF IInv
<1>3. CASE LinkInsert(t)
  <2>1. Control'
    BY <1>3, AtThread, GotoOK, FinishOK DEF LinkInsert, JobOK, Pc, IInv
  <2>2. Tables'
    BY <1>3, AtThread, BoundAssumption DEF LinkInsert, JobOK, Sid, Obj, IInv, Tables, Control, tables
  <2> QED BY <2>1, <2>2 DEF IInv
<1>4. CASE UnlinkDelete(t)
  <2>1. Control'
    BY <1>4, AtThread, GotoOK, FinishOK DEF UnlinkDelete, JobOK, Pc, IInv
  <2>2. Tables'
    BY <1>4, AtThread, BoundAssumption DEF UnlinkDelete, JobOK, Sid, Obj, IInv, Tables, Control, tables
  <2> QED BY <2>1, <2>2 DEF IInv
<1> QED BY <1>1, <1>2, <1>3, <1>4

-----------------------------------------------------------------------------
\* Starting a command gives an idle thread the arguments its statements need.
LEMMA StartOK ==
  ASSUME IInv, NEW t \in Worker, StartCreate(t) \/ StartCommand(t)
  PROVE  IInv'
<1>1. t \in Thread
  BY DEF Thread
<1>2. CASE StartCreate(t)
  <2>1. PICK s \in Session \ created :
          /\ created' = created \cup {s}
          /\ pc' = [pc EXCEPT ![t] = "createRow"]
          /\ job' = [job EXCEPT ![t] = [NoJob EXCEPT !.cmd = "create", !.sid = s]]
          /\ UNCHANGED <<now, faults, lastActive, clientSessions, announced, fileLocks,
                         subordinates, runtimeSessions, leases>>
    BY <1>2 DEF StartCreate
  <2> DEFINE j == [NoJob EXCEPT !.cmd = "create", !.sid = s]
  <2>2. j \in Job /\ JobOK(j, "createRow") /\ "createRow" \in Pc
    BY NoJobOK DEF NoJob, Job, Cmd, JobOK, Pc
  <2>3. Control'
    BY <1>1, <2>1, <2>2, SetJobOK DEF IInv, Control
  <2> QED BY <2>1, <2>3 DEF IInv, Tables
<1>3. ASSUME NEW s \in Session, NEW c \in Cmd, NEW o \in File \cup Server \cup {None},
             NEW f \in BOOLEAN, NEW p \in Pc, Start(t, c, s, o, f, p),
             JobOK([NoJob EXCEPT !.cmd = c, !.sid = s, !.obj = o, !.force = f], p)
      PROVE  IInv'
  <2> DEFINE j == [NoJob EXCEPT !.cmd = c, !.sid = s, !.obj = o, !.force = f]
  <2>1. j \in Job
    BY NoJobOK DEF NoJob, Job
  <2>2. Control'
    BY <1>1, <1>3, <2>1, SetJobOK DEF Start, IInv, Control
  <2> QED BY <1>3, <2>2 DEF Start, IInv, Tables, tables
<1>4. CASE StartCommand(t)
  <2>1. PICK s \in announced :
          \/ Start(t, "touch", s, None, FALSE, "touch")
          \/ \E f \in File : Start(t, "open", s, f, FALSE, "touch")
          \/ \E f \in File : Start(t, "close", s, f, FALSE, "touch")
          \/ \E force \in BOOLEAN : Start(t, "delete", s, None, force, "delGet")
          \/ \E v \in Server : Start(t, "link", s, v, FALSE, "linkValid")
          \/ \E v \in Server : Start(t, "unlink", s, v, FALSE, "unlinkDelete")
    BY <1>4 DEF StartCommand
  <2>2. s \in Session
    BY DEF IInv, Tables
  <2>3. CASE Start(t, "touch", s, None, FALSE, "touch")
    BY <1>3, <2>2, <2>3 DEF JobOK, NoJob, Cmd, Pc
  <2>4. ASSUME NEW f \in File, Start(t, "open", s, f, FALSE, "touch")
        PROVE  IInv'
    BY <1>3, <2>2, <2>4 DEF JobOK, NoJob, Cmd, Pc
  <2>5. ASSUME NEW f \in File, Start(t, "close", s, f, FALSE, "touch")
        PROVE  IInv'
    BY <1>3, <2>2, <2>5 DEF JobOK, NoJob, Cmd, Pc
  <2>6. ASSUME NEW force \in BOOLEAN, Start(t, "delete", s, None, force, "delGet")
        PROVE  IInv'
    BY <1>3, <2>2, <2>6 DEF JobOK, NoJob, Cmd, Pc
  <2>7. ASSUME NEW v \in Server, Start(t, "link", s, v, FALSE, "linkValid")
        PROVE  IInv'
    <3>1. JobOK([NoJob EXCEPT !.cmd = "link", !.sid = s, !.obj = v, !.force = FALSE], "linkValid")
      BY <2>2 DEF JobOK, NoJob
    <3>2. "link" \in Cmd /\ "linkValid" \in Pc
      BY DEF Cmd, Pc
    <3> QED BY <1>3, <2>2, <2>7, <3>1, <3>2
  <2>8. ASSUME NEW v \in Server, Start(t, "unlink", s, v, FALSE, "unlinkDelete")
        PROVE  IInv'
    <3>1. JobOK([NoJob EXCEPT !.cmd = "unlink", !.sid = s, !.obj = v, !.force = FALSE], "unlinkDelete")
      BY <2>2 DEF JobOK, NoJob
    <3>2. "unlink" \in Cmd /\ "unlinkDelete" \in Pc
      BY DEF Cmd, Pc
    <3> QED BY <1>3, <2>2, <2>8, <3>1, <3>2
  <2> QED BY <2>1, <2>3, <2>4, <2>5, <2>6, <2>7, <2>8
<1> QED BY <1>2, <1>4

\* The sweep's own statements keep the invariant.
LEMMA SweepOK ==
  ASSUME IInv, NEW t \in Thread, StartSweep(t) \/ SweepList(t) \/ SweepNext(t)
  PROVE  IInv'
<1>1. CASE StartSweep(t)
  <2> DEFINE j == [NoJob EXCEPT !.cmd = "sweep", !.force = TRUE]
  <2>1. j \in Job /\ JobOK(j, "sweepList") /\ "sweepList" \in Pc
    BY NoJobOK DEF NoJob, Job, Cmd, JobOK, Pc
  <2>2. Control'
    BY <1>1, <2>1, SetJobOK DEF StartSweep, IInv, Control
  <2> QED BY <1>1, <2>2 DEF StartSweep, IInv, Tables, tables
<1>2. CASE SweepList(t)
  <2>1. PICK scope : job' = [job EXCEPT ![t].todo = {s \in scope : Stale(s)}]
    BY <1>2 DEF SweepList
  <2> DEFINE j == [job[t] EXCEPT !.todo = {s \in scope : Stale(s)}]
  <2>2. {s \in scope : Stale(s)} \subseteq Session
    BY DEF Stale, IInv, Tables
  <2>3. j \in Job /\ JobOK(j, "sweepNext") /\ "sweepNext" \in Pc
    <3>1. pc[t] = "sweepList"
      BY <1>2 DEF SweepList
    <3>2. job[t] \in Job /\ job[t].cmd = "sweep"
      BY <3>1, AtThread DEF JobOK, SweepPc
    <3>3. j \in Job
      BY <2>2, <3>1, <3>2 DEF Job
    <3>4. j.cmd = "sweep"
      BY <3>2 DEF Job
    <3>5. "sweepNext" \in SweepPc /\ "sweepNext" \in Pc
      BY DEF SweepPc, Pc
    <3> QED
      BY <3>3, <3>4, <3>5 DEF JobOK, OpenPc, ClosePc, LockPc, LinkPc
  <2>4. job' = [job EXCEPT ![t] = j]
    BY <2>1 DEF IInv, Control
  <2>5. Control'
    BY <1>2, <2>3, <2>4, SetJobOK DEF SweepList, IInv, Control
  <2> QED BY <1>2, <2>5 DEF SweepList, IInv, Tables, tables
<1>3. ASSUME NEW s \in job[t].todo,
             pc[t] = "sweepNext", pc' = [pc EXCEPT ![t] = "delGet"],
             job' = [job EXCEPT ![t].todo = @ \ {s}, ![t].sid = s, ![t].seen = {}],
             UNCHANGED <<now, tables, faults>>
      PROVE  IInv'
  <2> DEFINE j == [job[t] EXCEPT !.todo = @ \ {s}, !.sid = s, !.seen = {}]
  <2>1. s \in Session /\ "delGet" \in Pc
    BY AtThread DEF Pc
  <2>2. j \in Job /\ JobOK(j, "delGet")
    BY <1>3, <2>1, AtThread DEF Job, JobOK
  <2>3. job' = [job EXCEPT ![t] = j]
    BY <1>3 DEF IInv, Control
  <2>4. Control'
    BY <1>3, <2>1, <2>2, <2>3, SetJobOK DEF IInv, Control
  <2> QED BY <1>3, <2>4 DEF IInv, Tables, tables
<1>4. ASSUME job' = [job EXCEPT ![t] = NoJob], pc' = [pc EXCEPT ![t] = "idle"],
             UNCHANGED <<now, tables, faults>>
      PROVE  IInv'
  <2>1. Control'
    BY <1>4, NoJobOK, SetJobOK DEF IInv, Control, Pc
  <2> QED BY <1>4, <2>1 DEF IInv, Tables, tables
<1>5. CASE SweepNext(t)
  BY <1>3, <1>4, <1>5 DEF SweepNext
<1> QED BY <1>1, <1>2, <1>5

\* Time, a failing statement and a restart keep the invariant.
LEMMA EnvironmentOK ==
  ASSUME IInv, Tick \/ Restart \/ \E t \in Thread : StatementFails(t)
  PROVE  IInv'
<1>1. CASE Tick
  BY <1>1, TimeAssumption DEF Tick, IInv, Tables, Control, tables
<1>2. CASE Restart
  BY <1>2, NoJobOK, BoundAssumption DEF Restart, IInv, Tables, Control, tables, Pc
<1>3. ASSUME NEW t \in Thread, StatementFails(t)
      PROVE  IInv'
  <2>1. faults' \in 0..MaxFaults /\ now' \in 0..MaxTime
    BY <1>3, BoundAssumption DEF StatementFails, IInv, Control
  <2>2. CASE job[t].cmd = "sweep" /\ pc[t] # "sweepList"
    <3>1. JobOK(job[t], "sweepNext")
      BY <2>2, AtThread DEF JobOK
    <3> QED BY <1>3, <2>1, <2>2, <3>1 DEF StatementFails, IInv, Control, Tables, tables, Pc
  <2>3. CASE ~(job[t].cmd = "sweep" /\ pc[t] # "sweepList")
    <3>1. Control'
      BY <1>3, <2>1, <2>3, NoJobOK, SetJobOK DEF StatementFails, IInv, Pc
    <3> QED BY <1>3, <3>1 DEF StatementFails, IInv, Tables, tables
  <2> QED BY <2>2, <2>3
<1> QED BY <1>1, <1>2, <1>3

\* Every step keeps the invariant.
LEMMA NextIInv == IInv /\ [Next]_vars => IInv'
<1> SUFFICES ASSUME IInv, [Next]_vars PROVE IInv'
  OBVIOUS
<1>1. ASSUME NEW t \in Thread, Step(t) PROVE IInv'
  BY <1>1, CreateAndTouchOK, OpenCloseOK, LeaseOK, DeleteOK, LinkOK, SweepOK DEF Step
<1>2. CASE UNCHANGED vars
  BY <1>2 DEF vars, tables, IInv, Tables, Control
<1> QED BY <1>1, <1>2, StartOK, SweepOK, EnvironmentOK DEF Next

\* Every reachable state has its type: statements are only ever run with the
\* arguments of the command they belong to, and no refcount leaves its range.
THEOREM TypeCorrect == Spec => []TypeOK
<1> DEFINE Typed == IInv /\ raced \subseteq File
<1>1. Init => Typed
  BY InitIInv DEF Init
<1>2. Typed /\ [Next]_vars => Typed'
  BY NextIInv DEF Next, History, Overlapping, vars
<1>3. Typed => TypeOK
  BY DEF IInv, Tables, Control, TypeOK
<1> QED BY <1>1, <1>2, <1>3, PTL DEF Spec

-----------------------------------------------------------------------------
(* Referential integrity.  Only OpenInsert, LinkInsert and LeaseInsert add  *)
(* rows that need another row, only DelSession and DelRuntime remove the    *)
(* rows they need; every other action leaves or shrinks the dependents.     *)

Unchanging(t) ==
  \/ CreateRole(t) \/ CreateRead(t) \/ Touch(t) \/ OpenSelect(t) \/ RelativePath(t)
  \/ LockSessionValid(t) \/ DelListLeases(t)
  \/ LockSessionExists(t) \/ LeaseExists(t) \/ LeaseSelect(t) \/ LeaseFind(t) \/ DelGet(t)
  \/ DelCountLocks(t) \/ DelCountSubs(t) \/ DelCountLeases(t) \/ LinkValid(t) \/ LinkExists(t)
  \/ SweepList(t) \/ SweepNext(t) \/ StartSweep(t) \/ StatementFails(t)
  \/ StartCreate(t) \/ StartCommand(t)

Related == <<clientSessions, fileLocks, subordinates, runtimeSessions, leases>>

\* The actions that touch none of the tables the foreign keys relate.
LEMMA UnchangingOK ==
  ASSUME NEW t \in Thread, Unchanging(t)
  PROVE  UNCHANGED Related
<1>1. CASE CreateRole(t) \/ CreateRead(t) \/ Touch(t) \/ OpenSelect(t) \/ RelativePath(t)
             \/ LockSessionValid(t) \/ DelListLeases(t)
  BY <1>1 DEF Related, tables, CreateRole, CreateRead, Touch, OpenSelect, RelativePath,
     LockSessionValid, DelListLeases
<1>2. CASE LockSessionExists(t) \/ LeaseExists(t) \/ LeaseSelect(t) \/ LeaseFind(t) \/ DelGet(t)
  BY <1>2 DEF Related, tables, LockSessionExists, LeaseExists, LeaseSelect, LeaseFind, DelGet
<1>3. CASE DelCountLocks(t) \/ DelCountSubs(t) \/ DelCountLeases(t) \/ LinkValid(t) \/ LinkExists(t)
  BY <1>3 DEF Related, tables, DelCountLocks, DelCountSubs, DelCountLeases, See, LinkValid, LinkExists
<1>4. CASE SweepList(t) \/ SweepNext(t) \/ StartSweep(t) \/ StatementFails(t)
  BY <1>4 DEF Related, tables, SweepList, SweepNext, StartSweep, StatementFails
<1>5. CASE StartCreate(t) \/ StartCommand(t)
  BY <1>5 DEF Related, tables, StartCreate, StartCommand, Start
<1> QED BY <1>1, <1>2, <1>3, <1>4, <1>5 DEF Unchanging

\* The foreign keys hold after a step that inserts or deletes a row.
LEMMA StepKeepsForeignKeys ==
  ASSUME IInv, NothingOutlivesItsSession, NEW t \in Thread, Step(t)
  PROVE  NothingOutlivesItsSession'
<1> USE DEF NothingOutlivesItsSession, HasLease
<1>1. CASE Unchanging(t)
  BY <1>1, UnchangingOK DEF Related
<1>2. CASE CreateRow(t)
  BY <1>2 DEF CreateRow
<1>3. CASE OpenInsert(t)
  BY <1>3 DEF OpenInsert
<1>4. CASE CloseDelete(t)
  BY <1>4 DEF CloseDelete
<1>5. CASE LockSessionInsert(t)
  BY <1>5 DEF LockSessionInsert
<1>6. CASE LeaseUpdate(t)
  BY <1>6 DEF LeaseUpdate, SetLease, IInv, Tables
<1>7. CASE LeaseInsert(t)
  BY <1>7 DEF LeaseInsert, SetLease, IInv, Tables
<1>8. CASE LeaseDelete(t)
  BY <1>8 DEF LeaseDelete, SetLease, IInv, Tables
<1>9. CASE DelSubs(t)
  BY <1>9 DEF DelSubs
<1>10. CASE DelLocks(t)
  BY <1>10 DEF DelLocks
<1>11. CASE DelLeases(t)
  BY <1>11 DEF DelLeases, IInv, Tables
<1>12. CASE DelRuntime(t)
  BY <1>12 DEF DelRuntime, IInv, Tables
<1>13. CASE DelSession(t)
  BY <1>13 DEF DelSession, LocksOf, SubordinatesOf
<1>14. CASE LinkInsert(t)
  BY <1>14 DEF LinkInsert
<1>15. CASE UnlinkDelete(t)
  BY <1>15 DEF UnlinkDelete
<1>16. CASE DelLease(t)
  BY <1>16 DEF DelLease, SetLease, IInv, Tables
<1> QED BY <1>1, <1>2, <1>3, <1>4, <1>5, <1>6, <1>7, <1>8, <1>9, <1>10, <1>11, <1>12, <1>13,
           <1>14, <1>15, <1>16 DEF Step, Unchanging

\* Every step keeps the foreign keys.
LEMMA ForeignKeysNext ==
  IInv /\ NothingOutlivesItsSession /\ [Next]_vars => NothingOutlivesItsSession'
<1> SUFFICES ASSUME IInv, NothingOutlivesItsSession, [Next]_vars
             PROVE  NothingOutlivesItsSession'
  OBVIOUS
<1>1. CASE UNCHANGED Related
  BY <1>1 DEF Related, NothingOutlivesItsSession, HasLease
<1>2. ASSUME NEW t \in Worker, StartCreate(t) \/ StartCommand(t)
      PROVE  UNCHANGED Related
  BY <1>2, UnchangingOK DEF Unchanging, Thread
<1>3. ASSUME NEW t \in Thread, StartSweep(t) \/ StatementFails(t)
      PROVE  UNCHANGED Related
  BY <1>3, UnchangingOK DEF Unchanging
<1>4. CASE Tick \/ Restart \/ UNCHANGED vars
  BY <1>4 DEF Tick, Restart, vars, tables, Related, NothingOutlivesItsSession, HasLease
<1> QED BY <1>1, <1>2, <1>3, <1>4, StepKeepsForeignKeys DEF Next

\* No lock, link or lease is ever left behind by a deleted session or runtime
\* session, whatever threads interleave and wherever they are cut off.
THEOREM ForeignKeysHold == Spec => []NothingOutlivesItsSession
<1>1. Init => NothingOutlivesItsSession
  BY DEF Init, NothingOutlivesItsSession, HasLease
<1> QED BY <1>1, ForeignKeysNext, InitIInv, NextIInv, PTL DEF Spec

-----------------------------------------------------------------------------
(* File locks.  Between the SELECT of an open and its INSERT only another   *)
(* open that has found the file free, too, can lock it, and then the file is *)
(* in raced from the moment when both had found it free.                    *)

\* The SELECT of an open that is about to insert is still right.
NoHolderYet ==
  \A t \in Thread : pc[t] = "openInsert" /\ Obj(t) \notin raced => Holders(Obj(t)) = {}

OverlapInv == IInv /\ Overlapping \subseteq raced /\ SecondHolderNeedsOverlap /\ NoHolderYet

\* What a step that inserts no lock leaves of this invariant: locks only go, and
\* a thread comes to the INSERT only from a SELECT that found no holder.
Harmless ==
  /\ fileLocks' \subseteq fileLocks
  /\ \A u \in Thread : pc'[u] = "openInsert" =>
       /\ Obj(u)' = Obj(u)
       /\ pc[u] = "openInsert" \/ Holders(Obj(u)) = {}

\* A harmless step keeps the invariant.
LEMMA HarmlessOK ==
  ASSUME OverlapInv, Harmless, raced \subseteq raced'
  PROVE  (SecondHolderNeedsOverlap /\ NoHolderYet)'
<1>1. SecondHolderNeedsOverlap'
  BY DEF OverlapInv, SecondHolderNeedsOverlap, Harmless
<1>2. NoHolderYet'
  BY DEF OverlapInv, NoHolderYet, Harmless, Holders
<1> QED BY <1>1, <1>2

\* Moving on within a command is harmless unless it moves to the INSERT.
LEMMA GotoHarmless ==
  ASSUME OverlapInv, NEW t \in Thread, NEW p \in Pc, Goto(t, p),
         p = "openInsert" => Holders(Obj(t)) = {},
         fileLocks' \subseteq fileLocks
  PROVE  Harmless
  BY DEF OverlapInv, IInv, Control, Goto, Harmless, Obj

\* Ending a command is harmless.
LEMMA FinishHarmless ==
  ASSUME OverlapInv, NEW t \in Thread, Finish(t), fileLocks' \subseteq fileLocks
  PROVE  Harmless
<1>1. CASE job[t].cmd = "sweep"
  BY <1>1 DEF OverlapInv, IInv, Control, Finish, Harmless, Obj
<1>2. CASE job[t].cmd # "sweep"
  <2>1. pc' = [pc EXCEPT ![t] = "idle"] /\ job' = [job EXCEPT ![t] = NoJob]
    BY <1>2 DEF Finish
  <2> QED BY <2>1 DEF OverlapInv, IInv, Control, Obj, Harmless
<1> QED BY <1>1, <1>2

\* Giving a thread another job is harmless.
LEMMA SetJobHarmless ==
  ASSUME OverlapInv, NEW t \in Thread, NEW p \in Pc \ {"openInsert"}, NEW j,
         pc' = [pc EXCEPT ![t] = p], job' = [job EXCEPT ![t] = j],
         fileLocks' \subseteq fileLocks
  PROVE  Harmless
  BY DEF OverlapInv, IInv, Control, Harmless, Obj, Thread

\* The statements of create, touch, open (but for its INSERT) and close are harmless.
LEMMA CommandsHarmless ==
  ASSUME OverlapInv, NEW t \in Thread,
         CreateRow(t) \/ CreateRole(t) \/ CreateRead(t) \/ Touch(t) \/ OpenSelect(t) \/ CloseDelete(t)
           \/ RelativePath(t) \/ LockSessionValid(t) \/ LockSessionExists(t) \/ LockSessionInsert(t)
           \/ LeaseExists(t) \/ LeaseSelect(t) \/ LeaseUpdate(t) \/ LeaseInsert(t) \/ LeaseFind(t) \/ LeaseDelete(t)
  PROVE  Harmless
<1>1. CASE CreateRow(t)
  BY <1>1, GotoHarmless, FinishHarmless DEF CreateRow, Pc, tables
<1>2. CASE CreateRole(t)
  BY <1>2, GotoHarmless, FinishHarmless DEF CreateRole, Pc, tables
<1>3. CASE CreateRead(t)
  BY <1>3, GotoHarmless, FinishHarmless DEF CreateRead, Pc, tables
<1>4. CASE Touch(t)
  BY <1>4, GotoHarmless, FinishHarmless DEF Touch, Pc, tables, AfterTouch
<1>5. CASE OpenSelect(t)
  BY <1>5, GotoHarmless, FinishHarmless DEF OpenSelect, Pc, tables
<1>6. CASE CloseDelete(t)
  BY <1>6, GotoHarmless, FinishHarmless DEF CloseDelete, Pc, tables
<1>7. CASE LockSessionValid(t)
  BY <1>7, GotoHarmless, FinishHarmless DEF LockSessionValid, Pc, tables
<1>8. CASE LockSessionExists(t)
  BY <1>8, GotoHarmless, FinishHarmless DEF LockSessionExists, Pc, tables, LeaseStep
<1>9. CASE LockSessionInsert(t)
  BY <1>9, GotoHarmless, FinishHarmless DEF LockSessionInsert, Pc, tables, LeaseStep
<1>10. CASE LeaseExists(t)
  BY <1>10, GotoHarmless, FinishHarmless DEF LeaseExists, Pc, tables
<1>11. CASE LeaseSelect(t)
  BY <1>11, GotoHarmless, FinishHarmless DEF LeaseSelect, Pc, tables
<1>12. CASE LeaseUpdate(t)
  BY <1>12, GotoHarmless, FinishHarmless DEF LeaseUpdate, Pc, tables
<1>13. CASE LeaseInsert(t)
  BY <1>13, GotoHarmless, FinishHarmless DEF LeaseInsert, Pc, tables
<1>14. CASE LeaseFind(t)
  BY <1>14, GotoHarmless, FinishHarmless DEF LeaseFind, Pc, tables
<1>15. CASE LeaseDelete(t)
  BY <1>15, GotoHarmless, FinishHarmless DEF LeaseDelete, Pc, tables
<1>16. CASE RelativePath(t)
  BY <1>16, GotoHarmless, FinishHarmless DEF RelativePath, Pc, tables
<1> QED BY <1>1, <1>2, <1>3, <1>4, <1>5, <1>6, <1>7, <1>8, <1>9, <1>10, <1>11, <1>12, <1>13,
           <1>14, <1>15, <1>16

\* So are those of a deletion after its counts, and of the links.
LEMMA DeletesHarmless ==
  ASSUME OverlapInv, NEW t \in Thread,
         DelGet(t) \/ DelSubs(t) \/ DelLocks(t) \/ DelLeases(t) \/ DelRuntime(t) \/ DelSession(t) \/ LinkValid(t) \/ LinkExists(t) \/ LinkInsert(t) \/ UnlinkDelete(t)
  PROVE  Harmless
<1>1. CASE DelGet(t)
  BY <1>1, GotoHarmless, FinishHarmless DEF DelGet, Pc, tables
<1>2. CASE DelSubs(t)
  BY <1>2, GotoHarmless, FinishHarmless DEF DelSubs, Pc, tables, AfterSubs, AfterLocks
<1>3. CASE DelLocks(t)
  BY <1>3, GotoHarmless, FinishHarmless DEF DelLocks, Pc, tables, AfterLocks, LocksOf
<1>4. CASE DelLeases(t)
  BY <1>4, GotoHarmless, FinishHarmless DEF DelLeases, Pc, tables
<1>5. CASE DelRuntime(t)
  BY <1>5, GotoHarmless, FinishHarmless DEF DelRuntime, Pc, tables
<1>6. CASE DelSession(t)
  BY <1>6, GotoHarmless, FinishHarmless DEF DelSession, Pc, tables, LocksOf
<1>7. CASE LinkValid(t)
  BY <1>7, GotoHarmless, FinishHarmless DEF LinkValid, Pc, tables
<1>8. CASE LinkExists(t)
  BY <1>8, GotoHarmless, FinishHarmless DEF LinkExists, Pc, tables
<1>9. CASE LinkInsert(t)
  BY <1>9, GotoHarmless, FinishHarmless DEF LinkInsert, Pc, tables
<1>10. CASE UnlinkDelete(t)
  BY <1>10, GotoHarmless, FinishHarmless DEF UnlinkDelete, Pc, tables
<1> QED BY <1>1, <1>2, <1>3, <1>4, <1>5, <1>6, <1>7, <1>8, <1>9, <1>10

\* So is reading a count.
LEMMA SeeHarmless ==
  ASSUME OverlapInv, NEW t \in Thread, NEW p \in Pc \ {"openInsert"}, NEW what, NEW present,
         See(t, what, present, p)
  PROVE  Harmless
<1> DEFINE j == [job[t] EXCEPT !.seen = IF present THEN @ \cup {what} ELSE @]
<1>1. job' = [job EXCEPT ![t] = j] /\ j.cmd = job[t].cmd
  BY DEF See, OverlapInv, IInv, Control, Job
<1> QED BY <1>1, SetJobHarmless DEF See, tables, OverlapInv

\* So are the counts, the sweep's statements and everything that is not a statement.
LEMMA OthersHarmless ==
  ASSUME OverlapInv, [Next]_vars, \A t \in Thread : Step(t) =>
           DelCountLocks(t) \/ DelCountSubs(t) \/ DelCountLeases(t) \/ DelListLeases(t)
             \/ DelLease(t) \/ SweepList(t) \/ SweepNext(t)
  PROVE  Harmless
<1> USE NoneAssumption
<1>1. ASSUME NEW t \in Thread, DelCountLocks(t) \/ DelCountSubs(t) PROVE Harmless
  BY <1>1, SeeHarmless DEF DelCountLocks, DelCountSubs, Pc
<1>2. ASSUME NEW t \in Thread, DelCountLeases(t) PROVE Harmless
  BY <1>2, SeeHarmless, FinishHarmless
  DEF DelCountLeases, AfterCounts, AfterSubs, AfterLocks, Pc, tables
<1>3. ASSUME NEW t \in Thread, SweepList(t) PROVE Harmless
  <2>1. PICK scope : job' = [job EXCEPT ![t].todo = {s \in scope : Stale(s)}]
    BY <1>3 DEF SweepList
  <2> DEFINE j == [job[t] EXCEPT !.todo = {s \in scope : Stale(s)}]
  <2>2. job' = [job EXCEPT ![t] = j] /\ j.cmd = job[t].cmd
    BY <2>1 DEF OverlapInv, IInv, Control, Job
  <2> QED BY <1>3, <2>2, SetJobHarmless DEF SweepList, Pc, tables, OverlapInv
<1>4. ASSUME NEW t \in Thread, SweepNext(t) PROVE Harmless
  <2>1. ASSUME NEW s \in job[t].todo, pc' = [pc EXCEPT ![t] = "delGet"],
               job' = [job EXCEPT ![t].todo = @ \ {s}, ![t].sid = s, ![t].seen = {}],
               UNCHANGED tables
        PROVE  Harmless
    <3> DEFINE j == [job[t] EXCEPT !.todo = @ \ {s}, !.sid = s, !.seen = {}]
    <3>1. job' = [job EXCEPT ![t] = j] /\ j.cmd = job[t].cmd
      BY <2>1 DEF OverlapInv, IInv, Control, Job
    <3> QED BY <2>1, <3>1, SetJobHarmless DEF Pc, tables, OverlapInv
  <2>2. ASSUME pc' = [pc EXCEPT ![t] = "idle"], job' = [job EXCEPT ![t] = NoJob], UNCHANGED tables
        PROVE  Harmless
    BY <2>2, SetJobHarmless DEF Pc, tables, NoJob
  <2> QED BY <1>4, <2>1, <2>2 DEF SweepNext
<1>5. ASSUME NEW t \in Worker, StartCreate(t) \/ StartCommand(t) PROVE Harmless
  <2>1. t \in Thread /\ t # Reaper
    BY ThreadAssumption DEF Thread
  <2>2. ASSUME NEW c, NEW s, NEW o, NEW f, NEW p \in Pc \ {"openInsert"}, Start(t, c, s, o, f, p)
        PROVE  Harmless
    BY <2>1, <2>2, SetJobHarmless DEF Start, tables
  <2>3. CASE StartCreate(t)
    BY <2>1, <2>3, SetJobHarmless DEF StartCreate, Pc
  <2>4. CASE StartCommand(t)
    BY <2>2, <2>4 DEF StartCommand, Pc
  <2> QED BY <1>5, <2>3, <2>4
<1>6. ASSUME NEW t \in Thread, StartSweep(t) PROVE Harmless
  <2>1. "sweepList" \in Pc \ {"openInsert"}
    BY DEF Pc
  <2> QED BY <1>6, <2>1, SetJobHarmless DEF StartSweep, tables, NoJob
<1>7. ASSUME NEW t \in Thread, StatementFails(t) PROVE Harmless
  <2>1. CASE job[t].cmd = "sweep" /\ pc[t] # "sweepList"
    BY <1>7, <2>1 DEF StatementFails, tables, OverlapInv, IInv, Control, Harmless, Obj
  <2>2. CASE ~(job[t].cmd = "sweep" /\ pc[t] # "sweepList")
    BY <1>7, <2>2, SetJobHarmless DEF StatementFails, tables, NoJob, Pc
  <2> QED BY <2>1, <2>2
<1>8. CASE Tick \/ UNCHANGED vars
  BY <1>8 DEF Tick, vars, tables, Harmless, OverlapInv, Obj
<1>9. CASE Restart
  BY <1>9 DEF Restart, tables, Harmless, Thread, NoJob
<1>10. ASSUME NEW t \in Thread, DelListLeases(t) \/ DelLease(t) PROVE Harmless
  <2>1. CASE DelLease(t) /\ Goto(t, "delLeases")
    BY <1>10, <2>1, GotoHarmless DEF DelLease, Pc
  <2>2. CASE ~(DelLease(t) /\ Goto(t, "delLeases"))
    <3>1. fileLocks' = fileLocks /\ pc[t] # "openInsert" /\ pc'[t] # "openInsert"
      BY <1>10, <2>2 DEF DelListLeases, DelLease, tables, OverlapInv, IInv, Control
    <3>2. \A u \in Thread \ {t} : pc'[u] = pc[u] /\ job'[u] = job[u]
      BY <1>10, <2>2 DEF DelListLeases, DelLease, OverlapInv, IInv, Control
    <3> QED BY <3>1, <3>2 DEF Harmless, Obj
  <2> QED BY <2>1, <2>2
<1> QED BY <1>1, <1>2, <1>3, <1>4, <1>5, <1>6, <1>7, <1>8, <1>9, <1>10 DEF Next

\* The INSERT itself: the file has no holder, or is in raced; and so is every file
\* that another thread is going to insert a lock for at the same time.
LEMMA InsertKeepsOverlap ==
  ASSUME OverlapInv, NEW t \in Thread, OpenInsert(t), raced \subseteq raced'
  PROVE  (SecondHolderNeedsOverlap /\ NoHolderYet)'
<1>1. pc[t] = "openInsert" /\ Sid(t) \in Session /\ Obj(t) \in File
  BY DEF OpenInsert, OverlapInv, IInv, Control, JobOK, Sid, Obj
<1>2. fileLocks \subseteq Session \X File /\ fileLocks' \subseteq fileLocks \cup {<<Sid(t), Obj(t)>>}
  BY DEF OpenInsert, OverlapInv, IInv, Tables
<1>3. Obj(t) \notin raced => \A l \in fileLocks : l[2] # Obj(t)
  BY <1>1, <1>2 DEF OverlapInv, NoHolderYet, Holders
<1>4. SecondHolderNeedsOverlap'
  BY <1>1, <1>2, <1>3 DEF OverlapInv, SecondHolderNeedsOverlap
<1>5. ASSUME NEW u \in Thread, pc'[u] = "openInsert"
      PROVE  u # t /\ pc[u] = "openInsert" /\ Obj(u)' = Obj(u)
  <2>1. CASE Goto(t, "relativePath")
    BY <1>5, <2>1 DEF Goto, OverlapInv, IInv, Control, Obj
  <2>2. CASE Finish(t)
    BY <1>1, <1>5, <2>2 DEF Finish, OverlapInv, IInv, Control, Obj, JobOK
  <2> QED BY <2>1, <2>2 DEF OpenInsert
<1>6. ASSUME NEW u \in Thread, pc'[u] = "openInsert", Obj(u)' \notin raced'
      PROVE  Holders(Obj(u)') = {} /\ Obj(u)' # Obj(t)
  BY <1>1, <1>5, <1>6 DEF OverlapInv, NoHolderYet, Overlapping
<1>7. NoHolderYet'
  BY <1>2, <1>6 DEF NoHolderYet, Holders
<1> QED BY <1>4, <1>7

\* Every step keeps the invariant.
LEMMA OverlapNext == OverlapInv /\ [Next]_vars => OverlapInv'
<1> SUFFICES ASSUME OverlapInv, [Next]_vars PROVE OverlapInv'
  OBVIOUS
<1>1. raced \subseteq raced' /\ Overlapping' \subseteq raced'
  BY DEF Next, History, vars, OverlapInv, Overlapping, Obj
<1>2. ASSUME NEW t \in Thread, OpenInsert(t) PROVE (SecondHolderNeedsOverlap /\ NoHolderYet)'
  BY <1>1, <1>2, InsertKeepsOverlap
<1>3. ASSUME NEW t \in Thread, Step(t), ~OpenInsert(t),
             ~(DelCountLocks(t) \/ DelCountSubs(t) \/ DelCountLeases(t) \/ DelListLeases(t)
                 \/ DelLease(t) \/ SweepList(t) \/ SweepNext(t))
      PROVE  Harmless
  BY <1>3, CommandsHarmless, DeletesHarmless DEF Step
<1>4. (SecondHolderNeedsOverlap /\ NoHolderYet)'
  BY <1>1, <1>2, <1>3, OthersHarmless, HarmlessOK
<1> QED BY <1>1, <1>4, NextIInv DEF OverlapInv

\* A file has two holders only if two opens of it overlapped, for any number of
\* threads: open_session_file checks and inserts in two statements, and nothing
\* but another open between them gives a file a second holder.
THEOREM SecondHolder == Spec => []SecondHolderNeedsOverlap
<1>1. Init => OverlapInv
  BY InitIInv DEF Init, OverlapInv, Overlapping, SecondHolderNeedsOverlap, NoHolderYet
<1> QED BY <1>1, OverlapNext, PTL DEF Spec, OverlapInv
=============================================================================
