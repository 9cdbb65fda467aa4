--------------------------- MODULE FileLockProofs ---------------------------
(***************************************************************************)
(* Proofs about FileLock, for any number of processes, threads, sessions,  *)
(* transfers and deaths of a process.                                      *)
(***************************************************************************)
EXTENDS FileLock, TLAPS

USE ProcOfIsTotal, NoneIsNothing, ModesAreKnown, CrashBound

LEMMA BlankType == Blank \in Handles
  BY DEF Blank, Handles

LEMMA CollectedType ==
  ASSUME NEW handles \in [Handle -> Handles]
  PROVE  Collected(handles) \in [Handle -> Handles]
  BY BlankType DEF Collected

Flagged(h) == [hd EXCEPT ![h].released = TRUE]
Closed(h) == [hd EXCEPT ![h].inode = None, ![h].locked = FALSE]

LEMMA HandleType ==
  ASSUME hd \in [Handle -> Handles], NEW h \in Handle
  PROVE  /\ Flagged(h) \in [Handle -> Handles]
         /\ Closed(h) \in [Handle -> Handles]
         /\ [hd EXCEPT ![h].locked = TRUE] \in [Handle -> Handles]
<1>1. /\ [hd[h] EXCEPT !.released = TRUE] \in Handles
      /\ [hd[h] EXCEPT !.inode = None] \in Handles
      /\ [hd[h] EXCEPT !.locked = TRUE] \in Handles
  BY DEF Handles
<1>2. [hd EXCEPT ![h].inode = None] \in [Handle -> Handles]
  BY <1>1
<1>3. \A f \in [Handle -> Handles] : [f EXCEPT ![h].locked = FALSE] \in [Handle -> Handles]
  <2> SUFFICES ASSUME NEW f \in [Handle -> Handles]
               PROVE  [f EXCEPT ![h].locked = FALSE] \in [Handle -> Handles]
    OBVIOUS
  <2>1. [f[h] EXCEPT !.locked = FALSE] \in Handles
    BY DEF Handles
  <2> QED
    BY <2>1
<1>4. Closed(h) = [[hd EXCEPT ![h].inode = None] EXCEPT ![h].locked = FALSE]
  BY DEF Closed
<1> QED
  BY <1>1, <1>2, <1>3, <1>4 DEF Flagged

(* A handle that something refers to is not collected, the others are. *)
LEMMA CollectedKeeps ==
  ASSUME NEW handles \in [Handle -> Handles], NEW h \in Handle
  PROVE  /\ Refers(h)' => Collected(handles)[h] = handles[h]
         /\ ~Refers(h)' => Collected(handles)[h] = Blank
  BY DEF Collected

(* Persistent calls know their session, idle threads have none. *)
Waiting == {"check", "open", "flock", "lease", "errClose", "errUnlink"}

SessionsAreKnown ==
  \A t \in Thread :
    /\ pc[t] \in {"guard", "lookup"} => sess[t] # None
    /\ pc[t] \in {"idle", "hold"} => sess[t] = None

Typed == TypeOK /\ SessionsAreKnown

(* The thread t goes to step, with c as the handle it works on. *)
LEMMA MoveType ==
  ASSUME Typed, NEW t \in Thread, NEW step \in Steps, NEW c \in Handle \cup {None},
         c # None <=> step \in WithHandle,
         pc' = [pc EXCEPT ![t] = step], cur' = [cur EXCEPT ![t] = c]
  PROVE  /\ pc' \in [Thread -> Steps] /\ cur' \in [Thread -> Handle \cup {None}]
         /\ \A u \in Thread : cur'[u] # None <=> pc'[u] \in WithHandle
  BY DEF Typed, TypeOK

LEMMA FinishedType ==
  ASSUME Typed, NEW t \in Thread, Finished(t)
  PROVE  /\ pc' \in [Thread -> Steps] /\ cur' \in [Thread -> Handle \cup {None}]
         /\ \A u \in Thread : cur'[u] # None <=> pc'[u] \in WithHandle
         /\ sess' \in [Thread -> Session \cup {None}]
         /\ mode' \in [Thread -> {"exclusive", "shared"}]
         /\ SessionsAreKnown'
<1>1. pc' \in [Thread -> Steps] /\ cur' \in [Thread -> Handle \cup {None}]
      /\ \A u \in Thread : cur'[u] # None <=> pc'[u] \in WithHandle
  BY MoveType DEF Finished, Steps, WithHandle
<1> QED
  BY <1>1 DEF Finished, Typed, TypeOK, SessionsAreKnown

LEMMA GuardLeftType ==
  ASSUME TypeOK, NEW t \in Thread
  PROVE  GuardLeft(t) \in [Process -> Thread \cup {None}]
  BY DEF TypeOK, GuardLeft

LEMMA GrantedType ==
  ASSUME Typed, NEW t \in Thread, NEW h \in Handle, Granted(t, h),
         UNCHANGED <<sess, mode>>
  PROVE  /\ pc' \in [Thread -> Steps] /\ cur' \in [Thread -> Handle \cup {None}]
         /\ \A u \in Thread : cur'[u] # None <=> pc'[u] \in WithHandle
         /\ registry' \in [Process -> [Session -> Handle \cup {None}]]
         /\ guard' \in [Process -> Thread \cup {None}]
         /\ SessionsAreKnown'
<1>1. pc' \in [Thread -> Steps] /\ cur' \in [Thread -> Handle \cup {None}]
      /\ \A u \in Thread : cur'[u] # None <=> pc'[u] \in WithHandle
  BY MoveType DEF Granted, Goto, Steps, WithHandle
<1>2. registry' \in [Process -> [Session -> Handle \cup {None}]]
  <2>1. CASE sess[t] = None
    BY <2>1 DEF Granted, Typed, TypeOK
  <2>2. CASE sess[t] # None
    <3>1. registry' = [registry EXCEPT ![ProcOf[t]][sess[t]] = h] /\ sess[t] \in Session
      BY <2>2 DEF Granted, Typed, TypeOK
    <3> QED
      BY <3>1 DEF Typed, TypeOK
  <2> QED
    BY <2>1, <2>2
<1>3. guard' \in [Process -> Thread \cup {None}]
  BY GuardLeftType DEF Granted, Typed, TypeOK
<1>4. SessionsAreKnown'
  BY DEF Granted, Goto, Typed, TypeOK, SessionsAreKnown
<1> QED
  BY <1>1, <1>2, <1>3, <1>4

(* Most steps only move the thread on. *)
LEMMA GotoType ==
  ASSUME Typed, NEW t \in Thread, NEW step \in Steps, Goto(t, step), UNCHANGED cur,
         cur[t] # None <=> step \in WithHandle
  PROVE  /\ pc' \in [Thread -> Steps]
         /\ \A u \in Thread : cur'[u] # None <=> pc'[u] \in WithHandle
  BY DEF Typed, TypeOK, Goto

LEMMA GotoIs ==
  ASSUME Typed, NEW t \in Thread, NEW step, Goto(t, step)
  PROVE  pc'[t] = step /\ \A u \in Thread \ {t} : pc'[u] = pc[u]
  BY DEF Goto, Typed, TypeOK

LEMMA TypeInduction == Typed /\ [Next]_vars => Typed'
<1> SUFFICES ASSUME Typed, [Next]_vars PROVE Typed'
  OBVIOUS
<1> USE DEF Typed, SessionsAreKnown
<1>1. ASSUME NEW t \in Thread, NEW m \in Mode, BeginLock(t, m) PROVE Typed'
  <2>1. pc' \in [Thread -> Steps] /\ \A u \in Thread : cur'[u] # None <=> pc'[u] \in WithHandle
    BY <1>1, GotoType DEF BeginLock, TypeOK, Steps, WithHandle
  <2> QED
    BY <1>1, <2>1 DEF BeginLock, Goto, TypeOK
<1>2. ASSUME NEW t \in Thread, NEW m \in Mode, NEW s \in Session, BeginPersistent(t, s, m)
      PROVE Typed'
  <2>1. pc' \in [Thread -> Steps] /\ \A u \in Thread : cur'[u] # None <=> pc'[u] \in WithHandle
    BY <1>2, GotoType DEF BeginPersistent, TypeOK, Steps, WithHandle
  <2> QED
    BY <1>2, <2>1 DEF BeginPersistent, Goto, TypeOK
<1>3. ASSUME NEW t \in Thread, Acquiring(t) PROVE Typed'
  <2>1. CASE TakeGuard(t)
    BY <2>1 DEF TakeGuard, Goto, TypeOK, Steps, WithHandle
  <2>2. CASE FindExisting(t)
    <3> DEFINE h == registry[ProcOf[t]][sess[t]]
    <3>1. h \in Handle /\ guard' \in [Process -> Thread \cup {None}]
      BY <2>2, GuardLeftType DEF FindExisting, TypeOK
    <3>2. CASE Goto(t, "got") /\ cur' = [cur EXCEPT ![t] = h] /\ UNCHANGED <<sess, mode>>
      <4>1. /\ pc' \in [Thread -> Steps] /\ cur' \in [Thread -> Handle \cup {None}]
            /\ \A u \in Thread : cur'[u] # None <=> pc'[u] \in WithHandle
        BY <3>1, <3>2, MoveType DEF Goto, Steps, WithHandle
      <4> QED
        BY <2>2, <3>1, <3>2, <4>1 DEF FindExisting, Goto, TypeOK
    <3>3. CASE Finished(t)
      BY <2>2, <3>1, <3>3, FinishedType DEF FindExisting, TypeOK
    <3> QED
      BY <2>2, <3>2, <3>3 DEF FindExisting
  <2>3. CASE FindNone(t)
    BY <2>3 DEF FindNone, Goto, TypeOK, Steps, WithHandle
  <2>4. CASE ReuseOwn(t)
    <3>1. PICK h \in Unused :
            /\ Granted(t, h)
            /\ hd' = Collected([hd EXCEPT ![h] = [Blank EXCEPT !.reused = TRUE, !.mode = mode[t]]])
      BY <2>4 DEF ReuseOwn
    <3>2. h \in Handle
      BY DEF Unused
    <3>3. [Blank EXCEPT !.reused = TRUE, !.mode = mode[t]] \in Handles
      BY BlankType DEF Handles, TypeOK
    <3>4. hd' \in [Handle -> Handles]
      BY <3>1, <3>2, <3>3, CollectedType DEF TypeOK
    <3> QED
      BY <2>4, <3>1, <3>2, <3>4, GrantedType DEF ReuseOwn, TypeOK
  <2>5. CASE NotHeldHere(t)
    BY <2>5 DEF NotHeldHere, Goto, TypeOK, Steps, WithHandle
  <2>6. CASE Open(t)
    <3>1. PICK h \in Unused, i \in Inode :
            /\ link' = i /\ cur' = [cur EXCEPT ![t] = h]
            /\ hd' = [hd EXCEPT ![h] = [Blank EXCEPT !.inode = i, !.mode = mode[t]]]
      BY <2>6 DEF Open
    <3>2. h \in Handle
      BY DEF Unused
    <3>3. [Blank EXCEPT !.inode = i, !.mode = mode[t]] \in Handles
      BY BlankType DEF Handles, TypeOK
    <3>4. /\ pc' \in [Thread -> Steps] /\ cur' \in [Thread -> Handle \cup {None}]
          /\ \A u \in Thread : cur'[u] # None <=> pc'[u] \in WithHandle
      BY <2>6, <3>1, <3>2, MoveType DEF Open, Goto, Steps, WithHandle
    <3> QED
      BY <2>6, <3>1, <3>2, <3>3, <3>4 DEF Open, Goto, TypeOK
  <2>7. CASE Flock(t) \/ ErrorClose(t)
    <3>1. cur[t] \in Handle
      BY <2>7 DEF Flock, ErrorClose, TypeOK, WithHandle, Steps
    <3>2. hd' \in [Handle -> Handles]
      <4>1. CASE Flock(t)
        BY <3>1, <4>1, HandleType DEF Flock, TypeOK
      <4>2. CASE ErrorClose(t)
        <5>1. hd' = Closed(cur[t])
          BY <4>2 DEF ErrorClose, Closed
        <5> QED
          BY <3>1, <5>1, HandleType DEF TypeOK
      <4> QED
        BY <2>7, <4>1, <4>2
    <3>3. /\ UNCHANGED <<link, registry, entries, guard, cur, sess, mode, crashes>>
          /\ \E step \in {"lease", "errUnlink"} : Goto(t, step)
      BY <2>7 DEF Flock, ErrorClose
    <3>4. PICK step \in {"lease", "errUnlink"} : Goto(t, step)
      BY <3>3
    <3>5. pc' \in [Thread -> Steps] /\ \A u \in Thread : cur'[u] # None <=> pc'[u] \in WithHandle
      BY <3>1, <3>3, <3>4, GotoType DEF TypeOK, Steps, WithHandle
    <3>6. SessionsAreKnown'
      BY <3>3, <3>4 DEF Goto, TypeOK
    <3> QED
      BY <3>2, <3>3, <3>5, <3>6 DEF TypeOK
  <2>8. CASE Timeout(t) \/ LeaseFails(t)
    <3>1. /\ UNCHANGED <<link, hd, registry, entries, guard, cur, sess, mode, crashes>>
          /\ pc[t] \in {"flock", "lease"} /\ Goto(t, "errClose")
      BY <2>8 DEF Timeout, LeaseFails
    <3>2. pc' \in [Thread -> Steps] /\ \A u \in Thread : cur'[u] # None <=> pc'[u] \in WithHandle
      BY <3>1, GotoType DEF TypeOK, Steps, WithHandle
    <3>3. SessionsAreKnown'
      BY <3>1 DEF Goto, TypeOK
    <3> QED
      BY <3>1, <3>2, <3>3 DEF TypeOK
  <2>9. CASE LeaseGranted(t)
    <3>1. cur[t] \in Handle
      BY <2>9 DEF LeaseGranted, TypeOK, WithHandle, Steps
    <3> QED
      BY <2>9, <3>1, GrantedType, CollectedType DEF LeaseGranted, TypeOK
  <2>10. CASE ErrorUnlink(t)
    BY <2>10, FinishedType, GuardLeftType, CollectedType DEF ErrorUnlink, TypeOK
  <2> QED
    BY <1>3, <2>1, <2>2, <2>3, <2>4, <2>5, <2>6, <2>7, <2>8, <2>9, <2>10 DEF Acquiring
<1>4. ASSUME NEW t \in Thread, HandedOut(t) PROVE Typed'
  <2>1. CASE KeepInRegistry(t)
    BY <2>1, FinishedType, CollectedType DEF KeepInRegistry, TypeOK
  <2>2. ASSUME NEW x \in Transfer, RegisterTransfer(t, x) PROVE Typed'
    <3>1. entries' \in [Process -> [Transfer -> Handle \cup {None}]]
      BY <2>2 DEF RegisterTransfer, TypeOK
    <3> QED
      BY <2>2, <3>1, FinishedType DEF RegisterTransfer, TypeOK
  <2>3. CASE CommandFails(t)
    BY <2>3 DEF CommandFails, Goto, TypeOK, WithHandle, Steps
  <2> QED
    BY <1>4, <2>1, <2>2, <2>3 DEF HandedOut
<1>5. ASSUME NEW t \in Thread, LeaveFileLock(t) PROVE Typed'
  BY <1>5 DEF LeaveFileLock, Goto, TypeOK, WithHandle, Steps
<1>6. ASSUME NEW t \in Thread, Releasing(t) PROVE Typed'
  <2>1. cur[t] \in Handle
    BY <1>6 DEF Releasing, AlreadyReleased, NotYetReleased, SetReleased, Unlock, Unlink,
       TypeOK, WithHandle, Steps
  <2>2. CASE AlreadyReleased(t) \/ Unlink(t)
    BY <2>2, FinishedType, CollectedType DEF AlreadyReleased, Unlink, TypeOK
  <2>3. CASE NotYetReleased(t)
    BY <2>3 DEF NotYetReleased, Goto, TypeOK, WithHandle, Steps
  <2>4. CASE SetReleased(t)
    <3>1. Flagged(cur[t]) \in [Handle -> Handles]
      BY <2>1, HandleType DEF TypeOK
    <3>2. hd' \in [Handle -> Handles]
      BY <2>4, <3>1, CollectedType DEF SetReleased, Flagged
    <3>3. CASE hd[cur[t]].reused
      BY <2>4, <3>2, <3>3, FinishedType DEF SetReleased, TypeOK
    <3>4. CASE ~hd[cur[t]].reused
      <4>1. Goto(t, "unlock") /\ UNCHANGED <<link, registry, entries, guard, cur, sess, mode, crashes>>
        BY <2>4, <3>4 DEF SetReleased
      <4>2. pc' \in [Thread -> Steps] /\ \A u \in Thread : cur'[u] # None <=> pc'[u] \in WithHandle
        BY <2>1, <4>1, GotoType DEF TypeOK, Steps, WithHandle
      <4>3. SessionsAreKnown'
        BY <4>1 DEF Goto, TypeOK
      <4> QED
        BY <3>2, <4>1, <4>2, <4>3 DEF TypeOK
    <3> QED
      BY <3>3, <3>4
  <2>5. CASE Unlock(t)
    <3>1. Closed(cur[t]) \in [Handle -> Handles]
      BY <2>1, HandleType DEF TypeOK
    <3>2. hd' \in [Handle -> Handles]
      <4>1. hd' = Closed(cur[t]) \/ hd' = Collected(Closed(cur[t]))
        BY <2>5 DEF Unlock, Closed
      <4> QED
        BY <3>1, <4>1, CollectedType
    <3>3. CASE hd[cur[t]].inode = None
      BY <2>5, <3>2, <3>3, FinishedType DEF Unlock, TypeOK
    <3>4. CASE hd[cur[t]].inode # None
      <4>1. Goto(t, "unlink") /\ UNCHANGED <<link, registry, entries, guard, cur, sess, mode, crashes>>
        BY <2>5, <3>4 DEF Unlock
      <4>2. pc[t] = "unlock"
        BY <2>5 DEF Unlock
      <4> QED
        BY <2>1, <3>2, <4>1, <4>2 DEF Goto, TypeOK, WithHandle, Steps
    <3> QED
      BY <3>3, <3>4
  <2> QED
    BY <1>6, <2>2, <2>3, <2>4, <2>5 DEF Releasing
<1>7. ASSUME NEW t \in Thread, NEW s \in Session, ReleasePersistent(t, s) PROVE Typed'
  <2>1. registry[ProcOf[t]][s] \in Handle
    BY <1>7 DEF ReleasePersistent, TypeOK
  <2>2. registry' \in [Process -> [Session -> Handle \cup {None}]]
    BY <1>7 DEF ReleasePersistent, TypeOK
  <2>3. /\ pc' \in [Thread -> Steps] /\ cur' \in [Thread -> Handle \cup {None}]
        /\ \A u \in Thread : cur'[u] # None <=> pc'[u] \in WithHandle
    BY <1>7, <2>1, MoveType DEF ReleasePersistent, Goto, Steps, WithHandle
  <2> QED
    BY <1>7, <2>2, <2>3 DEF ReleasePersistent, Goto, TypeOK
<1>8. ASSUME NEW t \in Thread, NEW x \in Transfer, ReleaseTransfer(t, x) PROVE Typed'
  <2>1. entries[ProcOf[t]][x] \in Handle
    BY <1>8 DEF ReleaseTransfer, TypeOK
  <2>2. entries' \in [Process -> [Transfer -> Handle \cup {None}]]
    BY <1>8 DEF ReleaseTransfer, TypeOK
  <2>3. /\ pc' \in [Thread -> Steps] /\ cur' \in [Thread -> Handle \cup {None}]
        /\ \A u \in Thread : cur'[u] # None <=> pc'[u] \in WithHandle
    BY <1>8, <2>1, MoveType DEF ReleaseTransfer, Goto, Steps, WithHandle
  <2> QED
    BY <1>8, <2>2, <2>3 DEF ReleaseTransfer, Goto, TypeOK
<1>9. ASSUME NEW p \in Process, Crash(p) PROVE Typed'
  <2>1. hd' \in [Handle -> Handles]
    BY <1>9, CollectedType DEF Crash, TypeOK
  <2> QED
    BY <1>9, <2>1 DEF Crash, TypeOK, Steps, WithHandle
<1>10. CASE UNCHANGED vars
  BY <1>10 DEF vars, TypeOK
<1> QED
  BY <1>1, <1>2, <1>3, <1>4, <1>5, <1>6, <1>7, <1>8, <1>9, <1>10 DEF Next

(* Every variable keeps its type, and a thread has a handle in its hands   *)
(* exactly at the steps that work on one.                                  *)
THEOREM TypeCorrect == Spec => []TypeOK
<1>1. Init => Typed
  BY BlankType DEF Init, Typed, TypeOK, SessionsAreKnown, Steps, WithHandle
<1>2. Typed => TypeOK
  BY DEF Typed
<1> QED
  BY <1>1, <1>2, TypeInduction, PTL DEF Spec
-----------------------------------------------------------------------------
(* The second part: who has the flock.  A handle under way to its lock is  *)
(* in the hands of one thread only; the flag comes before the flock goes.  *)
Fresh == {"flock", "lease", "errClose", "errUnlink"}
Going == {"unlock", "unlink"}

Stored(h) == \/ \E p \in Process, s \in Session : registry[p][s] = h
             \/ \E p \in Process, x \in Transfer : entries[p][x] = h

Sole(t) == ~Stored(cur[t]) /\ \A u \in Thread \ {t} : cur[u] # cur[t]

FreshIsSole ==
  \A t \in Thread : pc[t] \in Fresh =>
    Sole(t) /\ ~hd[cur[t]].released /\ ~hd[cur[t]].reused

StepsAgree ==
  \A t \in Thread :
    /\ pc[t] = "flock" => hd[cur[t]].mode = mode[t]
    /\ pc[t] = "lease" => hd[cur[t]].locked
    /\ pc[t] \in Going => hd[cur[t]].released

FlocksAreCompatible ==
  \A g, h \in Handle :
    g # h /\ hd[g].locked /\ hd[h].locked /\ hd[g].inode = hd[h].inode
      => hd[g].mode = "shared" /\ hd[h].mode = "shared"

OwnedIsLocked ==
  \A h \in Handle :
    Owned(h) /\ ~hd[h].released /\ ~hd[h].reused => hd[h].locked

Flocks == FreshIsSole /\ StepsAgree /\ FlocksAreCompatible /\ OwnedIsLocked

LEMMA RefersMeans ==
  ASSUME NEW h \in Handle
  PROVE  /\ Refers(h) <=> Stored(h) \/ \E t \in Thread : cur[t] = h
         /\ Owned(h) <=> Stored(h) \/ \E t \in Thread :
                          cur[t] = h /\ pc[t] \in {"got", "hold", "release", "flag"}
         /\ Refers(h)' <=> Stored(h)' \/ \E t \in Thread : cur'[t] = h
         /\ Owned(h)' <=> Stored(h)' \/ \E t \in Thread :
                          cur'[t] = h /\ pc'[t] \in {"got", "hold", "release", "flag"}
  BY DEF Refers, Stored, Owned

LEMMA BlankIsFree == ~Blank.locked /\ ~Blank.released /\ ~Blank.reused /\ Blank.inode = None
  BY DEF Blank

LEMMA AtHandle ==
  ASSUME Typed, Typed', NEW t \in Thread
  PROVE  /\ pc[t] \in WithHandle => cur[t] \in Handle
         /\ pc'[t] \in WithHandle => cur'[t] \in Handle
  BY DEF Typed, TypeOK

(* Steps that take no flock and give none up, except by collecting handles *)
(* nobody refers to.                                                       *)
LEMMA QuietFlocks ==
  ASSUME Typed, Typed', Flocks,
         \A u \in Thread : pc'[u] \in Fresh =>
           /\ pc[u] \in Fresh /\ cur'[u] = cur[u]
           /\ pc'[u] \in {"flock", "lease"} => pc'[u] = pc[u] /\ mode'[u] = mode[u],
         \A u \in Thread : pc'[u] \in Going => pc[u] \in Going /\ cur'[u] = cur[u],
         \A h \in Handle : hd'[h] = hd[h] \/ (hd'[h] = Blank /\ ~Refers(h)'),
         \A h \in Handle : Owned(h)' => Owned(h) \/ hd[h].locked,
         \A u \in Thread : cur'[u] = cur[u] \/ cur'[u] = None \/ Stored(cur'[u]),
         \A h \in Handle : Stored(h)' =>
           Stored(h) \/ \E u \in Thread : cur[u] = h /\ pc'[u] \notin Fresh
  PROVE  Flocks'
<1>1. \A u \in Thread : pc'[u] \in Fresh \cup Going =>
        cur'[u] \in Handle /\ cur[u] = cur'[u] /\ hd'[cur[u]] = hd[cur[u]]
  <2> SUFFICES ASSUME NEW u \in Thread, pc'[u] \in Fresh \cup Going
               PROVE  cur'[u] \in Handle /\ cur[u] = cur'[u] /\ hd'[cur[u]] = hd[cur[u]]
    OBVIOUS
  <2>1. cur'[u] \in Handle /\ cur[u] = cur'[u]
    BY AtHandle DEF Fresh, Going, WithHandle, Steps
  <2>2. Refers(cur[u])'
    BY <2>1, RefersMeans
  <2> QED
    BY <2>1, <2>2
<1>2. FreshIsSole'
  <2> SUFFICES ASSUME NEW t \in Thread, pc'[t] \in Fresh
               PROVE  Sole(t)' /\ ~hd'[cur'[t]].released /\ ~hd'[cur'[t]].reused
    BY DEF FreshIsSole
  <2>1. Sole(t) /\ ~hd[cur[t]].released /\ ~hd[cur[t]].reused /\ cur'[t] = cur[t]
    BY DEF Flocks, FreshIsSole
  <2>2. ~Stored(cur[t])'
    <3>1. \A u \in Thread : cur[u] = cur[t] => u = t
      BY <2>1 DEF Sole
    <3> QED
      BY <1>1, <2>1, <3>1 DEF Sole
  <2>3. \A u \in Thread \ {t} : cur'[u] # cur[t]
    BY <1>1, <2>1 DEF Sole
  <2> QED
    BY <1>1, <2>1, <2>2, <2>3 DEF Sole
<1>3. StepsAgree'
  BY <1>1 DEF StepsAgree, Flocks, Fresh, Going
<1>4. FlocksAreCompatible'
  BY BlankIsFree DEF FlocksAreCompatible, Flocks
<1>5. OwnedIsLocked'
  <2> SUFFICES ASSUME NEW h \in Handle, Owned(h)', ~hd'[h].released, ~hd'[h].reused
               PROVE  hd'[h].locked
    BY DEF OwnedIsLocked
  <2>1. Refers(h)'
    BY RefersMeans
  <2>2. hd'[h] = hd[h]
    BY <2>1
  <2> QED
    BY <2>2 DEF OwnedIsLocked, Flocks
<1> QED
  BY <1>2, <1>3, <1>4, <1>5 DEF Flocks
(* A handle that is collected is one nothing refers to. *)
LEMMA CollectedIs ==
  ASSUME NEW handles \in [Handle -> Handles]
  PROVE  \A h \in Handle : \/ Collected(handles)[h] = handles[h]
                           \/ Collected(handles)[h] = Blank /\ ~Refers(h)'
  BY DEF Collected

LEMMA FinishedIs ==
  ASSUME Typed, NEW t \in Thread, Finished(t)
  PROVE  /\ pc'[t] = "idle" /\ cur'[t] = None
         /\ \A u \in Thread \ {t} : pc'[u] = pc[u] /\ cur'[u] = cur[u] /\ mode'[u] = mode[u]
  BY DEF Finished, Typed, TypeOK

LEMMA CallsKeepFlocks ==
  ASSUME Typed, Typed', Flocks, NEW t \in Thread,
         \/ \E m \in Mode : BeginLock(t, m)
         \/ \E m \in Mode, s \in Session : BeginPersistent(t, s, m)
         \/ TakeGuard(t) \/ FindExisting(t) \/ FindNone(t) \/ NotHeldHere(t)
         \/ Timeout(t) \/ LeaseFails(t) \/ CommandFails(t) \/ LeaveFileLock(t)
         \/ NotYetReleased(t)
  PROVE  Flocks'
<1> USE DEF BeginLock, BeginPersistent, TakeGuard, FindExisting, FindNone, NotHeldHere,
            Timeout, LeaseFails, CommandFails, LeaveFileLock, NotYetReleased, Goto
<1>1. UNCHANGED <<hd, registry, entries>>
  OBVIOUS
<1>2. \A h : Stored(h)' <=> Stored(h)
  BY <1>1 DEF Stored
<1>3. \A u \in Thread \ {t} : pc'[u] = pc[u] /\ cur'[u] = cur[u] /\ mode'[u] = mode[u]
  BY FinishedIs DEF Typed, TypeOK
<1>4. cur'[t] = cur[t] \/ cur'[t] = None \/ Stored(cur'[t])
  <2>1. CASE FindExisting(t)
    <3>1. ProcOf[t] \in Process /\ sess[t] \in Session
      BY <2>1 DEF Typed, TypeOK, SessionsAreKnown
    <3> QED
      BY <2>1, <3>1, FinishedIs DEF Stored, Typed, TypeOK
  <2> QED
    BY <2>1
<1>5. pc'[t] \notin Going /\ (pc'[t] \in Fresh => pc'[t] = "errClose" /\ pc[t] \in Fresh /\ cur'[t] = cur[t])
  BY FinishedIs DEF Typed, TypeOK, Fresh, Going
<1>6. pc'[t] \in {"got", "hold", "release", "flag"} =>
        \/ Stored(cur'[t])
        \/ cur'[t] = cur[t] /\ pc[t] \in {"got", "hold", "release", "flag"}
  <2>1. CASE FindExisting(t)
    <3>1. ProcOf[t] \in Process /\ sess[t] \in Session
      BY <2>1 DEF Typed, TypeOK, SessionsAreKnown
    <3> QED
      BY <2>1, <3>1, FinishedIs DEF Stored, Typed, TypeOK
  <2> QED
    BY <2>1 DEF Typed, TypeOK
<1>7. \A h \in Handle : Owned(h)' => Owned(h)
  BY <1>2, <1>3, <1>6, RefersMeans
<1> QED
  BY <1>1, <1>2, <1>3, <1>4, <1>5, <1>7, QuietFlocks DEF Fresh, Going

LEMMA EndsKeepFlocks ==
  ASSUME Typed, Typed', Flocks, NEW t \in Thread,
         \/ ErrorUnlink(t) \/ KeepInRegistry(t) \/ AlreadyReleased(t) \/ Unlink(t)
         \/ \E x \in Transfer : RegisterTransfer(t, x)
  PROVE  Flocks'
<1>1. Finished(t) /\ UNCHANGED registry /\ (hd' = hd \/ hd' = Collected(hd))
  BY DEF ErrorUnlink, KeepInRegistry, AlreadyReleased, Unlink, RegisterTransfer
<1>2. \A h \in Handle : hd'[h] = hd[h] \/ (hd'[h] = Blank /\ ~Refers(h)')
  BY <1>1, CollectedIs DEF Typed, TypeOK
<1>3. \A h \in Handle : Stored(h)' => Stored(h) \/ (cur[t] = h /\ pc[t] = "got")
  <2>1. CASE UNCHANGED entries
    BY <1>1, <2>1 DEF Stored
  <2>2. ASSUME NEW x \in Transfer, RegisterTransfer(t, x)
        PROVE  \A h \in Handle : Stored(h)' => Stored(h) \/ (cur[t] = h /\ pc[t] = "got")
    BY <1>1, <2>2 DEF Stored, RegisterTransfer, Typed, TypeOK
  <2> QED
    BY <2>1, <2>2 DEF ErrorUnlink, KeepInRegistry, AlreadyReleased, Unlink
<1>4. \A h \in Handle : Owned(h)' => Owned(h)
  BY <1>1, <1>3, FinishedIs, RefersMeans
<1> QED
  BY <1>1, <1>2, <1>3, <1>4, FinishedIs, QuietFlocks DEF Fresh, Going

LEMMA PopsKeepFlocks ==
  ASSUME Typed, Typed', Flocks, NEW t \in Thread,
         \/ \E s \in Session : ReleasePersistent(t, s)
         \/ \E x \in Transfer : ReleaseTransfer(t, x)
  PROVE  Flocks'
<1>1. /\ Stored(cur'[t]) /\ pc'[t] = "release" /\ UNCHANGED <<hd, mode>>
      /\ \A u \in Thread \ {t} : pc'[u] = pc[u] /\ cur'[u] = cur[u]
  BY DEF ReleasePersistent, ReleaseTransfer, Goto, Stored, Typed, TypeOK
<1>2. \A h \in Handle : Stored(h)' => Stored(h)
  <2>1. ASSUME NEW s \in Session, ReleasePersistent(t, s)
        PROVE  \A h \in Handle : Stored(h)' => Stored(h)
    BY <2>1 DEF ReleasePersistent, Stored, Typed, TypeOK
  <2>2. ASSUME NEW x \in Transfer, ReleaseTransfer(t, x)
        PROVE  \A h \in Handle : Stored(h)' => Stored(h)
    BY <2>2 DEF ReleaseTransfer, Stored, Typed, TypeOK
  <2> QED
    BY <2>1, <2>2
<1>3. \A h \in Handle : Owned(h)' => Owned(h)
  BY <1>1, <1>2, RefersMeans
<1> QED
  BY <1>1, <1>2, <1>3, QuietFlocks DEF Fresh, Going

LEMMA CrashKeepsFlocks ==
  ASSUME Typed, Typed', Flocks, NEW p \in Process, Crash(p)
  PROVE  Flocks'
<1>1. \A u \in Thread : (pc'[u] = "idle" /\ cur'[u] = None)
                         \/ (pc'[u] = pc[u] /\ cur'[u] = cur[u] /\ mode'[u] = mode[u])
  BY DEF Crash
<1>2. \A h \in Handle : Stored(h)' => Stored(h)
  BY DEF Crash, Stored, Typed, TypeOK
<1>3. \A h \in Handle : hd'[h] = hd[h] \/ (hd'[h] = Blank /\ ~Refers(h)')
  BY CollectedIs DEF Crash, Typed, TypeOK
<1>4. \A h \in Handle : Owned(h)' => Owned(h)
  BY <1>1, <1>2, RefersMeans
<1> QED
  BY <1>1, <1>2, <1>3, <1>4, QuietFlocks DEF Fresh, Going
(* The thread t has picked the unused handle h and filled it.              *)
LEMMA PickedIsFree ==
  ASSUME Typed, NEW h \in Unused
  PROVE  h \in Handle /\ ~Stored(h) /\ \A u \in Thread : cur[u] # h
  BY RefersMeans DEF Unused

LEMMA OpenKeepsFlocks ==
  ASSUME Typed, Typed', Flocks, NEW t \in Thread, Open(t)
  PROVE  Flocks'
<1>1. PICK h \in Unused, i \in Inode :
        /\ cur' = [cur EXCEPT ![t] = h]
        /\ hd' = [hd EXCEPT ![h] = [Blank EXCEPT !.inode = i, !.mode = mode[t]]]
  BY DEF Open
<1>2. h \in Handle /\ ~Stored(h) /\ (\A u \in Thread : cur[u] # h)
  BY PickedIsFree
<1>3. /\ ~hd'[h].locked /\ ~hd'[h].released /\ ~hd'[h].reused /\ hd'[h].mode = mode[t]
      /\ \A g \in Handle \ {h} : hd'[g] = hd[g]
  BY <1>1, <1>2 DEF Blank, Typed, TypeOK
<1>4. /\ pc'[t] = "flock" /\ cur'[t] = h /\ mode' = mode
      /\ \A u \in Thread \ {t} : pc'[u] = pc[u] /\ cur'[u] = cur[u]
      /\ \A g : Stored(g)' <=> Stored(g)
  BY <1>1 DEF Open, Goto, Stored, Typed, TypeOK
<1>5. FreshIsSole'
  <2> SUFFICES ASSUME NEW u \in Thread, pc'[u] \in Fresh
               PROVE  Sole(u)' /\ ~hd'[cur'[u]].released /\ ~hd'[cur'[u]].reused
    BY DEF FreshIsSole
  <2>1. CASE u = t
    BY <1>2, <1>3, <1>4, <2>1 DEF Sole
  <2>2. CASE u # t
    <3>1. Sole(u) /\ ~hd[cur[u]].released /\ ~hd[cur[u]].reused /\ cur[u] \in Handle
      BY <1>4, <2>2, AtHandle DEF Flocks, FreshIsSole, Fresh, WithHandle, Steps
    <3> QED
      BY <1>2, <1>3, <1>4, <2>2, <3>1 DEF Sole
  <2> QED
    BY <2>1, <2>2
<1>6. StepsAgree'
  <2> SUFFICES ASSUME NEW u \in Thread, pc'[u] \in {"flock", "lease"} \cup Going
               PROVE  /\ pc'[u] = "flock" => hd'[cur'[u]].mode = mode'[u]
                      /\ pc'[u] = "lease" => hd'[cur'[u]].locked
                      /\ pc'[u] \in Going => hd'[cur'[u]].released
    BY DEF StepsAgree, Going
  <2>1. u # t => cur[u] \in Handle
    BY <1>4, AtHandle DEF Going, WithHandle, Steps
  <2> QED
    BY <1>2, <1>3, <1>4, <2>1 DEF StepsAgree, Flocks, Going
<1>7. FlocksAreCompatible'
  BY <1>2, <1>3 DEF FlocksAreCompatible, Flocks
<1>8. OwnedIsLocked'
  BY <1>2, <1>3, <1>4, RefersMeans DEF OwnedIsLocked, Flocks
<1> QED
  BY <1>5, <1>6, <1>7, <1>8 DEF Flocks

LEMMA ReuseKeepsFlocks ==
  ASSUME Typed, Typed', Flocks, NEW t \in Thread, ReuseOwn(t)
  PROVE  Flocks'
<1>1. PICK h \in Unused :
        /\ Granted(t, h)
        /\ hd' = Collected([hd EXCEPT ![h] = [Blank EXCEPT !.reused = TRUE, !.mode = mode[t]]])
  BY DEF ReuseOwn
<1>2. h \in Handle /\ ~Stored(h) /\ (\A u \in Thread : cur[u] # h)
  BY PickedIsFree
<1>3. /\ cur'[t] = h /\ pc'[t] \in {"got", "hold"} /\ UNCHANGED entries
      /\ \A u \in Thread \ {t} : pc'[u] = pc[u] /\ cur'[u] = cur[u] /\ mode'[u] = mode[u]
  BY <1>1 DEF ReuseOwn, Granted, Goto, Typed, TypeOK
<1>4. \A g \in Handle \ {h} : Stored(g)' => Stored(g)
  <2>1. CASE UNCHANGED registry
    BY <1>3, <2>1 DEF Stored
  <2>2. CASE registry' = [registry EXCEPT ![ProcOf[t]][sess[t]] = h] /\ sess[t] \in Session
    BY <1>3, <2>2 DEF Stored, Typed, TypeOK
  <2> QED
    BY <1>1, <2>1, <2>2 DEF Granted, Typed, TypeOK
<1>5. ~hd'[h].locked /\ hd'[h].reused
  <2>1. Refers(h)'
    BY <1>2, <1>3, RefersMeans
  <2>2. [Blank EXCEPT !.reused = TRUE, !.mode = mode[t]] \in Handles
    BY BlankType DEF Handles, Typed, TypeOK
  <2>3. hd'[h] = [Blank EXCEPT !.reused = TRUE, !.mode = mode[t]]
    BY <1>1, <1>2, <2>1, <2>2, CollectedKeeps DEF Typed, TypeOK
  <2> QED
    BY <2>3 DEF Blank
<1>6. \A g \in Handle \ {h} : hd'[g] = hd[g] \/ (hd'[g] = Blank /\ ~Refers(g)')
  <2>1. [Blank EXCEPT !.reused = TRUE, !.mode = mode[t]] \in Handles
    BY BlankType DEF Handles, Typed, TypeOK
  <2>2. [hd EXCEPT ![h] = [Blank EXCEPT !.reused = TRUE, !.mode = mode[t]]] \in [Handle -> Handles]
    BY <2>1 DEF Typed, TypeOK
  <2> QED
    BY <1>1, <1>2, <2>2, CollectedIs
<1>7. \A u \in Thread : pc'[u] \in Fresh \cup Going =>
        u # t /\ cur[u] \in Handle \ {h} /\ cur'[u] = cur[u] /\ hd'[cur[u]] = hd[cur[u]]
  <2> SUFFICES ASSUME NEW u \in Thread, pc'[u] \in Fresh \cup Going
               PROVE  u # t /\ cur[u] \in Handle \ {h} /\ cur'[u] = cur[u]
                      /\ hd'[cur[u]] = hd[cur[u]]
    OBVIOUS
  <2>1. u # t /\ cur'[u] \in Handle
    BY <1>3, AtHandle DEF Fresh, Going, WithHandle, Steps
  <2>2. cur[u] \in Handle \ {h} /\ cur'[u] = cur[u] /\ Refers(cur[u])'
    BY <1>2, <1>3, <2>1, RefersMeans
  <2> QED
    BY <1>6, <2>1, <2>2, RefersMeans
<1>8. FreshIsSole'
  <2> SUFFICES ASSUME NEW u \in Thread, pc'[u] \in Fresh
               PROVE  Sole(u)' /\ ~hd'[cur'[u]].released /\ ~hd'[cur'[u]].reused
    BY DEF FreshIsSole
  <2>1. Sole(u) /\ ~hd[cur[u]].released /\ ~hd[cur[u]].reused
    BY <1>3, <1>7 DEF Flocks, FreshIsSole
  <2> QED
    BY <1>3, <1>4, <1>7, <2>1 DEF Sole
<1>9. StepsAgree'
  BY <1>3, <1>7 DEF StepsAgree, Flocks, Fresh, Going
<1>10. FlocksAreCompatible'
  BY <1>5, <1>6, BlankIsFree DEF FlocksAreCompatible, Flocks
<1>11. OwnedIsLocked'
  <2> SUFFICES ASSUME NEW g \in Handle, Owned(g)', ~hd'[g].released, ~hd'[g].reused
               PROVE  hd'[g].locked
    BY DEF OwnedIsLocked
  <2>1. g # h /\ Owned(g) /\ hd'[g] = hd[g]
    BY <1>3, <1>4, <1>5, <1>6, RefersMeans
  <2> QED
    BY <2>1 DEF OwnedIsLocked, Flocks
<1> QED
  BY <1>8, <1>9, <1>10, <1>11 DEF Flocks
LEMMA LockingKeepsFlocks ==
  ASSUME Typed, Typed', Flocks, NEW t \in Thread, Flock(t)
  PROVE  Flocks'
<1> DEFINE h == cur[t]
<1>1. h \in Handle /\ Sole(t) /\ hd[h].mode = mode[t] /\ cur' = cur /\ pc[t] = "flock"
  BY AtHandle DEF Flock, Flocks, FreshIsSole, StepsAgree, Fresh, WithHandle, Steps
<1>2. /\ hd'[h] = [hd[h] EXCEPT !.locked = TRUE]
      /\ \A g \in Handle \ {h} : hd'[g] = hd[g]
      /\ hd[h] \in Handles
  BY <1>1 DEF Flock, Typed, TypeOK
<1>3. /\ hd'[h].locked /\ hd'[h].released = hd[h].released /\ hd'[h].reused = hd[h].reused
      /\ hd'[h].mode = hd[h].mode /\ hd'[h].inode = hd[h].inode
  BY <1>2 DEF Handles
<1>4. /\ pc' = [pc EXCEPT ![t] = "lease"] /\ UNCHANGED <<cur, mode, registry, entries>>
      /\ \A g : Stored(g)' <=> Stored(g)
  BY DEF Flock, Goto, Stored
<1>5. FreshIsSole'
  <2> SUFFICES ASSUME NEW u \in Thread, pc'[u] \in Fresh
               PROVE  Sole(u)' /\ ~hd'[cur[u]].released /\ ~hd'[cur[u]].reused
    BY <1>4 DEF FreshIsSole
  <2>1. pc[u] \in Fresh /\ cur[u] \in Handle
    BY <1>1, <1>4, AtHandle DEF Fresh, WithHandle, Steps, Typed, TypeOK
  <2> QED
    BY <1>2, <1>3, <1>4, <2>1 DEF Flocks, FreshIsSole, Sole
<1>6. StepsAgree'
  <2> SUFFICES ASSUME NEW u \in Thread, pc'[u] \in {"flock", "lease"} \cup Going
               PROVE  /\ pc'[u] = "flock" => hd'[cur[u]].mode = mode[u]
                      /\ pc'[u] = "lease" => hd'[cur[u]].locked
                      /\ pc'[u] \in Going => hd'[cur[u]].released
    BY <1>4 DEF StepsAgree, Going
  <2>1. u # t => pc'[u] = pc[u] /\ cur[u] \in Handle
    BY <1>4, AtHandle DEF Going, WithHandle, Steps, Typed, TypeOK
  <2>2. u = t => pc'[u] = "lease"
    BY <1>4 DEF Typed, TypeOK
  <2>3. CASE u = t
    BY <1>3, <2>2, <2>3 DEF Going
  <2>4. CASE u # t
    <3>1. hd'[cur[u]].mode = hd[cur[u]].mode /\ hd'[cur[u]].released = hd[cur[u]].released
          /\ (hd[cur[u]].locked => hd'[cur[u]].locked)
      BY <1>2, <1>3, <2>1, <2>4
    <3> QED
      BY <2>1, <2>4, <3>1 DEF StepsAgree, Flocks, Going
  <2> QED
    BY <2>3, <2>4
<1>7. FlocksAreCompatible'
  <2>1. \A g \in Handle : hd[g].locked /\ hd[g].inode = hd[h].inode
                            => hd[h].mode = "shared" /\ hd[g].mode = "shared"
    BY <1>1 DEF Flock, Compatible
  <2> SUFFICES ASSUME NEW g \in Handle, NEW k \in Handle, g # k, hd'[g].locked, hd'[k].locked,
                      hd'[g].inode = hd'[k].inode
               PROVE  hd'[g].mode = "shared" /\ hd'[k].mode = "shared"
    BY DEF FlocksAreCompatible
  <2>2. CASE g # h /\ k # h
    BY <1>2, <2>2 DEF FlocksAreCompatible, Flocks
  <2>3. CASE g = h
    BY <1>2, <1>3, <2>1, <2>3
  <2>4. CASE k = h
    BY <1>2, <1>3, <2>1, <2>4
  <2> QED
    BY <2>2, <2>3, <2>4
<1>8. OwnedIsLocked'
  <2> SUFFICES ASSUME NEW g \in Handle, Owned(g)', ~hd'[g].released, ~hd'[g].reused
               PROVE  hd'[g].locked
    BY DEF OwnedIsLocked
  <2>1. CASE g = h
    BY <1>3, <2>1
  <2>2. CASE g # h
    <3>1. Owned(g) /\ hd'[g] = hd[g]
      BY <1>1, <1>2, <1>4, <2>2, RefersMeans DEF Typed, TypeOK
    <3> QED
      BY <3>1 DEF OwnedIsLocked, Flocks
  <2> QED
    BY <2>1, <2>2
<1> QED
  BY <1>5, <1>6, <1>7, <1>8 DEF Flocks

LEMMA GrantKeepsFlocks ==
  ASSUME Typed, Typed', Flocks, NEW t \in Thread, LeaseGranted(t)
  PROVE  Flocks'
<1>1. cur[t] \in Handle /\ hd[cur[t]].locked /\ pc[t] = "lease"
  BY AtHandle DEF LeaseGranted, Flocks, StepsAgree, WithHandle, Steps
<1>2. /\ cur' = cur /\ UNCHANGED <<mode, entries>> /\ pc'[t] \in {"got", "hold"}
      /\ \A u \in Thread \ {t} : pc'[u] = pc[u]
  BY DEF LeaseGranted, Granted, Goto, Typed, TypeOK
<1>3. \A h \in Handle : Stored(h)' => Stored(h) \/ cur[t] = h
  <2>1. CASE UNCHANGED registry
    BY <1>2, <2>1 DEF Stored
  <2>2. CASE registry' = [registry EXCEPT ![ProcOf[t]][sess[t]] = cur[t]] /\ sess[t] \in Session
    BY <1>2, <2>2 DEF Stored, Typed, TypeOK
  <2> QED
    BY <2>1, <2>2 DEF LeaseGranted, Granted, Typed, TypeOK
<1>4. \A h \in Handle : hd'[h] = hd[h] \/ (hd'[h] = Blank /\ ~Refers(h)')
  BY CollectedIs DEF LeaseGranted, Typed, TypeOK
<1>5. \A h \in Handle : Owned(h)' => Owned(h) \/ hd[h].locked
  BY <1>1, <1>2, <1>3, RefersMeans
<1> QED
  BY <1>2, <1>3, <1>4, <1>5, QuietFlocks DEF Fresh, Going
(* Closing the file of a handle in the hands of t: LOCK_UN and close. *)
LEMMA ClosedIs ==
  ASSUME Typed, NEW h \in Handle
  PROVE  /\ ~Closed(h)[h].locked /\ Closed(h)[h].released = hd[h].released
         /\ Closed(h)[h].reused = hd[h].reused /\ Closed(h)[h].inode = None
         /\ \A g \in Handle \ {h} : Closed(h)[g] = hd[g]
         /\ Closed(h) \in [Handle -> Handles]
<1>1. hd[h] \in Handles /\ Closed(h) \in [Handle -> Handles]
  BY HandleType DEF Typed, TypeOK
<1>2. /\ Closed(h)[h] = [[hd[h] EXCEPT !.inode = None] EXCEPT !.locked = FALSE]
      /\ \A g \in Handle \ {h} : Closed(h)[g] = hd[g]
  BY DEF Closed, Typed, TypeOK
<1> QED
  BY <1>1, <1>2 DEF Handles

LEMMA FlaggedIs ==
  ASSUME Typed, NEW h \in Handle
  PROVE  /\ Flagged(h)[h].released /\ Flagged(h)[h].locked = hd[h].locked
         /\ Flagged(h)[h].mode = hd[h].mode /\ Flagged(h)[h].inode = hd[h].inode
         /\ Flagged(h)[h].reused = hd[h].reused
         /\ \A g \in Handle \ {h} : Flagged(h)[g] = hd[g]
         /\ Flagged(h) \in [Handle -> Handles]
<1>1. hd[h] \in Handles /\ Flagged(h) \in [Handle -> Handles]
  BY HandleType DEF Typed, TypeOK
<1>2. /\ Flagged(h)[h] = [hd[h] EXCEPT !.released = TRUE]
      /\ \A g \in Handle \ {h} : Flagged(h)[g] = hd[g]
  BY DEF Flagged, Typed, TypeOK
<1> QED
  BY <1>1, <1>2 DEF Handles

(* A thread flags or closes the handle h; h is not fresh, or t is past it. *)
LEMMA ReleaseKeepsFlocks ==
  ASSUME Typed, Typed', Flocks, NEW t \in Thread, NEW h \in Handle, cur[t] = h,
         UNCHANGED <<registry, entries>>,
         \A u \in Thread \ {t} : pc'[u] = pc[u] /\ cur'[u] = cur[u] /\ mode'[u] = mode[u],
         cur'[t] \in {h, None},
         pc'[t] \in Fresh => pc[t] \in Fresh /\ pc'[t] \notin {"flock", "lease"} /\ hd'[h].released = hd[h].released,
         pc'[t] \in Going => pc[t] \notin Fresh,
         pc'[t] \notin {"got", "hold", "release", "flag"},
         pc[t] \notin Fresh => hd'[h].released \/ (hd'[h] = Blank /\ ~Refers(h)'),
         hd'[h].reused = hd[h].reused \/ (hd'[h] = Blank /\ ~Refers(h)'),
         hd'[h].locked => hd[h].locked /\ hd'[h].inode = hd[h].inode /\ hd'[h].mode = hd[h].mode,
         \A g \in Handle \ {h} : hd'[g] = hd[g] \/ (hd'[g] = Blank /\ ~Refers(g)')
  PROVE  Flocks'
<1>1. \A g : Stored(g)' <=> Stored(g)
  BY DEF Stored
<1>2. \A u \in Thread \ {t} : pc'[u] \in Fresh \cup Going =>
        /\ cur[u] \in Handle /\ (cur[u] # h => hd'[cur[u]] = hd[cur[u]])
        /\ Refers(cur[u])'
  BY AtHandle, RefersMeans DEF Fresh, Going, WithHandle, Steps
<1>3. pc[t] \in Fresh => Sole(t) /\ ~hd[h].released /\ ~hd[h].reused
  BY DEF Flocks, FreshIsSole
<1>4. FreshIsSole'
  <2> SUFFICES ASSUME NEW u \in Thread, pc'[u] \in Fresh
               PROVE  Sole(u)' /\ ~hd'[cur'[u]].released /\ ~hd'[cur'[u]].reused
    BY DEF FreshIsSole
  <2>1. CASE u = t
    <3>1. cur'[t] = h /\ Refers(h)'
      BY <2>1, AtHandle, RefersMeans, NoneIsNothing DEF Fresh, WithHandle, Steps
    <3> QED
      BY <1>1, <1>3, <2>1, <3>1 DEF Sole
  <2>2. CASE u # t
    <3>1. Sole(u) /\ ~hd[cur[u]].released /\ ~hd[cur[u]].reused /\ cur[u] # h
      BY <2>2 DEF Flocks, FreshIsSole, Sole
    <3> QED
      BY <1>1, <1>2, <2>2, <3>1 DEF Sole
  <2> QED
    BY <2>1, <2>2
<1>5. StepsAgree'
  <2> SUFFICES ASSUME NEW u \in Thread, pc'[u] \in {"flock", "lease"} \cup Going
               PROVE  /\ pc'[u] = "flock" => hd'[cur'[u]].mode = mode'[u]
                      /\ pc'[u] = "lease" => hd'[cur'[u]].locked
                      /\ pc'[u] \in Going => hd'[cur'[u]].released
    BY DEF StepsAgree, Going
  <2>1. CASE u = t
    <3>1. pc'[t] \in Going /\ pc'[t] \notin Fresh
      BY <2>1 DEF Fresh, Going
    <3>2. cur'[t] = h /\ Refers(h)'
      BY <3>1, AtHandle, RefersMeans DEF Going, WithHandle, Steps
    <3>3. pc[t] \notin Fresh
      BY <3>1
    <3> QED
      BY <2>1, <3>1, <3>2, <3>3 DEF Going
  <2>2. CASE u # t /\ cur[u] # h
    BY <1>2, <2>2 DEF StepsAgree, Flocks, Fresh, Going
  <2>3. CASE u # t /\ cur[u] = h
    <3>1. pc[u] \notin Fresh /\ pc[t] \notin Fresh
      BY <1>3, <2>3 DEF Sole, Flocks, FreshIsSole
    <3> QED
      BY <1>2, <2>3, <3>1 DEF Fresh, Going
  <2> QED
    BY <2>1, <2>2, <2>3
<1>6. FlocksAreCompatible'
  BY BlankIsFree DEF FlocksAreCompatible, Flocks
<1>7. OwnedIsLocked'
  <2> SUFFICES ASSUME NEW g \in Handle, Owned(g)', ~hd'[g].released, ~hd'[g].reused
               PROVE  hd'[g].locked
    BY DEF OwnedIsLocked
  <2>1. Refers(g)' /\ Owned(g)
    BY <1>1, RefersMeans
  <2>2. g # h
    <3>1. ASSUME g = h PROVE FALSE
      <4>1. pc[t] \in Fresh /\ Sole(t)
        BY <1>3, <2>1, <3>1
      <4> QED
        BY <2>1, <3>1, <4>1, RefersMeans DEF Sole, Fresh
    <3> QED
      BY <3>1
  <2> QED
    BY <2>1, <2>2 DEF OwnedIsLocked, Flocks
<1> QED
  BY <1>4, <1>5, <1>6, <1>7 DEF Flocks
LEMMA ErrorCloseKeepsFlocks ==
  ASSUME Typed, Typed', Flocks, NEW t \in Thread, ErrorClose(t)
  PROVE  Flocks'
<1>1. PICK h \in Handle : h = cur[t]
  BY AtHandle DEF ErrorClose, WithHandle, Steps
<1>2. hd' = Closed(h) /\ pc'[t] = "errUnlink" /\ pc[t] = "errClose"
      /\ UNCHANGED <<registry, entries, mode, cur>> /\ \A u \in Thread \ {t} : pc'[u] = pc[u]
  BY <1>1 DEF ErrorClose, Closed, Goto, Typed, TypeOK
<1>3. cur'[t] \in {h, None} /\ \A u \in Thread \ {t} : cur'[u] = cur[u]
  BY <1>1, <1>2
<1>4. /\ ~hd'[h].locked /\ hd'[h].released = hd[h].released /\ hd'[h].reused = hd[h].reused
      /\ \A g \in Handle \ {h} : hd'[g] = hd[g]
  BY <1>2, ClosedIs
<1>5. /\ pc'[t] \in Fresh /\ pc[t] \in Fresh /\ pc'[t] \notin {"flock", "lease"}
      /\ pc'[t] \notin Going /\ pc'[t] \notin {"got", "hold", "release", "flag"}
  BY <1>2 DEF Fresh, Going
<1>6. \A u \in Thread \ {t} : pc'[u] = pc[u] /\ cur'[u] = cur[u] /\ mode'[u] = mode[u]
  BY <1>2, <1>3
<1>7. cur[t] = h /\ UNCHANGED <<registry, entries>>
  BY <1>1, <1>2
<1> QED
  BY <1>3, <1>4, <1>5, <1>6, <1>7, ReleaseKeepsFlocks

LEMMA FlagKeepsFlocks ==
  ASSUME Typed, Typed', Flocks, NEW t \in Thread, SetReleased(t)
  PROVE  Flocks'
<1>1. PICK h \in Handle : h = cur[t]
  BY AtHandle DEF SetReleased, WithHandle, Steps
<1>2. /\ pc[t] = "flag" /\ UNCHANGED <<registry, entries>>
      /\ \/ pc'[t] = "idle" /\ cur'[t] = None /\ hd' = Collected(Flagged(h))
         \/ pc'[t] = "unlock" /\ cur'[t] = h /\ hd' = Flagged(h)
      /\ \A u \in Thread \ {t} : pc'[u] = pc[u] /\ cur'[u] = cur[u] /\ mode'[u] = mode[u]
  BY <1>1, FinishedIs DEF SetReleased, Flagged, Goto, Typed, TypeOK
<1>3. \A g \in Handle : hd'[g] = Flagged(h)[g] \/ (hd'[g] = Blank /\ ~Refers(g)')
  BY <1>2, FlaggedIs, CollectedIs
<1>4. /\ hd'[h].released \/ (hd'[h] = Blank /\ ~Refers(h)')
      /\ hd'[h].reused = hd[h].reused \/ (hd'[h] = Blank /\ ~Refers(h)')
      /\ hd'[h].locked => hd[h].locked /\ hd'[h].inode = hd[h].inode /\ hd'[h].mode = hd[h].mode
      /\ \A g \in Handle \ {h} : hd'[g] = hd[g] \/ (hd'[g] = Blank /\ ~Refers(g)')
  BY <1>1, <1>3, FlaggedIs, BlankIsFree
<1> QED
  BY <1>1, <1>2, <1>4, ReleaseKeepsFlocks DEF Fresh, Going

LEMMA UnlockKeepsFlocks ==
  ASSUME Typed, Typed', Flocks, NEW t \in Thread, Unlock(t)
  PROVE  Flocks'
<1>1. PICK h \in Handle : h = cur[t]
  BY AtHandle DEF Unlock, WithHandle, Steps
<1>2. /\ pc[t] = "unlock" /\ UNCHANGED <<registry, entries>>
      /\ \/ pc'[t] = "idle" /\ cur'[t] = None /\ hd' = Collected(Closed(h))
         \/ pc'[t] = "unlink" /\ cur'[t] = h /\ hd' = Closed(h)
      /\ \A u \in Thread \ {t} : pc'[u] = pc[u] /\ cur'[u] = cur[u] /\ mode'[u] = mode[u]
  <2>1. CASE hd[cur[t]].inode = None
    BY <1>1, <2>1, FinishedIs DEF Unlock, Closed
  <2>2. CASE hd[cur[t]].inode # None
    <3>1. /\ pc[t] = "unlock" /\ UNCHANGED <<registry, entries, cur, mode>>
          /\ Goto(t, "unlink") /\ hd' = Closed(h)
      BY <1>1, <2>2 DEF Unlock, Closed
    <3> QED
      BY <1>1, <3>1, GotoIs
  <2> QED
    BY <2>1, <2>2
<1>3. \A g \in Handle : hd'[g] = Closed(h)[g] \/ (hd'[g] = Blank /\ ~Refers(g)')
  BY <1>2, ClosedIs, CollectedIs
<1>4. hd[h].released
  BY <1>1, <1>2 DEF Flocks, StepsAgree, Going
<1>5. /\ hd'[h].released \/ (hd'[h] = Blank /\ ~Refers(h)')
      /\ hd'[h].reused = hd[h].reused \/ (hd'[h] = Blank /\ ~Refers(h)')
      /\ ~hd'[h].locked
      /\ \A g \in Handle \ {h} : hd'[g] = hd[g] \/ (hd'[g] = Blank /\ ~Refers(g)')
  BY <1>1, <1>3, <1>4, ClosedIs, BlankIsFree
<1> QED
  BY <1>1, <1>2, <1>5, ReleaseKeepsFlocks DEF Fresh, Going

LEMMA FlocksStep == Typed /\ Typed' /\ Flocks /\ [Next]_vars => Flocks'
<1> SUFFICES ASSUME Typed, Typed', Flocks, [Next]_vars PROVE Flocks'
  OBVIOUS
<1>1. ASSUME NEW t \in Thread, Acquiring(t) PROVE Flocks'
  BY <1>1, CallsKeepFlocks, EndsKeepFlocks, OpenKeepsFlocks, ReuseKeepsFlocks,
     LockingKeepsFlocks, GrantKeepsFlocks, ErrorCloseKeepsFlocks DEF Acquiring
<1>2. ASSUME NEW t \in Thread, Releasing(t) PROVE Flocks'
  BY <1>2, CallsKeepFlocks, EndsKeepFlocks, FlagKeepsFlocks, UnlockKeepsFlocks DEF Releasing
<1>3. ASSUME NEW t \in Thread,
             \/ HandedOut(t) \/ LeaveFileLock(t)
             \/ \E m \in Mode : BeginLock(t, m)
             \/ \E m \in Mode, s \in Session : BeginPersistent(t, s, m)
      PROVE Flocks'
  BY <1>3, CallsKeepFlocks, EndsKeepFlocks DEF HandedOut
<1>4. ASSUME NEW t \in Thread,
             \/ \E s \in Session : ReleasePersistent(t, s)
             \/ \E x \in Transfer : ReleaseTransfer(t, x)
      PROVE Flocks'
  BY <1>4, PopsKeepFlocks
<1>5. ASSUME NEW p \in Process, Crash(p) PROVE Flocks'
  BY <1>5, CrashKeepsFlocks
<1>6. CASE UNCHANGED vars
  <2>1. \A h : (Stored(h)' <=> Stored(h)) /\ (Owned(h)' <=> Owned(h))
    BY <1>6 DEF vars, Stored, Owned
  <2> QED
    BY <1>6, <2>1 DEF vars, Flocks, FreshIsSole, Sole, StepsAgree, FlocksAreCompatible,
       OwnedIsLocked
<1> QED
  BY <1>1, <1>2, <1>3, <1>4, <1>5, <1>6 DEF Next

LEMMA Inductive == Spec => [](Typed /\ Flocks)
<1>1. Init => Typed
  BY BlankType DEF Init, Typed, TypeOK, SessionsAreKnown, Steps, WithHandle
<1>2. Init => Flocks
  <2> SUFFICES ASSUME Init PROVE Flocks
    OBVIOUS
  <2>1. \A h \in Handle : ~Owned(h)
    BY DEF Init, Owned
  <2> QED
    BY <2>1, BlankIsFree DEF Init, Flocks, FreshIsSole, StepsAgree, FlocksAreCompatible,
       OwnedIsLocked, Fresh, Going
<1> QED
  BY <1>1, <1>2, TypeInduction, FlocksStep, PTL DEF Spec

(* A handle that is not flagged as released really has its flock, whoever  *)
(* else closes, reuses or unlinks the sidecar meanwhile.                   *)
THEOREM UnreleasedIsLocked == Spec => []UnreleasedHandleHasItsFlock
<1>1. Typed /\ Flocks => UnreleasedHandleHasItsFlock
  BY DEF Flocks, OwnedIsLocked, FlocksAreCompatible, UnreleasedHandleHasItsFlock
<1> QED
  BY <1>1, Inductive, PTL
-----------------------------------------------------------------------------
(* The third part: what a persistent call finds in the registry stays so   *)
(* as long as it waits for the flock, for it waits inside the guard.       *)
Inside(t) == pc[t] \in Waiting \cup {"lookup"} /\ sess[t] # None

FoundNone(t) ==
  LET h == registry[ProcOf[t]][sess[t]] IN h # None => hd[h].released

Guarded == \A t \in Thread :
  Inside(t) => guard[ProcOf[t]] = t /\ (pc[t] # "lookup" => FoundNone(t))

(* A handle in use never loses its flag. *)
FlagsStay == \A h \in Handle : Refers(h) /\ Refers(h)' /\ hd[h].released => hd'[h].released

LEMMA FlagsStayStep == Typed /\ Typed' /\ [Next]_vars => FlagsStay
<1> SUFFICES ASSUME Typed, Typed', [Next]_vars, NEW h \in Handle, Refers(h), Refers(h)',
                    hd[h].released
             PROVE  hd'[h].released
  BY DEF FlagsStay
<1>same. hd \in [Handle -> Handles] /\ (hd' = hd \/ hd' = Collected(hd) => hd'[h].released)
  <2>1. hd \in [Handle -> Handles]
    BY DEF Typed, TypeOK
  <2>2. Collected(hd)[h] = hd[h]
    BY <2>1, CollectedKeeps
  <2> QED
    BY <2>1, <2>2
<1>1. ASSUME NEW t \in Thread, Acquiring(t) PROVE hd'[h].released
  <2>1. CASE Open(t) \/ ReuseOwn(t)
    <3>0. PICK g \in Unused :
            \E r : hd' = [hd EXCEPT ![g] = r] \/ hd' = Collected([hd EXCEPT ![g] = r])
      BY <2>1 DEF Open, ReuseOwn
    <3>1. PICK r : hd' = [hd EXCEPT ![g] = r] \/ hd' = Collected([hd EXCEPT ![g] = r])
      BY <3>0
    <3>2. g # h /\ g \in Handle
      BY DEF Unused
    <3>3. [hd EXCEPT ![g] = r][h] = hd[h]
      BY <3>2, <1>same
    <3>4. Collected([hd EXCEPT ![g] = r])[h] = [hd EXCEPT ![g] = r][h]
      BY DEF Collected
    <3> QED
      BY <3>1, <3>3, <3>4
  <2>2. CASE Flock(t)
    <3>1. hd'[h].released = hd[h].released
      <4>1. hd' = [hd EXCEPT ![cur[t]].locked = TRUE] /\ hd[h] \in Handles
        BY <1>same, <2>2 DEF Flock
      <4>2. hd'[h] = hd[h] \/ hd'[h] = [hd[h] EXCEPT !.locked = TRUE]
        BY <1>same, <4>1
      <4>3. [hd[h] EXCEPT !.locked = TRUE].released = hd[h].released
        BY <4>1 DEF Handles
      <4> QED
        BY <4>2, <4>3
    <3> QED
      BY <3>1
  <2>3. CASE ErrorClose(t)
    <3>1. cur[t] \in Handle /\ hd' = Closed(cur[t])
      BY <2>3, AtHandle DEF ErrorClose, Closed, WithHandle, Steps
    <3> QED
      BY <3>1, ClosedIs
  <2>4. CASE hd' = hd \/ hd' = Collected(hd)
    BY <2>4, <1>same
  <2> QED
    BY <1>1, <2>1, <2>2, <2>3, <2>4 DEF Acquiring, TakeGuard, FindExisting, FindNone,
       NotHeldHere, Timeout, LeaseGranted, LeaseFails, ErrorUnlink
<1>2. ASSUME NEW t \in Thread, Releasing(t) PROVE hd'[h].released
  <2>1. cur[t] \in Handle
    BY <1>2, AtHandle DEF Releasing, AlreadyReleased, NotYetReleased, SetReleased, Unlock, Unlink,
       WithHandle, Steps
  <2>2. CASE SetReleased(t)
    <3>1. hd' = Flagged(cur[t]) \/ hd' = Collected(Flagged(cur[t]))
      BY <2>2 DEF SetReleased, Flagged
    <3> QED
      BY <2>1, <3>1, FlaggedIs, CollectedKeeps
  <2>3. CASE Unlock(t)
    <3>1. hd' = Closed(cur[t]) \/ hd' = Collected(Closed(cur[t]))
      BY <2>3 DEF Unlock, Closed
    <3> QED
      BY <2>1, <3>1, ClosedIs, CollectedKeeps
  <2>4. CASE hd' = hd \/ hd' = Collected(hd)
    BY <2>4, <1>same
  <2> QED
    BY <1>2, <2>2, <2>3, <2>4 DEF Releasing, AlreadyReleased, NotYetReleased, Unlink
<1>3. CASE hd' = hd \/ hd' = Collected(hd)
  BY <1>3, <1>same
<1> QED
  BY <1>1, <1>2, <1>3 DEF Next, BeginLock, BeginPersistent, HandedOut, KeepInRegistry,
     RegisterTransfer, CommandFails, LeaveFileLock, ReleasePersistent, ReleaseTransfer, Crash, vars

(* Steps in which nobody enters the guard or stores a handle in the        *)
(* registry of a process where somebody else is inside.                    *)
LEMMA QuietLookup ==
  ASSUME Typed, Typed', Guarded, FlagsStay,
         \A u \in Thread : Inside(u)' =>
           /\ Inside(u) /\ sess'[u] = sess[u] /\ guard'[ProcOf[u]] = guard[ProcOf[u]]
           /\ pc[u] = "lookup" => pc'[u] = "lookup" \/ FoundNone(u)
           /\ registry'[ProcOf[u]][sess[u]] \in {registry[ProcOf[u]][sess[u]], None}
  PROVE  Guarded'
<1> SUFFICES ASSUME NEW t \in Thread, Inside(t)'
             PROVE  guard'[ProcOf[t]] = t /\ (pc'[t] # "lookup" => FoundNone(t)')
  BY DEF Guarded
<1>1. guard'[ProcOf[t]] = t
  BY DEF Guarded
<1>2. ASSUME pc'[t] # "lookup" PROVE FoundNone(t)'
  <2> PICK h : h = registry'[ProcOf[t]][sess'[t]]
    OBVIOUS
  <2> SUFFICES ASSUME h # None PROVE hd'[h].released
    BY DEF FoundNone
  <2>1. h = registry[ProcOf[t]][sess[t]] /\ ProcOf[t] \in Process /\ sess[t] \in Session
    BY DEF Inside, Typed, TypeOK
  <2>stored. registry'[ProcOf[t]][sess[t]] = h
    OBVIOUS
  <2>2. h \in Handle /\ Refers(h) /\ Refers(h)'
    BY <2>1, <2>stored DEF Refers, Typed, TypeOK
  <2>3. FoundNone(t)
    BY <1>2 DEF Guarded, Inside
  <2> QED
    BY <2>1, <2>2, <2>3 DEF FoundNone, FlagsStay
<1> QED
  BY <1>1, <1>2

LEMMA GuardedStep == Typed /\ Typed' /\ Guarded /\ [Next]_vars => Guarded'
<1> SUFFICES ASSUME Typed, Typed', Guarded, [Next]_vars PROVE Guarded'
  OBVIOUS
<1>flags. FlagsStay
  BY FlagsStayStep
<1>mine. \A t \in Thread : Inside(t) => guard[ProcOf[t]] = t
  BY DEF Guarded
<1> USE DEF Goto
<1>leave. \A t \in Thread : \A u \in Thread \ {t} :
            Inside(u) => GuardLeft(t)[ProcOf[u]] = guard[ProcOf[u]]
  BY <1>mine DEF GuardLeft, Typed, TypeOK
<1>1. ASSUME NEW t \in Thread, TakeGuard(t) PROVE Guarded'
  <2>1. \A u \in Thread \ {t} : Inside(u)' => Inside(u) /\ ProcOf[u] # ProcOf[t]
    BY <1>1, <1>mine DEF TakeGuard, Inside, Typed, TypeOK
  <2>2. guard'[ProcOf[t]] = t /\ pc'[t] = "lookup"
    BY <1>1 DEF TakeGuard, Typed, TypeOK
  <2>3. UNCHANGED <<sess, registry, hd>> /\ \A u \in Thread \ {t} : pc'[u] = pc[u]
    BY <1>1 DEF TakeGuard, Typed, TypeOK
  <2>4. \A u \in Thread \ {t} : Inside(u)' => guard'[ProcOf[u]] = u
    BY <1>1, <1>mine, <2>1 DEF TakeGuard, Typed, TypeOK
  <2> QED
    BY <2>1, <2>2, <2>3, <2>4 DEF Guarded, FoundNone
<1>2. ASSUME NEW t \in Thread, FindNone(t) PROVE Guarded'
  <2>1. FoundNone(t) /\ pc[t] = "lookup" /\ pc' = [pc EXCEPT ![t] = "check"]
        /\ UNCHANGED <<registry, guard, sess, hd>>
    BY <1>2 DEF FindNone, FoundNone
  <2> QED
    BY <2>1, <1>flags, QuietLookup DEF Inside, Waiting, Typed, TypeOK
<1>3. ASSUME NEW t \in Thread, FindExisting(t) PROVE Guarded'
  <2>1. UNCHANGED registry /\ guard' = GuardLeft(t) /\ pc'[t] \in {"got", "idle"}
        /\ \A u \in Thread \ {t} : pc'[u] = pc[u] /\ sess'[u] = sess[u]
    BY <1>3 DEF FindExisting, Finished, Typed, TypeOK
  <2> QED
    BY <2>1, <1>flags, <1>leave, QuietLookup DEF Inside, Waiting
<1>4. ASSUME NEW t \in Thread, NEW h, Granted(t, h), UNCHANGED sess,
             pc[t] \in Waiting
      PROVE  Guarded'
  <2>1. pc'[t] \in {"got", "hold"} /\ \A u \in Thread \ {t} : pc'[u] = pc[u]
    BY <1>4 DEF Granted, Typed, TypeOK
  <2>2. CASE sess[t] = None
    <3>1. UNCHANGED <<registry, guard>>
      BY <1>4, <2>2 DEF Granted
    <3> QED
      BY <1>4, <2>1, <3>1, <1>flags, QuietLookup DEF Inside, Waiting
  <2>3. CASE sess[t] # None
    <3>1. registry' = [registry EXCEPT ![ProcOf[t]][sess[t]] = h] /\ guard' = GuardLeft(t)
      BY <1>4, <2>3 DEF Granted
    <3>2. \A u \in Thread \ {t} : Inside(u) => ProcOf[u] # ProcOf[t]
      BY <1>4, <2>3, <1>mine DEF Inside
    <3>3. \A u \in Thread \ {t} : Inside(u) => registry'[ProcOf[u]] = registry[ProcOf[u]]
      BY <3>1, <3>2 DEF Typed, TypeOK
    <3> QED
      BY <1>4, <2>1, <3>1, <3>3, <1>flags, <1>leave, QuietLookup DEF Inside, Waiting
  <2> QED
    BY <2>2, <2>3
<1>5. ASSUME NEW t \in Thread, ReuseOwn(t) \/ LeaseGranted(t) PROVE Guarded'
  BY <1>4, <1>5 DEF ReuseOwn, LeaseGranted, Waiting
<1>6. ASSUME NEW t \in Thread,
             \/ NotHeldHere(t) \/ Open(t) \/ Flock(t) \/ Timeout(t) \/ LeaseFails(t)
             \/ ErrorClose(t)
      PROVE Guarded'
  <2>1. /\ UNCHANGED <<registry, guard, sess>> /\ pc[t] \in Waiting /\ pc'[t] \in Waiting
        /\ \A u \in Thread \ {t} : pc'[u] = pc[u]
    <3>1. UNCHANGED <<registry, guard, sess>> /\ pc[t] \in Waiting /\ \E step \in Waiting : Goto(t, step)
      BY <1>6 DEF NotHeldHere, Open, Flock, Timeout, LeaseFails, ErrorClose, Waiting
    <3> QED
      BY <3>1, GotoIs
  <2>2. pc[t] # "lookup" /\ pc'[t] # "lookup"
    BY <2>1 DEF Waiting
  <2> QED
    BY <2>1, <2>2, <1>flags, QuietLookup DEF Inside
<1>7. ASSUME NEW t \in Thread,
             \/ ErrorUnlink(t) \/ KeepInRegistry(t) \/ AlreadyReleased(t) \/ Unlink(t)
             \/ SetReleased(t) \/ Unlock(t) \/ \E x \in Transfer : RegisterTransfer(t, x)
      PROVE Guarded'
  <2>1. UNCHANGED registry /\ guard' \in {guard, GuardLeft(t)}
        /\ pc'[t] \in {"idle", "unlock", "unlink"}
        /\ \A u \in Thread \ {t} : pc'[u] = pc[u] /\ sess'[u] = sess[u]
    BY <1>7 DEF ErrorUnlink, KeepInRegistry, AlreadyReleased, Unlink, SetReleased, Unlock,
       RegisterTransfer, Finished, Typed, TypeOK
  <2> QED
    BY <2>1, <1>flags, <1>leave, QuietLookup DEF Inside, Waiting
<1>8. ASSUME NEW t \in Thread,
             \/ CommandFails(t) \/ LeaveFileLock(t) \/ NotYetReleased(t)
             \/ \E s \in Session : ReleasePersistent(t, s)
             \/ \E x \in Transfer : ReleaseTransfer(t, x)
      PROVE Guarded'
  <2>1. UNCHANGED <<guard, sess>> /\ pc'[t] \in {"release", "flag"}
        /\ (\A u \in Thread \ {t} : pc'[u] = pc[u])
    BY <1>8 DEF CommandFails, LeaveFileLock, NotYetReleased, ReleasePersistent, ReleaseTransfer,
       Typed, TypeOK
  <2>3. \A p \in Process, s \in Session : registry'[p][s] \in {registry[p][s], None}
    <3>1. ASSUME NEW r \in Session, ReleasePersistent(t, r)
          PROVE  \A p \in Process, s \in Session : registry'[p][s] \in {registry[p][s], None}
      BY <3>1 DEF ReleasePersistent, Typed, TypeOK
    <3> QED
      BY <1>8, <3>1 DEF CommandFails, LeaveFileLock, NotYetReleased, ReleaseTransfer
  <2>2. \A u \in Thread : Inside(u) => ProcOf[u] \in Process /\ sess[u] \in Session
    BY DEF Inside, Typed, TypeOK
  <2> QED
    BY <2>1, <2>2, <2>3, <1>flags, QuietLookup DEF Inside, Waiting
<1>9. ASSUME NEW t \in Thread,
             \/ \E m \in Mode : BeginLock(t, m)
             \/ \E m \in Mode, s \in Session : BeginPersistent(t, s, m)
      PROVE Guarded'
  <2>1. UNCHANGED <<guard, registry>>
        /\ (pc'[t] = "guard" \/ (pc'[t] = "check" /\ sess'[t] = None))
        /\ \A u \in Thread \ {t} : pc'[u] = pc[u] /\ sess'[u] = sess[u]
    BY <1>9 DEF BeginLock, BeginPersistent, Typed, TypeOK, SessionsAreKnown
  <2> QED
    BY <2>1, <1>flags, QuietLookup DEF Inside, Waiting
<1>10. ASSUME NEW p \in Process, Crash(p) PROVE Guarded'
  <2>1. \A u \in Thread : ProcOf[u] = p => pc'[u] = "idle"
    BY <1>10 DEF Crash
  <2>2. \A u \in Thread : ProcOf[u] # p =>
          pc'[u] = pc[u] /\ sess'[u] = sess[u] /\ guard'[ProcOf[u]] = guard[ProcOf[u]]
            /\ registry'[ProcOf[u]] = registry[ProcOf[u]]
    BY <1>10 DEF Crash, Typed, TypeOK
  <2> QED
    BY <2>1, <2>2, <1>flags, QuietLookup DEF Inside, Waiting
<1>11. CASE UNCHANGED vars
  BY <1>11 DEF vars, Guarded, Inside, FoundNone
<1> QED
  BY <1>1, <1>2, <1>3, <1>5, <1>6, <1>7, <1>8, <1>9, <1>10, <1>11
  DEF Next, Acquiring, Releasing, HandedOut

(* What a persistent call found in the registry is still so when it stores *)
(* its handle there.                                                       *)
THEOREM LookupHolds == Spec => []LookupStaysTrue
<1>1. Init => Guarded
  BY DEF Init, Guarded, Inside, Waiting
<1>2. Guarded => LookupStaysTrue
  BY DEF Guarded, Inside, Waiting, FoundNone, LookupStaysTrue
<1> QED
  BY <1>1, <1>2, Inductive, GuardedStep, PTL DEF Spec
-----------------------------------------------------------------------------
(* The fourth part: as long as no process has died, every open file has    *)
(* somebody who will close it, and a linked name somebody who will unlink. *)
Keeping == {"flock", "lease", "errClose", "hold", "release", "flag"}
Unlinking == {"errUnlink", "unlink"}

Kept(h) == Stored(h) \/ \E t \in Thread : cur[t] = h /\ pc[t] \in Keeping
BeingClosed(h) == \E t \in Thread : cur[t] = h /\ pc[t] = "unlock"

FilesAreKept ==
  \A h \in Handle : hd[h].inode # None =>
    /\ ~hd[h].released => Kept(h)
    /\ hd[h].released => BeingClosed(h)

NameIsKept ==
  link # None => \/ \E h \in Handle : hd[h].inode # None
                 \/ \E t \in Thread : pc[t] \in Unlinking

ReusedHasNoFile == \A h \in Handle : hd[h].reused => hd[h].inode = None

Tidy == ReusedHasNoFile /\ (crashes = 0 => FilesAreKept /\ NameIsKept)

LEMMA KeptIsReferred ==
  ASSUME NEW h \in Handle
  PROVE  /\ Kept(h)' \/ BeingClosed(h)' => Refers(h)'
  BY RefersMeans DEF Kept, BeingClosed

(* Steps of t that change no handle but by collecting it.                  *)
LEMMA QuietTidy ==
  ASSUME Typed, Typed', Tidy, NEW t \in Thread, UNCHANGED crashes,
         \A u \in Thread \ {t} : pc'[u] = pc[u] /\ cur'[u] = cur[u],
         \A h \in Handle : hd'[h] = hd[h] \/ (hd'[h] = Blank /\ ~Refers(h)'),
         \A h \in Handle : Kept(h) /\ ~hd[h].released => Kept(h)',
         pc[t] # "unlock",
         link' = None \/ (link' = link /\ pc[t] \notin Unlinking)
  PROVE  Tidy'
<1>1. ReusedHasNoFile'
  BY BlankIsFree DEF ReusedHasNoFile, Tidy
<1>2. ASSUME crashes = 0 PROVE FilesAreKept' /\ NameIsKept'
  <2>1. \A h \in Handle : BeingClosed(h) => BeingClosed(h)'
    BY DEF BeingClosed
  <2>2. \A h \in Handle : hd[h].inode # None =>
          /\ hd'[h] = hd[h] /\ (~hd[h].released => Kept(h)')
          /\ (hd[h].released => BeingClosed(h)')
    BY <1>2, <2>1, KeptIsReferred DEF FilesAreKept, Tidy
  <2>3. FilesAreKept'
    BY <2>2, BlankIsFree DEF FilesAreKept
  <2>4. NameIsKept'
    BY <1>2, <2>2 DEF NameIsKept, Tidy
  <2> QED
    BY <2>3, <2>4
<1> QED
  BY <1>1, <1>2 DEF Tidy

LEMMA TidyStep == Typed /\ Typed' /\ Guarded /\ Tidy /\ [Next]_vars => Tidy'
<1> SUFFICES ASSUME Typed, Typed', Guarded, Tidy, [Next]_vars PROVE Tidy'
  OBVIOUS
<1>type. /\ hd \in [Handle -> Handles]
         /\ \A h \in Handle :
              Collected(hd)[h] = hd[h] \/ (Collected(hd)[h] = Blank /\ ~Refers(h)')
  BY CollectedIs DEF Typed, TypeOK
<1> USE DEF Goto
<1>1. ASSUME NEW t \in Thread,
             \/ \E m \in Mode : BeginLock(t, m)
             \/ \E m \in Mode, s \in Session : BeginPersistent(t, s, m)
             \/ TakeGuard(t) \/ FindExisting(t) \/ FindNone(t) \/ NotHeldHere(t)
             \/ Timeout(t) \/ LeaseFails(t) \/ CommandFails(t) \/ LeaveFileLock(t)
             \/ NotYetReleased(t)
      PROVE  Tidy'
  <2>1. /\ UNCHANGED <<link, hd, registry, entries, crashes>> /\ pc[t] \notin Unlinking \cup {"unlock"}
        /\ \A u \in Thread \ {t} : pc'[u] = pc[u] /\ cur'[u] = cur[u]
        /\ pc[t] \in Keeping => pc'[t] \in Keeping /\ cur'[t] = cur[t]
    BY <1>1 DEF BeginLock, BeginPersistent, TakeGuard, FindExisting, FindNone, NotHeldHere,
       Timeout, LeaseFails, CommandFails, LeaveFileLock, NotYetReleased, Finished, Unlinking,
       Keeping, Typed, TypeOK
  <2>2. \A h \in Handle : Kept(h) => Kept(h)'
    BY <2>1 DEF Kept, Stored
  <2> QED
    BY <2>1, <2>2, QuietTidy
<1>2. ASSUME NEW t \in Thread,
             \/ ErrorUnlink(t) \/ KeepInRegistry(t) \/ AlreadyReleased(t) \/ Unlink(t)
             \/ \E x \in Transfer : RegisterTransfer(t, x)
      PROVE  Tidy'
  <2>1. /\ UNCHANGED <<registry, crashes>> /\ (hd' = hd \/ hd' = Collected(hd))
        /\ \A u \in Thread \ {t} : pc'[u] = pc[u] /\ cur'[u] = cur[u]
        /\ pc[t] \in Keeping => hd[cur[t]].released
        /\ pc[t] # "unlock" /\ (link' = None \/ (link' = link /\ pc[t] \notin Unlinking))
    BY <1>2, FinishedIs DEF ErrorUnlink, KeepInRegistry, AlreadyReleased, Unlink, RegisterTransfer,
       Unlinking, Keeping
  <2>2. \A h \in Handle : Stored(h) => Stored(h)'
    <3>1. CASE UNCHANGED entries
      BY <2>1, <3>1 DEF Stored
    <3>2. ASSUME NEW x \in Transfer, RegisterTransfer(t, x)
          PROVE  \A h \in Handle : Stored(h) => Stored(h)'
      BY <2>1, <3>2 DEF Stored, RegisterTransfer, Typed, TypeOK
    <3> QED
      BY <1>2, <3>1, <3>2 DEF ErrorUnlink, KeepInRegistry, AlreadyReleased, Unlink
  <2>3. \A h \in Handle : Kept(h) /\ ~hd[h].released => Kept(h)'
    BY <2>1, <2>2 DEF Kept
  <2> QED
    BY <2>1, <2>3, <1>type, QuietTidy
<1>3. ASSUME NEW t \in Thread,
             \/ \E s \in Session : ReleasePersistent(t, s)
             \/ \E x \in Transfer : ReleaseTransfer(t, x)
      PROVE  Tidy'
  <2>1. /\ UNCHANGED <<link, hd, crashes>> /\ pc[t] = "idle" /\ pc'[t] = "release"
        /\ \A u \in Thread \ {t} : pc'[u] = pc[u] /\ cur'[u] = cur[u]
    BY <1>3 DEF ReleasePersistent, ReleaseTransfer, Typed, TypeOK
  <2>2. \A h \in Handle : Stored(h) => Stored(h)' \/ cur'[t] = h
    <3>1. ASSUME NEW s \in Session, ReleasePersistent(t, s)
          PROVE  \A h \in Handle : Stored(h) => Stored(h)' \/ cur'[t] = h
      BY <3>1 DEF ReleasePersistent, Stored, Typed, TypeOK
    <3>2. ASSUME NEW x \in Transfer, ReleaseTransfer(t, x)
          PROVE  \A h \in Handle : Stored(h) => Stored(h)' \/ cur'[t] = h
      BY <3>2 DEF ReleaseTransfer, Stored, Typed, TypeOK
    <3> QED
      BY <1>3, <3>1, <3>2
  <2>3. \A h \in Handle : Kept(h) => Kept(h)'
    BY <2>1, <2>2 DEF Kept, Keeping
  <2> QED
    BY <2>1, <2>3, QuietTidy DEF Unlinking
<1>overwritten. ASSUME NEW t \in Thread, pc[t] \in Waiting, NEW g \in Handle, Granted(t, g),
                       UNCHANGED entries, NEW h \in Handle, Stored(h), ~hd[h].released
                PROVE  Stored(h)'
  <2>1. CASE sess[t] = None
    BY <1>overwritten, <2>1 DEF Granted, Stored
  <2>2. CASE sess[t] # None
    <3>1. registry' = [registry EXCEPT ![ProcOf[t]][sess[t]] = g] /\ sess[t] \in Session
      BY <1>overwritten, <2>2 DEF Granted, Typed, TypeOK
    <3>2. FoundNone(t)
      BY <1>overwritten, <2>2 DEF Guarded, Inside, Waiting
    <3>3. registry[ProcOf[t]][sess[t]] # h
      BY <1>overwritten, <3>2, NoneIsNothing DEF FoundNone
    <3> QED
      BY <1>overwritten, <3>1, <3>3 DEF Stored, Typed, TypeOK
  <2> QED
    BY <2>1, <2>2
<1>4. ASSUME NEW t \in Thread, LeaseGranted(t) PROVE Tidy'
  <2>1. /\ UNCHANGED <<link, entries, crashes, cur>> /\ pc[t] = "lease" /\ hd' = Collected(hd)
        /\ \A u \in Thread \ {t} : pc'[u] = pc[u]
        /\ cur[t] \in Handle /\ Granted(t, cur[t])
    <3>1. /\ UNCHANGED <<link, entries, crashes>> /\ pc[t] = "lease" /\ hd' = Collected(hd)
          /\ Granted(t, cur[t])
      BY <1>4 DEF LeaseGranted
    <3>2. cur[t] \in Handle
      BY <3>1, AtHandle DEF WithHandle, Steps
    <3>3. cur' = cur
      BY <3>1 DEF Granted, Typed, TypeOK
    <3>4. \A u \in Thread \ {t} : pc'[u] = pc[u]
      <4>1. Goto(t, "hold") \/ Goto(t, "got")
        BY <3>1 DEF Granted
      <4> QED
        BY <4>1, GotoIs
    <3> QED
      BY <3>1, <3>2, <3>3, <3>4
  <2>2. \A h \in Handle : Stored(h) /\ ~hd[h].released => Stored(h)'
    BY <2>1, <1>overwritten DEF Waiting
  <2>3. pc'[t] = "hold" \/ Stored(cur[t])'
    BY <2>1 DEF Granted, Stored, Typed, TypeOK
  <2>4. \A h \in Handle : Kept(h) /\ ~hd[h].released => Kept(h)'
    BY <2>1, <2>2, <2>3 DEF Kept, Keeping
  <2> QED
    BY <2>1, <2>4, <1>type, QuietTidy DEF Unlinking
<1>5. ASSUME NEW t \in Thread, ReuseOwn(t) PROVE Tidy'
  <2>1. PICK h \in Unused :
          /\ Granted(t, h)
          /\ hd' = Collected([hd EXCEPT ![h] = [Blank EXCEPT !.reused = TRUE, !.mode = mode[t]]])
    BY <1>5 DEF ReuseOwn
  <2>2. h \in Handle /\ ~Stored(h) /\ (\A u \in Thread : cur[u] # h)
    BY PickedIsFree
  <2>3. /\ UNCHANGED <<link, entries, crashes>> /\ pc[t] = "check"
        /\ \A u \in Thread \ {t} : pc'[u] = pc[u] /\ cur'[u] = cur[u]
    BY <1>5, <2>1 DEF ReuseOwn, Granted, Typed, TypeOK
  <2>4. \A g \in Handle : Kept(g) /\ ~hd[g].released => Kept(g)'
    BY <2>1, <2>2, <2>3, <1>overwritten DEF Kept, Keeping, Waiting
  <2>5. [Blank EXCEPT !.reused = TRUE, !.mode = mode[t]] \in Handles
    BY BlankType DEF Handles, Typed, TypeOK
  <2>6. [hd EXCEPT ![h] = [Blank EXCEPT !.reused = TRUE, !.mode = mode[t]]] \in [Handle -> Handles]
    BY <2>5, <1>type
  <2>7. hd'[h].inode = None
    BY <2>1, <2>2, <2>5, <2>6, CollectedIs, BlankIsFree, <1>type DEF Blank
  <2>8. \A g \in Handle \ {h} : hd'[g] = hd[g] \/ (hd'[g] = Blank /\ ~Refers(g)')
    BY <2>1, <2>2, <2>6, <1>type, CollectedIs
  <2>9. ReusedHasNoFile'
    BY <2>7, <2>8, BlankIsFree DEF ReusedHasNoFile, Tidy
  <2>10. ASSUME crashes = 0 PROVE FilesAreKept' /\ NameIsKept'
    <3>1. \A g \in Handle : BeingClosed(g) => BeingClosed(g)'
      BY <2>3 DEF BeingClosed
    <3>2. hd[h].inode = None
      BY <2>2, <2>10 DEF Tidy, FilesAreKept, Kept, BeingClosed
    <3>3. \A g \in Handle : hd[g].inode # None =>
            g # h /\ hd'[g] = hd[g] /\ (~hd[g].released => Kept(g)')
              /\ (hd[g].released => BeingClosed(g)')
      BY <2>4, <2>8, <2>10, <3>1, <3>2, KeptIsReferred DEF FilesAreKept, Tidy
    <3>4. FilesAreKept'
      BY <2>7, <2>8, <3>3, BlankIsFree DEF FilesAreKept
    <3>5. NameIsKept'
      BY <2>3, <2>10, <3>3 DEF NameIsKept, Tidy, Unlinking
    <3> QED
      BY <3>4, <3>5
  <2> QED
    BY <2>3, <2>9, <2>10 DEF Tidy
<1>6. ASSUME NEW t \in Thread, Open(t) PROVE Tidy'
  <2>1. PICK h \in Unused, i \in Inode :
          /\ cur' = [cur EXCEPT ![t] = h] /\ link' = i
          /\ hd' = [hd EXCEPT ![h] = [Blank EXCEPT !.inode = i, !.mode = mode[t]]]
    BY <1>6 DEF Open
  <2>2. h \in Handle /\ ~Stored(h) /\ (\A u \in Thread : cur[u] # h) /\ i # None
    BY PickedIsFree
  <2>3. /\ hd'[h].inode = i /\ ~hd'[h].released /\ ~hd'[h].reused
        /\ \A g \in Handle \ {h} : hd'[g] = hd[g]
    BY <2>1, <2>2, <1>type DEF Blank
  <2>4. /\ UNCHANGED <<registry, entries, crashes>> /\ pc[t] = "open" /\ pc'[t] = "flock"
        /\ \A u \in Thread \ {t} : pc'[u] = pc[u] /\ cur'[u] = cur[u]
        /\ cur'[t] = h
    BY <1>6, <2>1 DEF Open, Typed, TypeOK
  <2>5. \A g \in Handle : (Kept(g) => Kept(g)') /\ (BeingClosed(g) => BeingClosed(g)')
    BY <2>4 DEF Kept, BeingClosed, Stored, Keeping
  <2>6. Kept(h)'
    BY <2>4 DEF Kept, Keeping
  <2>7. crashes = 0 => FilesAreKept' /\ NameIsKept'
    BY <2>2, <2>3, <2>5, <2>6 DEF Tidy, FilesAreKept, NameIsKept
  <2> QED
    BY <2>2, <2>3, <2>4, <2>7 DEF Tidy, ReusedHasNoFile
<1>7. ASSUME NEW t \in Thread, Flock(t) PROVE Tidy'
  <2>1. cur[t] \in Handle /\ pc[t] = "flock"
    BY <1>7, AtHandle DEF Flock, WithHandle, Steps
  <2>2. \A g \in Handle : hd'[g].inode = hd[g].inode /\ hd'[g].released = hd[g].released
                           /\ hd'[g].reused = hd[g].reused
    BY <1>7, <1>type DEF Flock, Handles
  <2>3. UNCHANGED <<link, registry, entries, cur, crashes>> /\ pc'[t] = "lease"
        /\ \A u \in Thread \ {t} : pc'[u] = pc[u]
    BY <1>7 DEF Flock, Typed, TypeOK
  <2>4. \A g \in Handle : (Kept(g) => Kept(g)') /\ (BeingClosed(g) => BeingClosed(g)')
    BY <2>1, <2>3 DEF Kept, BeingClosed, Stored, Keeping
  <2>5. \A u \in Thread : pc[u] \in Unlinking => pc'[u] \in Unlinking
    BY <2>1, <2>3 DEF Unlinking
  <2> QED
    BY <2>2, <2>3, <2>4, <2>5 DEF Tidy, ReusedHasNoFile, FilesAreKept, NameIsKept
<1>8. ASSUME NEW t \in Thread, ErrorClose(t) PROVE Tidy'
  <2>1. PICK h \in Handle : h = cur[t]
    BY <1>8, AtHandle DEF ErrorClose, WithHandle, Steps
  <2>2. hd' = Closed(h) /\ UNCHANGED <<link, registry, entries, cur, crashes>>
        /\ pc[t] = "errClose" /\ pc'[t] = "errUnlink" /\ \A u \in Thread \ {t} : pc'[u] = pc[u]
    BY <1>8, <2>1 DEF ErrorClose, Closed, Typed, TypeOK
  <2>3. hd'[h].inode = None /\ \A g \in Handle \ {h} : hd'[g] = hd[g]
    BY <2>2, ClosedIs
  <2>4. \A g \in Handle \ {h} : (Kept(g) => Kept(g)') /\ (BeingClosed(g) => BeingClosed(g)')
    BY <2>1, <2>2 DEF Kept, BeingClosed, Stored
  <2>5. crashes = 0 => FilesAreKept' /\ NameIsKept'
    BY <2>2, <2>3, <2>4 DEF Tidy, FilesAreKept, NameIsKept, Unlinking
  <2> QED
    BY <2>2, <2>3, <2>5 DEF Tidy, ReusedHasNoFile
<1>9. ASSUME NEW t \in Thread, SetReleased(t) \/ Unlock(t) PROVE Tidy'
  <2>1. PICK h \in Handle : h = cur[t]
    BY <1>9, AtHandle DEF SetReleased, Unlock, WithHandle, Steps
  <2>2. /\ UNCHANGED <<link, registry, entries, crashes>>
        /\ \A u \in Thread \ {t} : pc'[u] = pc[u] /\ cur'[u] = cur[u]
        /\ pc[t] \in {"flag", "unlock"}
    BY <1>9, FinishedIs DEF SetReleased, Unlock, Typed, TypeOK
  <2>3. \A g \in Handle \ {h} :
           /\ hd'[g] = hd[g] \/ (hd'[g] = Blank /\ ~Refers(g)')
           /\ (Kept(g) => Kept(g)') /\ (BeingClosed(g) => BeingClosed(g)')
    <3>1. \A g \in Handle \ {h} : hd'[g] = hd[g] \/ (hd'[g] = Blank /\ ~Refers(g)')
      <4>1. CASE SetReleased(t)
        <5>1. hd' = Flagged(h) \/ hd' = Collected(Flagged(h))
          BY <2>1, <4>1 DEF SetReleased, Flagged
        <5> QED
          BY <5>1, FlaggedIs, CollectedIs
      <4>2. CASE Unlock(t)
        <5>1. hd' = Closed(h) \/ hd' = Collected(Closed(h))
          BY <2>1, <4>2 DEF Unlock, Closed
        <5> QED
          BY <5>1, ClosedIs, CollectedIs
      <4> QED
        BY <1>9, <4>1, <4>2
    <3>2. \A g \in Handle \ {h} : (Kept(g) => Kept(g)') /\ (BeingClosed(g) => BeingClosed(g)')
      BY <2>1, <2>2 DEF Kept, BeingClosed, Stored
    <3> QED
      BY <3>1, <3>2
  <2>4. /\ hd'[h].reused => hd'[h].inode = None
        /\ hd'[h].inode # None => hd'[h].released /\ BeingClosed(h)' /\ hd[h].inode # None
        /\ hd[h].inode # None => hd'[h].inode # None \/ pc'[t] \in Unlinking
    <3>1. CASE SetReleased(t)
      <4>1. /\ Flagged(h)[h].inode = hd[h].inode /\ Flagged(h)[h].reused = hd[h].reused
            /\ Flagged(h)[h].released
        BY FlaggedIs
      <4>2. CASE hd[h].reused
        <5>1. hd' = Collected(Flagged(h)) /\ hd[h].inode = None
          BY <2>1, <3>1, <4>2 DEF SetReleased, Flagged, Tidy, ReusedHasNoFile
        <5>2. hd'[h] = Flagged(h)[h] \/ hd'[h] = Blank
          BY <5>1, FlaggedIs, CollectedIs
        <5> QED
          BY <4>1, <5>1, <5>2, BlankIsFree
      <4>3. CASE ~hd[h].reused
        <5>1. hd' = Flagged(h) /\ pc'[t] = "unlock" /\ cur'[t] = h
          BY <2>1, <3>1, <4>3 DEF SetReleased, Flagged, Typed, TypeOK
        <5> QED
          BY <4>1, <4>3, <5>1 DEF BeingClosed
      <4> QED
        BY <4>2, <4>3
    <3>2. CASE Unlock(t)
      <4>1. (hd' = Closed(h) /\ pc'[t] = "unlink") \/ (hd' = Collected(Closed(h)) /\ hd[h].inode = None)
        BY <2>1, <3>2 DEF Unlock, Closed, Typed, TypeOK
      <4>2. hd'[h] = Closed(h)[h] \/ hd'[h] = Blank
        BY <4>1, ClosedIs, CollectedIs
      <4>3. hd'[h].inode = None
        BY <4>2, ClosedIs, BlankIsFree
      <4> QED
        BY <4>1, <4>3 DEF Unlinking
    <3> QED
      BY <1>9, <3>1, <3>2
  <2>5. ReusedHasNoFile'
    BY <2>3, <2>4, BlankIsFree DEF Tidy, ReusedHasNoFile
  <2>6. ASSUME crashes = 0 PROVE FilesAreKept' /\ NameIsKept'
    <3>1. \A g \in Handle \ {h} : hd[g].inode # None =>
            hd'[g] = hd[g] /\ (~hd[g].released => Kept(g)') /\ (hd[g].released => BeingClosed(g)')
      BY <2>3, <2>6, KeptIsReferred DEF Tidy, FilesAreKept
    <3>2. FilesAreKept'
      BY <2>3, <2>4, <3>1, BlankIsFree DEF FilesAreKept
    <3>3. \A u \in Thread : pc[u] \in Unlinking => pc'[u] \in Unlinking
      BY <2>2 DEF Unlinking
    <3>4. NameIsKept'
      BY <2>2, <2>4, <2>6, <3>1, <3>3 DEF NameIsKept, Tidy
    <3> QED
      BY <3>2, <3>4
  <2> QED
    BY <2>2, <2>5, <2>6 DEF Tidy
<1>10. ASSUME NEW p \in Process, Crash(p) PROVE Tidy'
  <2>1. crashes' # 0 /\ hd' = Collected(hd)
    BY <1>10 DEF Crash, Typed, TypeOK
  <2> QED
    BY <2>1, <1>type, BlankIsFree DEF Tidy, ReusedHasNoFile
<1>11. CASE UNCHANGED vars
  <2>1. \A h : (Kept(h)' <=> Kept(h)) /\ (BeingClosed(h)' <=> BeingClosed(h))
    BY <1>11 DEF vars, Kept, BeingClosed, Stored
  <2> QED
    BY <1>11, <2>1 DEF vars, Tidy, ReusedHasNoFile, FilesAreKept, NameIsKept
<1> QED
  BY <1>1, <1>2, <1>3, <1>4, <1>5, <1>6, <1>7, <1>8, <1>9, <1>10, <1>11
  DEF Next, Acquiring, Releasing, HandedOut

(* The races over the name leave no sidecar behind; a crash may.           *)
THEOREM SidecarGoes == Spec => []NoSidecarLeftBehind
<1>1. Init => Guarded
  BY DEF Init, Guarded, Inside, Waiting
<1>2. Init => Tidy
  BY BlankIsFree DEF Init, Tidy, ReusedHasNoFile, FilesAreKept, NameIsKept
<1>3. Tidy => NoSidecarLeftBehind
  BY DEF Tidy, NameIsKept, NoSidecarLeftBehind, Unlinking
<1> QED
  BY <1>1, <1>2, <1>3, Inductive, GuardedStep, TidyStep, PTL DEF Spec
=============================================================================
