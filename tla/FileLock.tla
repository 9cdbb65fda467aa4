------------------------------ MODULE FileLock ------------------------------
(***************************************************************************)
(* core/file_lock.py and core/transfer_lock_registry.py: the sidecar lock  *)
(* of ONE project file.  Every process opens <path>.lock, takes a          *)
(* non-blocking flock on it in a polling loop, and unlinks the sidecar     *)
(* when it is done; a persistent lock stays in a registry of the process   *)
(* between two commands, and a transfer keeps a handle until it ends.      *)
(*                                                                         *)
(* The kernel is external: open() of a name that is not linked makes a new *)
(* inode, flock belongs to the open file, the death of a process closes    *)
(* its files.  A handle no thread and no registry refers to is collected   *)
(* and its file closed (CPython's reference counting).                     *)
(***************************************************************************)
EXTENDS Naturals, FiniteSets

CONSTANTS Process, Thread, Session, Transfer,
          Handle,      \* the handles that can be alive at once
          Inode,       \* the inodes the sidecar can have at once
          None,
          ProcOf,      \* the process of each thread
          Mode,        \* the lock modes in use: "exclusive", "shared"
          Kinds,       \* entry points in use: "plain", "persistent", "unlock"
          MaxCrashes

ASSUME ProcOfIsTotal == ProcOf \in [Thread -> Process]
ASSUME NoneIsNothing == /\ None \notin Thread \cup Session \cup Transfer
                        /\ None \notin Handle \cup Inode
ASSUME ModesAreKnown == Mode \subseteq {"exclusive", "shared"}
ASSUME CrashBound == MaxCrashes \in Nat

VARIABLES
  link,       \* the inode <path>.lock names, or None
  hd,         \* the FileLockHandle objects and their open files
  registry,   \* _persistent_locks of each process, by session
  entries,    \* _entries of transfer_lock_registry of each process
  guard,      \* the thread inside _persistent_guard of each process
  pc, cur,    \* what each thread executes, and the handle it works on
  sess,       \* the session of the persistent call, None for a plain one
  mode,       \* the requested mode
  crashes     \* deaths of a process so far

vars == <<link, hd, registry, entries, guard, pc, cur, sess, mode, crashes>>
thread == <<pc, cur, sess, mode>>

Steps == {"idle", "guard", "lookup", "check", "open", "flock", "lease",
          "errClose", "errUnlink", "got", "hold",
          "release", "flag", "unlock", "unlink"}

(* The steps of a thread that has a lock file or a handle in its hands. *)
WithHandle == Steps \ {"idle", "guard", "lookup", "check", "open"}

(* lock_file of a handle (inode # None: the file is open), whether it has  *)
(* the flock, and the flags of FileLockHandle.__init__.                    *)
Handles == [inode : Inode \cup {None}, locked : BOOLEAN,
            mode : {"exclusive", "shared"}, released : BOOLEAN, reused : BOOLEAN]

Blank == [inode |-> None, locked |-> FALSE, mode |-> "exclusive",
          released |-> FALSE, reused |-> FALSE]

-----------------------------------------------------------------------------
Refers(h) == \/ \E t \in Thread : cur[t] = h
             \/ \E p \in Process, s \in Session : registry[p][s] = h
             \/ \E p \in Process, x \in Transfer : entries[p][x] = h

Unused == {h \in Handle : ~Refers(h)}

(* The handles after a step, the ones nothing refers to any more collected. *)
Collected(handles) ==
  [h \in Handle |-> IF Refers(h)' THEN handles[h] ELSE Blank]

(* flock(2): shared with shared, and nothing else, on one inode. *)
Compatible(h, m) ==
  \A g \in Handle : (hd[g].locked /\ hd[g].inode = hd[h].inode)
                       => m = "shared" /\ hd[g].mode = "shared"

(* _persistent_lock_held_for: any session of this process. *)
HeldHere(p) == \E s \in Session :
  /\ registry[p][s] # None
  /\ ~hd[registry[p][s]].released

GuardFree(t) == guard[ProcOf[t]] \in {None, t}

GuardLeft(t) == [guard EXCEPT ![ProcOf[t]] = IF @ = t THEN None ELSE @]

-----------------------------------------------------------------------------
TypeOK ==
  /\ link \in Inode \cup {None}
  /\ hd \in [Handle -> Handles]
  /\ registry \in [Process -> [Session -> Handle \cup {None}]]
  /\ entries \in [Process -> [Transfer -> Handle \cup {None}]]
  /\ guard \in [Process -> Thread \cup {None}]
  /\ pc \in [Thread -> Steps]
  /\ cur \in [Thread -> Handle \cup {None}]
  /\ \A t \in Thread : cur[t] # None <=> pc[t] \in WithHandle
  /\ sess \in [Thread -> Session \cup {None}]
  /\ mode \in [Thread -> {"exclusive", "shared"}]
  /\ crashes \in 0..MaxCrashes

Init ==
  /\ link = None
  /\ hd = [h \in Handle |-> Blank]
  /\ registry = [p \in Process |-> [s \in Session |-> None]]
  /\ entries = [p \in Process |-> [x \in Transfer |-> None]]
  /\ guard = [p \in Process |-> None]
  /\ pc = [t \in Thread |-> "idle"]
  /\ cur = [t \in Thread |-> None]
  /\ sess = [t \in Thread |-> None]
  /\ mode = [t \in Thread |-> "exclusive"]
  /\ crashes = 0

-----------------------------------------------------------------------------
(* Bound: a call begins only while Handle has a member for it as well as   *)
(* for the calls under way; Inode needs as many members as Handle.         *)
RoomForACall ==
  Cardinality(Unused)
    > Cardinality({u \in Thread : pc[u] \in {"guard", "lookup", "check", "open"}})

Goto(t, step) == pc' = [pc EXCEPT ![t] = step]

(* The call returns or raises: the thread forgets its handle. *)
Finished(t) ==
  /\ pc' = [pc EXCEPT ![t] = "idle"]
  /\ cur' = [cur EXCEPT ![t] = None]
  /\ sess' = [sess EXCEPT ![t] = None]
  /\ mode' = [mode EXCEPT ![t] = "exclusive"]

(* acquire_file_lock, from file_lock or from PersistentFileLock.acquire *)
BeginLock(t, m) ==
  /\ "plain" \in Kinds /\ RoomForACall
  /\ pc[t] = "idle"
  /\ Goto(t, "check")
  /\ mode' = [mode EXCEPT ![t] = m]
  /\ UNCHANGED <<link, hd, registry, entries, guard, cur, sess, crashes>>

(* acquire_persistent_file_lock: key, then with _persistent_guard *)
BeginPersistent(t, s, m) ==
  /\ "persistent" \in Kinds /\ RoomForACall
  /\ pc[t] = "idle"
  /\ Goto(t, "guard")
  /\ sess' = [sess EXCEPT ![t] = s]
  /\ mode' = [mode EXCEPT ![t] = m]
  /\ UNCHANGED <<link, hd, registry, entries, guard, cur, crashes>>

TakeGuard(t) ==
  /\ pc[t] = "guard"
  /\ guard[ProcOf[t]] = None
  /\ guard' = [guard EXCEPT ![ProcOf[t]] = t]
  /\ Goto(t, "lookup")
  /\ UNCHANGED <<link, hd, registry, entries, cur, sess, mode, crashes>>

(* existing and not existing.released: one more lease, the same handle *)
FindExisting(t) ==
  LET h == registry[ProcOf[t]][sess[t]] IN
  /\ pc[t] = "lookup"
  /\ h # None /\ ~hd[h].released
  /\ guard' = GuardLeft(t)
  /\ \/ Goto(t, "got") /\ cur' = [cur EXCEPT ![t] = h] /\ UNCHANGED <<sess, mode>>
     \/ Finished(t)                       \* acquire_file_advisory_lease raises
  /\ UNCHANGED <<link, hd, registry, entries, crashes>>

(* A plausible slip: the wait for the flock is outside the guard. *)
FindNoneAndLeave(t) ==
  LET h == registry[ProcOf[t]][sess[t]] IN
  /\ pc[t] = "lookup"
  /\ h # None => hd[h].released
  /\ Goto(t, "check")
  /\ guard' = GuardLeft(t)
  /\ UNCHANGED <<link, hd, registry, entries, cur, sess, mode, crashes>>

FindNone(t) ==
  LET h == registry[ProcOf[t]][sess[t]] IN
  /\ pc[t] = "lookup"
  /\ h # None => hd[h].released
  /\ Goto(t, "check")
  /\ UNCHANGED <<link, hd, registry, entries, guard, cur, sess, mode, crashes>>

(* What a successful acquire_file_lock leaves: a plain caller holds the    *)
(* handle h; a persistent one stores it and leaves _persistent_guard.      *)
Granted(t, h) ==
  /\ cur' = [cur EXCEPT ![t] = h]
  /\ IF sess[t] = None
     THEN /\ Goto(t, "hold")
          /\ UNCHANGED <<registry, guard>>
     ELSE /\ Goto(t, "got")
          /\ registry' = [registry EXCEPT ![ProcOf[t]][sess[t]] = h]
          /\ guard' = GuardLeft(t)

(* The process already has a persistent lock: no flock, no lease. *)
ReuseOwn(t) ==
  /\ pc[t] = "check"
  /\ GuardFree(t)
  /\ HeldHere(ProcOf[t])
  /\ \E h \in Unused :
       /\ Granted(t, h)
       /\ UNCHANGED entries
       /\ hd' = Collected([hd EXCEPT ![h] = [Blank EXCEPT !.reused = TRUE,
                                                          !.mode = mode[t]]])
  /\ UNCHANGED <<link, sess, mode, crashes>>

NotHeldHere(t) ==
  /\ pc[t] = "check"
  /\ GuardFree(t)
  /\ ~HeldHere(ProcOf[t])
  /\ Goto(t, "open")
  /\ UNCHANGED <<link, hd, registry, entries, guard, cur, sess, mode, crashes>>

(* open(lock_path, "w"): the inode the name has, or a new one *)
Open(t) ==
  /\ pc[t] = "open"
  /\ \E h \in Unused, i \in Inode :
       /\ IF link = None THEN \A g \in Handle : hd[g].inode # i ELSE i = link
       /\ link' = i
       /\ cur' = [cur EXCEPT ![t] = h]
       /\ hd' = [hd EXCEPT ![h] = [Blank EXCEPT !.inode = i, !.mode = mode[t]]]
  /\ Goto(t, "flock")
  /\ UNCHANGED <<registry, entries, guard, sess, mode, crashes>>

Flock(t) ==
  /\ pc[t] = "flock"
  /\ Compatible(cur[t], mode[t])
  /\ hd' = [hd EXCEPT ![cur[t]].locked = TRUE]
  /\ Goto(t, "lease")
  /\ UNCHANGED <<link, registry, entries, guard, cur, sess, mode, crashes>>

(* BlockingIOError and the deadline is over: FileLockTimeoutError *)
Timeout(t) ==
  /\ pc[t] = "flock"
  /\ ~Compatible(cur[t], mode[t])
  /\ Goto(t, "errClose")
  /\ UNCHANGED <<link, hd, registry, entries, guard, cur, sess, mode, crashes>>

(* acquire_file_advisory_lease, for the calls that pass a database *)
LeaseGranted(t) ==
  /\ pc[t] = "lease"
  /\ Granted(t, cur[t])
  /\ UNCHANGED entries
  /\ hd' = Collected(hd)
  /\ UNCHANGED <<link, sess, mode, crashes>>

LeaseFails(t) ==
  /\ pc[t] = "lease"
  /\ sess[t] # None
  /\ Goto(t, "errClose")
  /\ UNCHANGED <<link, hd, registry, entries, guard, cur, sess, mode, crashes>>

(* except Exception: LOCK_UN and close, then unlink the name, then raise *)
ErrorClose(t) ==
  /\ pc[t] = "errClose"
  /\ hd' = [hd EXCEPT ![cur[t]].inode = None, ![cur[t]].locked = FALSE]
  /\ Goto(t, "errUnlink")
  /\ UNCHANGED <<link, registry, entries, guard, cur, sess, mode, crashes>>

(* Two plausible slips in the error path: the guard is not left, the name  *)
(* is not removed.                                                         *)
ErrorUnlinkInGuard(t) ==
  /\ pc[t] = "errUnlink"
  /\ link' = None
  /\ Finished(t)
  /\ UNCHANGED <<registry, entries, guard>>
  /\ hd' = Collected(hd)
  /\ UNCHANGED crashes

ErrorKeepsName(t) ==
  /\ pc[t] = "errUnlink"
  /\ Finished(t)
  /\ guard' = GuardLeft(t)
  /\ UNCHANGED <<registry, entries>>
  /\ hd' = Collected(hd)
  /\ UNCHANGED <<link, crashes>>

ErrorUnlink(t) ==
  /\ pc[t] = "errUnlink"
  /\ link' = None
  /\ Finished(t)
  /\ guard' = GuardLeft(t)
  /\ UNCHANGED <<registry, entries>>
  /\ hd' = Collected(hd)
  /\ UNCHANGED crashes

-----------------------------------------------------------------------------
(* The command that took a persistent lock has its handle: it may leave it *)
(* in the registry for later calls, hand it to a transfer, or release it   *)
(* itself on an error path.                                                *)
KeepInRegistry(t) ==
  /\ pc[t] = "got"
  /\ Finished(t)
  /\ UNCHANGED <<registry, entries>>
  /\ hd' = Collected(hd)
  /\ UNCHANGED <<link, guard, crashes>>

(* register_transfer_lock; the store gives every transfer a new id *)
RegisterTransfer(t, x) ==
  /\ pc[t] = "got"
  /\ \A p \in Process : entries[p][x] = None
  /\ entries' = [entries EXCEPT ![ProcOf[t]][x] = cur[t]]
  /\ Finished(t)
  /\ UNCHANGED <<link, hd, registry, guard, crashes>>

CommandFails(t) ==
  /\ pc[t] = "got"
  /\ Goto(t, "release")
  /\ UNCHANGED <<link, hd, registry, entries, guard, cur, sess, mode, crashes>>

(* file_lock's finally clause *)
LeaveFileLock(t) ==
  /\ pc[t] = "hold"
  /\ Goto(t, "release")
  /\ UNCHANGED <<link, hd, registry, entries, guard, cur, sess, mode, crashes>>

(* release_persistent_file_lock: pop under the guard, release outside it *)
ReleasePersistent(t, s) ==
  LET p == ProcOf[t] IN
  /\ pc[t] = "idle"
  /\ "unlock" \in Kinds
  /\ guard[p] = None
  /\ registry[p][s] # None
  /\ cur' = [cur EXCEPT ![t] = registry[p][s]]
  /\ registry' = [registry EXCEPT ![p][s] = None]
  /\ Goto(t, "release")
  /\ UNCHANGED <<link, hd, entries, guard, sess, mode, crashes>>

(* release_transfer_lock, from the store's hooks: the entry is popped, the *)
(* registry of persistent locks is not touched.                            *)
ReleaseTransfer(t, x) ==
  LET p == ProcOf[t] IN
  /\ pc[t] = "idle"
  /\ entries[p][x] # None
  /\ cur' = [cur EXCEPT ![t] = entries[p][x]]
  /\ entries' = [entries EXCEPT ![p][x] = None]
  /\ Goto(t, "release")
  /\ UNCHANGED <<link, hd, registry, guard, sess, mode, crashes>>

-----------------------------------------------------------------------------
(* FileLockHandle.release: "if self.released: return", then the flag *)
AlreadyReleased(t) ==
  /\ pc[t] = "release"
  /\ hd[cur[t]].released
  /\ Finished(t)
  /\ UNCHANGED <<registry, entries>>
  /\ hd' = Collected(hd)
  /\ UNCHANGED <<link, guard, crashes>>

(* A plausible slip: the flag is forgotten. *)
NotYetReleasedNoFlag(t) ==
  /\ pc[t] = "release"
  /\ ~hd[cur[t]].released
  /\ Goto(t, IF hd[cur[t]].reused THEN "flag" ELSE "unlock")
  /\ UNCHANGED <<link, hd, registry, entries, guard, cur, sess, mode, crashes>>

NotYetReleased(t) ==
  /\ pc[t] = "release"
  /\ ~hd[cur[t]].released
  /\ Goto(t, "flag")
  /\ UNCHANGED <<link, hd, registry, entries, guard, cur, sess, mode, crashes>>

(* A plausible slip: an error of the lease ends release() early. *)
SetReleasedOnly(t) ==
  /\ pc[t] = "flag"
  /\ Finished(t)
  /\ UNCHANGED <<registry, entries>>
  /\ hd' = Collected([hd EXCEPT ![cur[t]].released = TRUE])
  /\ UNCHANGED <<link, guard, crashes>>

(* A reused handle is done here; its own lock goes on to the flock. *)
SetReleased(t) ==
  LET flagged == [hd EXCEPT ![cur[t]].released = TRUE] IN
  /\ pc[t] = "flag"
  /\ IF hd[cur[t]].reused
     THEN /\ Finished(t)
          /\ UNCHANGED <<registry, entries>>
          /\ hd' = Collected(flagged)
     ELSE /\ Goto(t, "unlock")
          /\ UNCHANGED <<registry, entries, cur, sess, mode>>
          /\ hd' = flagged
  /\ UNCHANGED <<link, guard, crashes>>

(* LOCK_UN and close.  On a file another release has closed, fileno()      *)
(* raises ValueError, which "except OSError" does not catch.               *)
Unlock(t) ==
  LET closed == [hd EXCEPT ![cur[t]].inode = None, ![cur[t]].locked = FALSE] IN
  /\ pc[t] = "unlock"
  /\ IF hd[cur[t]].inode = None
     THEN /\ Finished(t)
          /\ UNCHANGED <<registry, entries>>
          /\ hd' = Collected(closed)
     ELSE /\ Goto(t, "unlink")
          /\ UNCHANGED <<registry, entries, cur, sess, mode>>
          /\ hd' = closed
  /\ UNCHANGED <<link, guard, crashes>>

(* lock_path.exists() and unlink(): whatever the name is by now *)
Unlink(t) ==
  /\ pc[t] = "unlink"
  /\ link' = None
  /\ Finished(t)
  /\ UNCHANGED <<registry, entries>>
  /\ hd' = Collected(hd)
  /\ UNCHANGED <<guard, crashes>>

(* A process dies: the kernel closes its files, the sidecar stays. *)
Crash(p) ==
  LET mine == {t \in Thread : ProcOf[t] = p}
      At(f, v) == [t \in Thread |-> IF t \in mine THEN v ELSE f[t]] IN
  /\ crashes < MaxCrashes
  /\ crashes' = crashes + 1
  /\ pc' = At(pc, "idle")
  /\ cur' = At(cur, None)
  /\ sess' = At(sess, None)
  /\ mode' = At(mode, "exclusive")
  /\ guard' = [guard EXCEPT ![p] = None]
  /\ registry' = [registry EXCEPT ![p] = [s \in Session |-> None]]
  /\ entries' = [entries EXCEPT ![p] = [x \in Transfer |-> None]]
  /\ hd' = Collected(hd)
  /\ UNCHANGED link

-----------------------------------------------------------------------------
Acquiring(t) ==
  \/ TakeGuard(t) \/ FindExisting(t) \/ FindNone(t)
  \/ ReuseOwn(t) \/ NotHeldHere(t)
  \/ Open(t) \/ Flock(t) \/ Timeout(t)
  \/ LeaseGranted(t) \/ LeaseFails(t)
  \/ ErrorClose(t) \/ ErrorUnlink(t)

Releasing(t) ==
  \/ AlreadyReleased(t) \/ NotYetReleased(t)
  \/ SetReleased(t) \/ Unlock(t) \/ Unlink(t)

HandedOut(t) ==
  \/ KeepInRegistry(t)
  \/ \E x \in Transfer : RegisterTransfer(t, x)
  \/ CommandFails(t)

Next ==
  \/ \E t \in Thread :
       \/ \E m \in Mode : BeginLock(t, m)
       \/ \E m \in Mode, s \in Session : BeginPersistent(t, s, m)
       \/ Acquiring(t) \/ HandedOut(t) \/ LeaveFileLock(t) \/ Releasing(t)
       \/ \E s \in Session : ReleasePersistent(t, s)
       \/ \E x \in Transfer : ReleaseTransfer(t, x)
  \/ \E p \in Process : Crash(p)

Spec == Init /\ [][Next]_vars

(* A call that has begun goes on: no step of acquire or release waits for  *)
(* ever, since every wait for the flock has a deadline.  What a caller     *)
(* does between its calls is up to it, and so is when the lock is freed.   *)
FairSpec == Spec /\ \A t \in Thread : WF_vars(Acquiring(t))
                                   /\ WF_vars(Releasing(t))
                                   /\ WF_vars(HandedOut(t))

-----------------------------------------------------------------------------
(* The handle h is in somebody's hands as an acquired lock. *)
Owned(h) == \/ \E p \in Process, s \in Session : registry[p][s] = h
            \/ \E p \in Process, x \in Transfer : entries[p][x] = h
            \/ \E t \in Thread : /\ cur[t] = h
                                 /\ pc[t] \in {"got", "hold", "release", "flag"}

(* FileLockHandle.released is the only thing other code looks at: while it *)
(* is FALSE, a handle that took the flock itself still has it, on an inode *)
(* on which no other open file has an incompatible one.                    *)
UnreleasedHandleHasItsFlock ==
  \A h \in Handle :
    (Owned(h) /\ ~hd[h].released /\ ~hd[h].reused)
      => /\ hd[h].locked
         /\ \A g \in Handle \ {h} :
              (hd[g].locked /\ hd[g].inode = hd[h].inode)
                => hd[g].mode = "shared" /\ hd[h].mode = "shared"

(* While a thread of a process waits for a persistent lock, it is inside   *)
(* _persistent_guard: the registry of that process cannot change under it, *)
(* so what it found there is still so when it stores its handle.           *)
LookupStaysTrue ==
  \A t \in Thread :
    (sess[t] # None /\ pc[t] \in {"check", "open", "flock", "lease",
                                   "errClose", "errUnlink"})
      => /\ guard[ProcOf[t]] = t
         /\ LET h == registry[ProcOf[t]][sess[t]] IN h # None => hd[h].released

(* Once no thread is inside a call and no handle is left unreleased, the   *)
(* sidecar is gone: the races over the inode never leave a stale <path>.lock *)
(* behind, only the death of a process does.                               *)
NoSidecarLeftBehind ==
  (/\ \A t \in Thread : pc[t] = "idle"
   /\ \A h \in Handle : hd[h].inode = None
   /\ crashes = 0) => link = None

(* The docstring of file_lock: "Other processes using the same convention  *)
(* will block until the lock is released."                                 *)
MutualExclusion ==
  \A t, u \in Thread :
    (pc[t] = "hold" /\ pc[u] = "hold" /\ ProcOf[t] # ProcOf[u])
      => mode[t] = "shared" /\ mode[u] = "shared"

(* Not an invariant of the code.  "it writes under the held lock"          *)
(* (_persistent_lock_held_for): while the registry makes this process skip *)
(* the flock, one of its handles should really have it.  The persistent    *)
(* handle of a second session is a reused one, with no flock of its own,   *)
(* and outlives the first (README).                                        *)
RegistryBacked ==
  \A p \in Process : HeldHere(p) =>
    \E h \in Handle : /\ hd[h].locked
                      /\ \/ \E s \in Session : registry[p][s] = h
                         \/ \E x \in Transfer : entries[p][x] = h
                         \/ \E t \in Thread : ProcOf[t] = p /\ cur[t] = h

(* project_file_transfer's metadata: "exclusive flock until download       *)
(* completes".  Without an explicit unlock, the handle of a transfer that  *)
(* is still registered has not been released.                              *)
TransferKeepsItsLock ==
  \A p \in Process, x \in Transfer :
    entries[p][x] # None => ~hd[entries[p][x]].released

(* Nobody stays inside _persistent_guard: every file lock of the process   *)
(* goes through it.                                                        *)
GuardIsLeft ==
  \A p \in Process : []<>(guard[p] = None)

(* A handle that is flagged released gives its flock back. *)
ReleaseReachesTheKernel ==
  \A h \in Handle : (hd[h].released /\ hd[h].locked) ~> ~hd[h].locked
=============================================================================
