------------------------ MODULE ProjectRenameProofs ------------------------
(* What holds of a rename, of the readers and of the watcher beside it for *)
(* any number of names and commands.                                       *)
EXTENDS ProjectRename, TLAPS

(* A rename that has moved the directory finds it where it has put it when *)
(* it writes the row, unless the directory is deleted or a lock forced     *)
(* meanwhile: the root that the row gets from a rename is never the one    *)
(* another rename has moved the directory away from.                       *)
MoveDone(c) == pc[c] = "update" => disk \in {new[c], None}
RenameWritesItsOwnMove == ~forced => \A c \in Call : MoveDone(c)

(* What it has written is right when it lets go of the lock, as long as no *)
(* late root has been written over it.                                     *)
UpdateDone(c) == pc[c] = "release" => ~RowIsStale
WorkDone ==
  RenameWritesItsOwnMove /\ (~forced /\ ~late => \A c \in Call : UpdateDone(c))

Safe == TypeOK /\ OneRenameInside /\ WorkDone /\ HalfDoneStaysLocked
-----------------------------------------------------------------------------
(* The types are right at first. *)
LEMMA TypedInit == Init => TypeOK
<1> SUFFICES ASSUME Init PROVE TypeOK
  OBVIOUS
<1> USE HomeIsRoot, NoneIsNew DEF Init, TypeOK, Content, Before, Inside, Reads
<1>1. pc \in [Call -> Before \cup Inside]
  OBVIOUS
<1>2. QED
  BY <1>1

(* The steps of the rename command and of the readers keep the types. *)
LEMMA TypedRename ==
  ASSUME TypeOK, NEW c \in Call, Begin(c) \/ Rename(c) \/ StatementFails(c)
  PROVE  TypeOK'
<1> USE NoneIsNew, BoundsAreNat
    DEF TypeOK, Before, Inside, Goto, Return, tables, scan, counts, history, Fault,
        Written, Relocated, Resynced
<1>1. CASE Begin(c)
  BY <1>1 DEF Begin
<1>2. CASE Resolve(c)
  BY <1>2 DEF Resolve
<1>3. CASE Check(c)
  BY <1>3 DEF Check
<1>4. CASE Look(c)
  BY <1>4 DEF Look
<1>5. CASE Resync(c)
  BY <1>5 DEF Resync
<1>6. CASE Acquire(c)
  BY <1>6 DEF Acquire
<1>7. CASE TargetExists(c)
  BY <1>7 DEF TargetExists
<1>8. CASE TargetIsFree(c)
  BY <1>8 DEF TargetIsFree
<1>9. CASE Move(c)
  BY <1>9 DEF Move
<1>10. CASE Update(c)
  BY <1>10 DEF Update
<1>11. CASE Release(c)
  BY <1>11 DEF Release
<1>12. CASE StatementFails(c)
  BY <1>12 DEF StatementFails
<1>13. QED
  BY <1>1, <1>2, <1>3, <1>4, <1>5, <1>6, <1>7, <1>8, <1>9, <1>10, <1>11, <1>12 DEF Rename

(* A death, an unlock, a removed directory and a reader keep the types. *)
LEMMA TypedMishap ==
  ASSUME TypeOK, ServerDies \/ EmergencyUnlock \/ DirectoryRemoved \/ ReaderFinds \/ ReaderResyncs
  PROVE  TypeOK'
<1> USE NoneIsNew, BoundsAreNat
    DEF TypeOK, Before, Inside, tables, calls, scan, counts, history, Fault, Written, Resynced
<1>1. CASE ServerDies
  BY <1>1 DEF ServerDies
<1>2. CASE EmergencyUnlock
  BY <1>2 DEF EmergencyUnlock
<1>3. CASE DirectoryRemoved
  BY <1>3 DEF DirectoryRemoved
<1>4. CASE ReaderFinds
  BY <1>4 DEF ReaderFinds
<1>5. CASE ReaderResyncs
  BY <1>5 DEF ReaderResyncs
<1>6. QED
  BY <1>1, <1>2, <1>3, <1>4, <1>5

(* What is found of some contents is a content. *)
LEMMA RemainsIsContent ==
  ASSUME NEW dir, NEW c \in Content, NEW m \in Remains(dir, c)
  PROVE  m \in Content
  BY DEF Remains, PartsOf, Content

(* The variables of the watcher alone *)
WatcherTyped ==
  /\ phase \in {"startup", "init", "scan"}
  /\ wpc \in Reads \cup
       {"idle", "discover", "orphan", "mark", "locked", "gate", "acquire", "relocate", "insert",
        "list", "visit", "walk", "supplement", "exists", "purge"}
  /\ listed \in Root \cup {None} /\ found \in Root \cup {None} /\ seen \in Root \cup {None}
  /\ met \in {"unknown", "skipped", "known"}

(* A root that has been read sends the watcher to one of its steps. *)
LEMMA ProceedTyped ==
  ASSUME TypeOK, NEW root \in Root \cup {None}, Proceed(root)
  PROVE  WatcherTyped'
<1> USE DEF TypeOK, WatcherTyped, StartPhase, Then, At, Reads
<1>1. CASE At("root") /\ root = None /\ StartPhase("init")
  BY <1>1
<1>2. CASE At("get") /\ root = found /\ Done
  BY <1>2 DEF Done
<1>3. QED
  BY <1>1, <1>2 DEF Proceed

(* The steps of the watcher keep the types. *)
LEMMA TypedWatch ==
  ASSUME TypeOK, Watch \/ WatchStatementFails \/ WatcherDies
  PROVE  TypeOK'
<1> USE NoneIsNew, BoundsAreNat
    DEF At, Then, tables, calls, counts, history, Fault, Written, Relocated, Resynced
<1>1. CASE ListForDiscovery
  BY <1>1 DEF ListForDiscovery, TypeOK
<1>2. CASE Discover
  BY <1>2 DEF Discover, AfterDiscovery, TypeOK, Reads
<1>3. CASE PurgeOrphan
  BY <1>3 DEF PurgeOrphan, StartPhase, TypeOK, Content
<1>4. CASE MarkMissing
  <2>1. files' \in Content
    BY <1>4, RemainsIsContent DEF MarkMissing, TypeOK
  <2>2. QED
    BY <1>4, <2>1 DEF MarkMissing, StartPhase, TypeOK
<1>5. CASE ReadRow \/ ReadInVain
  <2>1. PICK root \in Root \cup {None} : Proceed(root)
    BY <1>5 DEF ReadRow, ReadInVain, TypeOK
  <2>2. WatcherTyped'
    BY <2>1, ProceedTyped
  <2>3. QED
    BY <1>5, <2>2 DEF ReadRow, ReadInVain, TypeOK, WatcherTyped
<1>6. CASE Search
  BY <1>6 DEF Search, TypeOK
<1>7. CASE ResyncRow
  <2>1. WatcherTyped'
    BY <1>7, ProceedTyped DEF ResyncRow, TypeOK
  <2>2. QED
    BY <1>7, <2>1 DEF ResyncRow, TypeOK, WatcherTyped
<1>8. CASE Locked
  BY <1>8 DEF Locked, Done, StartPhase, TypeOK
<1>9. CASE Gate
  BY <1>9 DEF Gate, TypeOK
<1>10. CASE AcquireLease
  BY <1>10 DEF AcquireLease, TypeOK, Reads
<1>11. CASE Relocate
  BY <1>11 DEF Relocate, Done, StartPhase, TypeOK
<1>12. CASE Insert
  BY <1>12 DEF Insert, Done, StartPhase, TypeOK
<1>13. CASE ListForWalk
  BY <1>13 DEF ListForWalk, TypeOK
<1>14. CASE Visit
  BY <1>14 DEF Visit, TypeOK
<1>15. CASE Walk
  <2>1. files' \in Content
    BY <1>15, RemainsIsContent DEF Walk, TypeOK, Content
  <2>2. QED
    BY <1>15, <2>1 DEF Walk, EndCycle, TypeOK
<1>16. CASE Supplement
  BY <1>16 DEF Supplement, EndCycle, TypeOK
<1>17. CASE FilesOfRow
  BY <1>17 DEF FilesOfRow, EndCycle, TypeOK
<1>18. CASE Purge
  BY <1>18 DEF Purge, EndCycle, TypeOK, Content
<1>19. CASE WatchStatementFails
  <2>1. WatcherTyped'
    BY <1>19, ProceedTyped
       DEF WatchStatementFails, Done, StartPhase, TypeOK, WatcherTyped, Reads
  <2>2. QED
    BY <1>19, <2>1 DEF WatchStatementFails, TypeOK, WatcherTyped
<1>20. CASE WatcherDies
  BY <1>20 DEF WatcherDies, TypeOK
<1>21. QED
  BY <1>1, <1>2, <1>3, <1>4, <1>5, <1>6, <1>7, <1>8, <1>9, <1>10, <1>11, <1>12, <1>13, <1>14,
     <1>15, <1>16, <1>17, <1>18, <1>19, <1>20
     DEF Watch, Reconcile, ReadProject, Register, WalkProject

(* The commands, the mishaps, the readers and the watcher are all there is. *)
LEMMA TypedNext == TypeOK /\ [Next]_vars => TypeOK'
<1> SUFFICES ASSUME TypeOK, [Next]_vars PROVE TypeOK'
  OBVIOUS
<1>1. CASE UNCHANGED vars
  BY <1>1 DEF vars, tables, calls, scan, counts, history, TypeOK
<1>2. CASE Next
  BY <1>2, TypedRename, TypedMishap, TypedWatch DEF Next
<1>3. QED
  BY <1>1, <1>2
-----------------------------------------------------------------------------
(* A step that leaves the row of the lock, the steps of the commands and   *)
(* the history alone leaves the exclusion alone.                           *)
LEMMA InsideFrame ==
  ASSUME OneRenameInside, UNCHANGED <<lock, pc, forced>>
  PROVE  OneRenameInside'
  BY DEF OneRenameInside

(* The watcher never touches a lock, a command or the disk. *)
LEMMA WatchFrame ==
  ASSUME Watch \/ WatchStatementFails \/ WatcherDies
  PROVE  UNCHANGED <<lock, calls, disk, forced>>
  BY DEF Watch, Reconcile, ReadProject, Register, WalkProject, ListForDiscovery, Discover,
     PurgeOrphan, MarkMissing, ReadRow, ReadInVain, Search, ResyncRow, Locked, Gate, AcquireLease,
     Relocate, Insert, ListForWalk, Visit, Walk, Supplement, FilesOfRow, Purge,
     WatchStatementFails, WatcherDies, tables, history, Written

(* Exclusion: only a command that finds no row gets inside, and nobody but *)
(* the one inside deletes its row unless it is forced.                     *)
LEMMA InsideNext == TypeOK /\ OneRenameInside /\ [Next]_vars => OneRenameInside'
<1> SUFFICES ASSUME TypeOK, OneRenameInside, [Next]_vars PROVE OneRenameInside'
  OBVIOUS
<1> USE DEF vars, tables, calls, scan, counts, history
<1>1. CASE UNCHANGED vars
  BY <1>1, InsideFrame
<1>2. ASSUME NEW c \in Call, Begin(c) \/ Rename(c) \/ StatementFails(c)
      PROVE  OneRenameInside'
  <2> USE NoneIsNew DEF OneRenameInside, TypeOK, Before, Inside, Goto, Return, Written
  <2>1. CASE Begin(c)
    BY <2>1 DEF Begin
  <2>2. CASE Resolve(c)
    BY <2>2 DEF Resolve
  <2>3. CASE Check(c)
    BY <2>3 DEF Check
  <2>4. CASE Look(c)
    BY <2>4 DEF Look
  <2>5. CASE Resync(c)
    BY <2>5 DEF Resync
  <2>6. CASE Acquire(c)
    BY <2>6 DEF Acquire
  <2>7. CASE TargetExists(c)
    BY <2>7 DEF TargetExists
  <2>8. CASE TargetIsFree(c)
    BY <2>8 DEF TargetIsFree
  <2>9. CASE Move(c)
    BY <2>9 DEF Move
  <2>10. CASE Update(c)
    BY <2>10 DEF Update
  <2>11. CASE Release(c)
    BY <2>11 DEF Release
  <2>12. CASE StatementFails(c)
    BY <2>12 DEF StatementFails
  <2>13. QED
    BY <1>2, <2>1, <2>2, <2>3, <2>4, <2>5, <2>6, <2>7, <2>8, <2>9, <2>10, <2>11, <2>12
       DEF Rename
<1>3. CASE ServerDies
  BY <1>3 DEF ServerDies, OneRenameInside, Inside
<1>4. CASE EmergencyUnlock
  BY <1>4 DEF EmergencyUnlock, OneRenameInside
<1>5. CASE DirectoryRemoved \/ ReaderFinds \/ ReaderResyncs
  BY <1>5, InsideFrame DEF DirectoryRemoved, ReaderFinds, ReaderResyncs, Written
<1>6. CASE Watch \/ WatchStatementFails \/ WatcherDies
  BY <1>6, WatchFrame, InsideFrame
<1>7. QED
  BY <1>1, <1>2, <1>3, <1>4, <1>5, <1>6 DEF Next

(* Renames exclude each other, for any number of them, whatever fails or   *)
(* dies: between its lock and the release a command owns the row.          *)
THEOREM OneInside == Spec => []OneRenameInside
<1>1. Init => OneRenameInside
  BY DEF Init, OneRenameInside, Inside
<1>2. QED
  BY <1>1, TypedInit, TypedNext, InsideNext, PTL DEF Spec
-----------------------------------------------------------------------------
(* Nothing that leaves the directory, the row, the lock and the commands   *)
(* as they are parts the directory from its row.                           *)
LEMMA SafeFrame ==
  ASSUME WorkDone, HalfDoneStaysLocked, UNCHANGED <<disk, row, lock, pc, new>>,
         forced => forced', late => late'
  PROVE  WorkDone' /\ HalfDoneStaysLocked'
  BY DEF WorkDone, RenameWritesItsOwnMove,
     HalfDoneStaysLocked, MoveDone, UpdateDone, RowIsStale

(* A root that is written where the directory is mends the row; written    *)
(* anywhere else it is on record.                                          *)
LEMMA SafeWrite ==
  ASSUME WorkDone, HalfDoneStaysLocked, UNCHANGED <<disk, lock, pc, new>>, Written
  PROVE  WorkDone' /\ HalfDoneStaysLocked'
<1>1. CASE row' = row
  BY <1>1, SafeFrame DEF Written
<1>2. CASE row' # row /\ row' = disk
  BY <1>2 DEF Written, WorkDone, RenameWritesItsOwnMove,
     HalfDoneStaysLocked, MoveDone, UpdateDone, RowIsStale
<1>3. CASE row' \notin {row, disk}
  BY <1>3 DEF Written, WorkDone, RenameWritesItsOwnMove, MoveDone, HalfDoneStaysLocked
<1>4. QED
  BY <1>1, <1>2, <1>3

(* A command that is inside is the only one, so the directory and the row  *)
(* are as it has left them; it lets go of the lock when they agree.        *)
LEMMA SafeRename ==
  ASSUME Safe, NEW c \in Call, Begin(c) \/ Rename(c) \/ StatementFails(c)
  PROVE  WorkDone' /\ HalfDoneStaysLocked'
<1> USE NoneIsNew
    DEF Safe, TypeOK, OneRenameInside, Before, Inside, WorkDone, RenameWritesItsOwnMove,
        MoveDone, UpdateDone, HalfDoneStaysLocked, RowIsStale, Goto, Return, tables, scan, counts,
        history, Relocated
<1>1. CASE Begin(c)
  BY <1>1 DEF Begin
<1>2. CASE Resolve(c)
  BY <1>2 DEF Resolve
<1>3. CASE Check(c)
  BY <1>3 DEF Check
<1>4. CASE Look(c)
  BY <1>4 DEF Look
<1>5. CASE Resync(c)
  <2>1. UNCHANGED <<disk, lock, forced>> /\ late' = (late \/ row' \notin {row, disk})
    BY <1>5 DEF Resync, Written
  <2>2. \A d \in Call :
          pc'[d] \in {"update", "release"} => pc[d] = pc'[d] /\ new'[d] = new[d]
    BY <1>5 DEF Resync
  <2>3. CASE row' = row
    BY <2>1, <2>2, <2>3
  <2>4. CASE row' # row /\ row' = disk
    BY <2>1, <2>2, <2>4
  <2>5. CASE row' \notin {row, disk}
    BY <2>1, <2>2, <2>5
  <2>6. QED
    BY <2>3, <2>4, <2>5
<1>6. CASE Acquire(c)
  BY <1>6 DEF Acquire
<1>7. CASE TargetExists(c)
  BY <1>7 DEF TargetExists
<1>8. CASE TargetIsFree(c)
  BY <1>8 DEF TargetIsFree
<1>9. CASE Move(c)
  BY <1>9 DEF Move
<1>10. CASE Update(c)
  BY <1>10 DEF Update
<1>11. CASE Release(c)
  BY <1>11 DEF Release
<1>12. CASE StatementFails(c)
  BY <1>12 DEF StatementFails
<1>13. QED
  BY <1>1, <1>2, <1>3, <1>4, <1>5, <1>6, <1>7, <1>8, <1>9, <1>10, <1>11, <1>12 DEF Rename

(* The watcher writes a root that it has found, purges the row, or leaves  *)
(* it.                                                                     *)
LEMMA SafeWatch ==
  ASSUME WorkDone, HalfDoneStaysLocked, Watch \/ WatchStatementFails \/ WatcherDies
  PROVE  WorkDone' /\ HalfDoneStaysLocked'
<1>1. UNCHANGED <<disk, lock, pc, new, forced>>
  BY WatchFrame DEF calls
<1>2. CASE ResyncRow \/ Relocate \/ Insert
  BY <1>1, <1>2, SafeWrite DEF ResyncRow, Relocate, Insert
<1>3. CASE PurgeOrphan
  BY <1>1, <1>3
     DEF PurgeOrphan, WorkDone, RenameWritesItsOwnMove,
     HalfDoneStaysLocked, MoveDone, UpdateDone, RowIsStale, history
<1>4. CASE ~(ResyncRow \/ Relocate \/ Insert \/ PurgeOrphan)
  <2>1. UNCHANGED <<row, late>>
    BY <1>4 DEF Watch, Reconcile, ReadProject, Register, WalkProject, ListForDiscovery, Discover,
       MarkMissing, ReadRow, ReadInVain, Search, Locked, Gate, AcquireLease, ListForWalk, Visit,
       Walk, Supplement, FilesOfRow, Purge, WatchStatementFails, WatcherDies, tables, history
  <2>2. QED
    BY <1>1, <2>1, SafeFrame
<1>5. QED
  BY <1>2, <1>3, <1>4

(* Only two steps of the others matter: a forced unlock and a root that is *)
(* written after the move are both on record.                              *)
LEMMA SafeNext == Safe /\ [Next]_vars => Safe'
<1> SUFFICES ASSUME Safe, [Next]_vars PROVE WorkDone' /\ HalfDoneStaysLocked'
  BY TypedNext, InsideNext DEF Safe
<1> USE DEF vars, tables, calls, scan, counts, history
<1>1. CASE UNCHANGED vars
  BY <1>1, SafeFrame DEF Safe
<1>2. CASE \E c \in Call : Begin(c) \/ Rename(c) \/ StatementFails(c)
  BY <1>2, SafeRename
<1>3. CASE ServerDies
  BY <1>3
     DEF ServerDies, Safe, WorkDone, RenameWritesItsOwnMove, MoveDone, UpdateDone,
         HalfDoneStaysLocked, RowIsStale
<1>4. CASE EmergencyUnlock
  BY <1>4 DEF EmergencyUnlock, WorkDone, RenameWritesItsOwnMove, HalfDoneStaysLocked
<1>5. CASE DirectoryRemoved
  BY <1>5
     DEF DirectoryRemoved, Safe, WorkDone, RenameWritesItsOwnMove, MoveDone, UpdateDone,
         HalfDoneStaysLocked, RowIsStale
<1>6. CASE ReaderFinds
  BY <1>6, SafeFrame DEF ReaderFinds, Safe
<1>7. CASE ReaderResyncs
  BY <1>7, SafeWrite DEF ReaderResyncs, Safe
<1>8. CASE Watch \/ WatchStatementFails \/ WatcherDies
  BY <1>8, SafeWatch DEF Safe
<1>9. QED
  BY <1>1, <1>2, <1>3, <1>4, <1>5, <1>6, <1>7, <1>8 DEF Next

(* Until somebody forces an unlock or writes a root that the directory has *)
(* left, the row shows where the directory is or the project is locked:    *)
(* however a rename fails or dies half-way, it does not let go.            *)
THEOREM HalfDone == Spec => []HalfDoneStaysLocked
<1>1. Init => Safe
  BY TypedInit DEF Init, Safe, OneRenameInside, Inside, WorkDone, RenameWritesItsOwnMove,
     MoveDone, UpdateDone, HalfDoneStaysLocked, RowIsStale
<1>2. Safe => HalfDoneStaysLocked
  BY DEF Safe
<1>3. QED
  BY <1>1, <1>2, SafeNext, PTL DEF Spec

(* A rename that has moved the directory finds it there when it writes the *)
(* row, for any number of renames and however late others write.           *)
THEOREM OwnMove == Spec => []RenameWritesItsOwnMove
<1>1. Init => Safe
  BY TypedInit DEF Init, Safe, OneRenameInside, Inside, WorkDone, RenameWritesItsOwnMove,
     MoveDone, UpdateDone, HalfDoneStaysLocked, RowIsStale
<1>2. Safe => RenameWritesItsOwnMove
  BY DEF Safe, WorkDone
<1>3. QED
  BY <1>1, <1>2, SafeNext, PTL DEF Spec
=============================================================================
