------------------------- MODULE FilePipelineProofs -------------------------
(* What holds of the pipeline for any number of files, edits and mishaps.  *)
EXTENDS FilePipeline, WellFoundedInduction, FiniteSetTheorems, TLAPS

(* The vectorizer works for a row that is there. *)
JobHasRow == job # None => row[job.file] # None

(* The manifest is made in the turn it belongs to. *)
ManifestIsNew == wpc \in {"idle", "scan", "build"} => man = Nothing

Typed == TypeOK /\ JobHasRow /\ ManifestIsNew

(* What is used up is counted and stays within its bound. *)
LEMMA UseCounts ==
  ASSUME Typed, NEW k \in Counters, Use(k)
  PROVE  /\ used' \in [Counters -> Nat] /\ \A j \in Counters : used'[j] <= Bound[j]
         /\ used'[k] = used[k] + 1
         /\ \A j \in Counters \ {k} : used'[j] = used[j]
<1>1. used[k] < Bound[k] /\ used' = [used EXCEPT ![k] = @ + 1]
  BY DEF Use
<1>2. used \in [Counters -> Nat] /\ \A j \in Counters : used[j] <= Bound[j]
  BY DEF Typed, TypeOK
<1>3. Bound[k] \in Nat /\ used[k] \in Nat
  BY <1>2, BoundType
<1>4. QED
  BY <1>1, <1>2, <1>3

(* A row that is there keeps its type, its checksum and its mtime when the *)
(* flag is written.                                                        *)
LEMMA FlaggedKeeps ==
  ASSUME Typed, NEW f \in File, row[f] # None, NEW flag \in Flag
  PROVE  /\ Flagged(f, flag) \in [File -> Row \cup {None}]
         /\ Flagged(f, flag)[f] \in Row
         /\ Flagged(f, flag)[f].sum = row[f].sum /\ Flagged(f, flag)[f].mtime = row[f].mtime
         /\ Flagged(f, flag)[f].flag = flag
         /\ \A g \in File \ {f} : Flagged(f, flag)[g] = row[g]
  BY DEF Typed, TypeOK, Flagged, Row

(* The types are right at first. *)
LEMMA TypedInit == Init => Typed
<1> SUFFICES ASSUME Init PROVE Typed
  OBVIOUS
<1> USE BoundType, NoneIsNew DEF Init, Typed, TypeOK, JobHasRow, ManifestIsNew, Nothing, Stamp
<1>1. 0 \in Stamp /\ Bound["edits"] \in Nat
  BY DEF Counters
<1>2. disk \in [File -> Stamp] /\ ents \in [File -> Stamp] /\ snap \in [File -> Stamp]
        /\ man \in [File -> Stamp]
  BY <1>1
<1>3. used \in [Counters -> Nat] /\ \A k \in Counters : used[k] <= Bound[k]
  OBVIOUS
<1>4. QED
  BY <1>1, <1>2, <1>3

(* The steps of the users keep the types. *)
LEMMA TypedUser ==
  ASSUME Typed, User
  PROVE  Typed'
<1> USE DEF db, sessions, watcher, indexer
<1>1. ASSUME NEW f \in File, Write(f)
      PROVE  Typed'
  <2>1. used'["edits"] \in Stamp /\ used' \in [Counters -> Nat]
          /\ \A j \in Counters : used'[j] <= Bound[j]
    BY <1>1, UseCounts, BoundType DEF Write, Counters, Stamp
  <2>2. QED
    BY <1>1, <2>1 DEF Write, Typed, TypeOK, JobHasRow, ManifestIsNew
<1>2. ASSUME NEW f \in File, Remove(f)
      PROVE  Typed'
  BY <1>2, BoundType DEF Remove, Typed, TypeOK, JobHasRow, ManifestIsNew, Stamp, Counters
<1>3. ASSUME NEW f \in File, NEW g \in File, Move(f, g)
      PROVE  Typed'
  <2>1. used' \in [Counters -> Nat] /\ \A j \in Counters : used'[j] <= Bound[j]
    BY <1>3, UseCounts DEF Move, Counters
  <2>2. disk' \in [File -> Stamp]
    BY <1>3, BoundType DEF Move, Typed, TypeOK, Stamp, Counters
  <2>3. QED
    BY <1>3, <2>1, <2>2 DEF Move, Typed, TypeOK, JobHasRow, ManifestIsNew
<1>4. ASSUME NEW f \in Editable, LockOrUnlock(f) \/ EditBeginsOrEnds(f)
      PROVE  Typed'
  BY <1>4 DEF LockOrUnlock, EditBeginsOrEnds, Toggle, Typed, TypeOK, JobHasRow, ManifestIsNew
<1>5. QED
  BY <1>1, <1>2, <1>3, <1>4 DEF User

(* The steps of the watcher keep the types. *)
LEMMA TypedWatch ==
  ASSUME Typed, Watch
  PROVE  Typed'
<1> USE DEF db, sessions, watcher, indexer
<1>1. Nothing \in [File -> Stamp] /\ \A f \in File : Nothing[f] = 0
  BY BoundType DEF Nothing, Stamp, Counters
<1>2. \A failed \in BOOLEAN : WatchDone(failed) =>
        /\ wpc' = "idle" /\ snap' = Nothing /\ man' = Nothing /\ lk' = {}
        /\ missed' \in BOOLEAN /\ lease' \in Owner \cup {None}
  BY DEF WatchDone, Released, Typed, TypeOK
<1>3. CASE WatchGate
  BY <1>3 DEF WatchGate, Typed, TypeOK, JobHasRow, ManifestIsNew
<1>4. CASE WatchScan
  <2>1. missed' \in BOOLEAN
    BY <1>4 DEF WatchScan, Typed, TypeOK
  <2>2. snap' \in [File -> Stamp] /\ \A f \in File : man'[f] # 0 => snap'[f] # 0
    BY <1>1, <1>4 DEF WatchScan, Typed, TypeOK, ManifestIsNew
  <2>3. QED
    BY <1>4, <2>1, <2>2 DEF WatchScan, Typed, TypeOK, JobHasRow, ManifestIsNew
<1>5. CASE WatchBuild
  <2>1. used' \in [Counters -> Nat] /\ \A j \in Counters : used'[j] <= Bound[j]
    BY <1>5, UseCounts DEF WatchBuild, Counters, Typed, TypeOK
  <2>2. man' \in [File -> Stamp] /\ \A f \in File : man'[f] # 0 => snap[f] # 0
    BY <1>5, BoundType DEF WatchBuild, Typed, TypeOK, Stamp, Counters
  <2>3. missed' \in BOOLEAN
    BY <1>5 DEF WatchBuild, Typed, TypeOK
  <2>4. QED
    BY <1>5, <2>1, <2>2, <2>3 DEF WatchBuild, Typed, TypeOK, JobHasRow, ManifestIsNew
<1>6. CASE WatchAcquire
  BY <1>6 DEF WatchAcquire, Typed, TypeOK, JobHasRow, ManifestIsNew, Owner
<1>7. CASE WatchRefused
  BY <1>7, <1>1, <1>2 DEF WatchRefused, Typed, TypeOK, JobHasRow, ManifestIsNew
<1>8. CASE WatchSubmit
  <2>1. WatchDone(LeftOut) /\ LeftOut \in BOOLEAN
    BY <1>8 DEF WatchSubmit, LeftOut
  <2>2. \A f \in File : Synced(f) \in Row \cup {None}
                          /\ (Synced(f) = None => f \in Purges \/ row[f] = None)
                          /\ (f \in Purges => Synced(f) = None)
    BY NoneIsNew DEF Synced, Upserts, Updates, Purges, Typed, TypeOK, Row, Flag
  <2>3. row' \in [File -> Row \cup {None}]
    BY <1>8, <2>2 DEF WatchSubmit
  <2>4. ents' \in [File -> Stamp] /\ chunks' \in [File -> SUBSET Stamp]
    BY <1>8, BoundType DEF WatchSubmit, Typed, TypeOK, Stamp, Counters
  <2>5. (\A f \in File : row[f] = None => ents[f] = 0 /\ chunks[f] = {})'
    BY <1>8, <2>2 DEF WatchSubmit, Typed, TypeOK
  <2>6. torn' \in BOOLEAN
    BY <1>8 DEF WatchSubmit, Typed, TypeOK
  <2>7. job' \in Job \cup {None} /\ JobHasRow'
    BY <1>8, <2>2 DEF WatchSubmit, Typed, TypeOK, JobHasRow, ManifestIsNew, Job
  <2>8. QED
    BY <1>8, <1>1, <1>2, <2>1, <2>3, <2>4, <2>5, <2>6, <2>7 DEF WatchSubmit, Typed, TypeOK, ManifestIsNew
<1>9. CASE WatchSubmitFails
  BY <1>9, <1>1, <1>2, UseCounts DEF WatchSubmitFails, Typed, TypeOK, JobHasRow, ManifestIsNew, Counters
<1>10. QED
  BY <1>3, <1>4, <1>5, <1>6, <1>7, <1>8, <1>9 DEF Watch

(* The steps of the indexer keep the types. *)
LEMMA TypedIndex ==
  ASSUME Typed, Index
  PROVE  Typed'
<1> USE DEF db, sessions, watcher
<1> DEFINE Idle == {"idle", "pick"}
<1>1. 0 \in Stamp
  BY BoundType DEF Stamp, Counters
<1>2. CASE IndexStart
  <2>1. lease' \in Owner \cup {None} /\ batch' \subseteq File /\ ipc' = "pick" /\ cur = None
    BY <1>2 DEF IndexStart, Typed, TypeOK, Owner
  <2>2. QED
    BY <1>2, <2>1 DEF IndexStart, Typed, TypeOK, JobHasRow, ManifestIsNew
<1>3. ASSUME NEW f \in File, IndexRead(f)
      PROVE  Typed'
  <2>1. batch' \subseteq File /\ text' \in Stamp /\ torn' \in BOOLEAN
    BY <1>1, <1>3 DEF IndexRead, Pick, Typed, TypeOK
  <2>2. /\ ipc' \in {"idle", "pick", "touch", "sync", "mark", "clear"} /\ cur' \in File \cup {None}
        /\ ipc' \in Idle <=> cur' = None
    BY <1>3, NoneIsNew DEF IndexRead, Pick
  <2>3. QED
    BY <1>3, <2>1, <2>2 DEF IndexRead, Typed, TypeOK, JobHasRow, ManifestIsNew
<1>4. CASE IndexTouch
  <2>1. cur \in File /\ text \in Stamp
    BY <1>4 DEF IndexTouch, Typed, TypeOK
  <2>2. /\ row' \in [File -> Row \cup {None}]
        /\ row'[cur] \in Row
        /\ \A f \in File \ {cur} : row'[f] = row[f]
    BY <1>1, <1>4, <2>1 DEF IndexTouch, Typed, TypeOK, Row, Flag
  <2>3. (\A f \in File : row[f] = None => ents[f] = 0 /\ chunks[f] = {})'
    BY <1>4, <2>1, <2>2, NoneIsNew DEF IndexTouch, Typed, TypeOK
  <2>4. JobHasRow'
    BY <1>4, <2>1, <2>2, NoneIsNew DEF IndexTouch, Typed, TypeOK, JobHasRow, Job
  <2>5. text' \in Stamp /\ torn' \in BOOLEAN
    BY <1>1, <1>4 DEF IndexTouch, Pick, Typed, TypeOK
  <2>6. /\ ipc' \in {"idle", "pick", "touch", "sync", "mark", "clear"} /\ cur' \in File \cup {None}
        /\ ipc' \in Idle <=> cur' = None
    BY <1>4, <2>1, NoneIsNew DEF IndexTouch, Pick
  <2>7. QED
    BY <1>4, <2>2, <2>3, <2>4, <2>5, <2>6 DEF IndexTouch, Typed, TypeOK, ManifestIsNew
<1>5. CASE IndexSync
  <2>1. cur \in File /\ text \in Stamp /\ row[cur] # None
    BY <1>5 DEF IndexSync, Typed, TypeOK
  <2>2. ents' \in [File -> Stamp] /\ \A f \in File : row[f] = None => ents'[f] = 0
    BY <1>5, <2>1 DEF IndexSync, Typed, TypeOK
  <2>3. QED
    BY <1>5, <2>1, <2>2 DEF IndexSync, Typed, TypeOK, JobHasRow, ManifestIsNew
<1>6. CASE IndexSyncFails
  <2>1. used' \in [Counters -> Nat] /\ \A j \in Counters : used'[j] <= Bound[j]
    BY <1>6, UseCounts DEF IndexSyncFails, Counters, Typed, TypeOK
  <2>2. torn' = FALSE /\ text' = 0 /\ cur' = None /\ ipc' = "pick"
    BY <1>6 DEF IndexSyncFails, Pick
  <2>3. QED
    BY <1>1, <1>6, <2>1, <2>2 DEF IndexSyncFails, Typed, TypeOK, JobHasRow, ManifestIsNew
<1>7. CASE IndexMark
  <2>1. cur \in File
    BY <1>7 DEF IndexMark, Typed, TypeOK
  <2>2. CASE row[cur] = None
    BY <1>7, <2>1, <2>2 DEF IndexMark, Typed, TypeOK, JobHasRow, ManifestIsNew
  <2>3. CASE row[cur] # None
    <3>1. /\ row' \in [File -> Row \cup {None}] /\ row'[cur] \in Row
          /\ \A f \in File \ {cur} : row'[f] = row[f]
      BY <1>7, <2>1, <2>3, FlaggedKeeps DEF IndexMark, Flag
    <3>2. chunks' \in [File -> SUBSET Stamp] /\ \A f \in File \ {cur} : chunks'[f] = chunks[f]
      BY <1>7, <2>1, <2>3 DEF IndexMark, Typed, TypeOK
    <3>3. (\A f \in File : row[f] = None => ents[f] = 0 /\ chunks[f] = {})'
      BY <1>7, <2>1, <3>1, <3>2, NoneIsNew DEF IndexMark, Typed, TypeOK
    <3>4. JobHasRow'
      BY <1>7, <2>1, <3>1, NoneIsNew DEF IndexMark, Typed, TypeOK, JobHasRow, Job
    <3>5. QED
      BY <1>7, <2>1, <3>1, <3>2, <3>3, <3>4 DEF IndexMark, Typed, TypeOK, ManifestIsNew
  <2>4. QED
    BY <2>2, <2>3
<1>8. CASE IndexClear
  <2>1. cur \in File
    BY <1>8 DEF IndexClear, Typed, TypeOK
  <2>2. used' \in [Counters -> Nat] /\ \A j \in Counters : used'[j] <= Bound[j]
    BY <1>8, UseCounts DEF IndexClear, Counters, Typed, TypeOK
  <2>3. /\ row' \in [File -> Row \cup {None}]
        /\ \A f \in File : row'[f] = None <=> row[f] = None
    <3>1. CASE row' = row
      BY <3>1 DEF Typed, TypeOK
    <3>2. CASE row[cur] # None /\ row' = Flagged(cur, "indexer")
      BY <2>1, <3>2, FlaggedKeeps, NoneIsNew DEF Flag
    <3>3. QED
      BY <1>8, <3>1, <3>2 DEF IndexClear
  <2>4. torn' = FALSE /\ text' = 0 /\ cur' = None /\ ipc' = "pick"
    BY <1>8 DEF IndexClear, Pick
  <2>5. JobHasRow'
    BY <1>8, <2>3 DEF IndexClear, Typed, TypeOK, JobHasRow, Job
  <2>6. QED
    BY <1>1, <1>8, <2>2, <2>3, <2>4, <2>5 DEF IndexClear, Typed, TypeOK, ManifestIsNew
<1>9. CASE IndexEnd
  <2>1. lease' \in Owner \cup {None} /\ cur = None
    BY <1>9 DEF IndexEnd, Released, Typed, TypeOK
  <2>2. QED
    BY <1>9, <2>1 DEF IndexEnd, Typed, TypeOK, JobHasRow, ManifestIsNew
<1>10. QED
  BY <1>2, <1>3, <1>4, <1>5, <1>6, <1>7, <1>8, <1>9 DEF Index

(* The steps of the vectorizer, expiries and restarts keep the types. *)
LEMMA TypedRest ==
  ASSUME Typed, Chunk \/ Expire \/ Restart
  PROVE  Typed'
<1> USE DEF db, sessions, watcher, indexer
<1>1. ASSUME NEW f \in File, ChunkRead(f)
      PROVE  Typed'
  <2>1. job' \in Job /\ job'.file = f /\ row[f] # None
    BY <1>1 DEF ChunkRead, Pending, Typed, TypeOK, Job
  <2>2. QED
    BY <1>1, <2>1 DEF ChunkRead, Typed, TypeOK, JobHasRow, ManifestIsNew
<1>2. CASE ChunkWrite
  <2>1. job.file \in File /\ job.text \in Stamp /\ row[job.file] # None
    BY <1>2 DEF ChunkWrite, Typed, TypeOK, JobHasRow, Job
  <2>2. /\ row' \in [File -> Row \cup {None}] /\ row'[job.file] \in Row
        /\ \A f \in File \ {job.file} : row'[f] = row[f]
    BY <1>2, <2>1, FlaggedKeeps DEF ChunkWrite, Flag
  <2>3. /\ chunks' \in [File -> SUBSET Stamp]
        /\ \A f \in File \ {job.file} : chunks'[f] = chunks[f]
    BY <1>2, <2>1 DEF ChunkWrite, Typed, TypeOK
  <2>4. (\A f \in File : row[f] = None => ents[f] = 0 /\ chunks[f] = {})'
    BY <1>2, <2>1, <2>2, <2>3, NoneIsNew DEF ChunkWrite, Typed, TypeOK
  <2>5. QED
    BY <1>2, <2>1, <2>2, <2>3, <2>4 DEF ChunkWrite, Typed, TypeOK, JobHasRow, ManifestIsNew
<1>3. CASE Expire
  <2>1. used' \in [Counters -> Nat] /\ \A j \in Counters : used'[j] <= Bound[j]
    BY <1>3, UseCounts DEF Expire, Counters, Typed, TypeOK
  <2>2. QED
    BY <1>3, <2>1 DEF Expire, Typed, TypeOK, JobHasRow, ManifestIsNew
<1>4. CASE Restart
  <2>1. used' \in [Counters -> Nat] /\ \A j \in Counters : used'[j] <= Bound[j]
    BY <1>4, UseCounts DEF Restart, WatcherRestarts, IndexerRestarts, VectorizerRestarts, Counters
  <2>2. Nothing \in [File -> Stamp] /\ 0 \in Stamp /\ \A f \in File : Nothing[f] = 0
    BY BoundType DEF Nothing, Stamp, Counters
  <2>3. \A owner \in Owner : Abandoned(owner) \in Owner \cup {None}
    BY DEF Abandoned, Owner, Typed, TypeOK
  <2>4. CASE WatcherRestarts
    BY <2>1, <2>2, <2>3, <2>4
       DEF WatcherRestarts, Typed, TypeOK, JobHasRow, ManifestIsNew, Owner
  <2>5. CASE IndexerRestarts
    <3>1. torn' = FALSE
      BY <2>5 DEF IndexerRestarts
    <3>2. QED
      BY <2>1, <2>2, <2>3, <2>5, <3>1
         DEF IndexerRestarts, Typed, TypeOK, JobHasRow, ManifestIsNew, Owner
  <2>6. CASE VectorizerRestarts
    BY <2>1, <2>6 DEF VectorizerRestarts, Typed, TypeOK, JobHasRow, ManifestIsNew
  <2>7. QED
    BY <1>4, <2>4, <2>5, <2>6 DEF Restart
<1>5. QED
  BY <1>1, <1>2, <1>3, <1>4 DEF Chunk

(* Users, workers and mishaps are all there is. *)
LEMMA TypedNext == Typed /\ [Next]_vars => Typed'
<1> SUFFICES ASSUME Typed, [Next]_vars PROVE Typed'
  OBVIOUS
<1>1. CASE UNCHANGED vars
  BY <1>1 DEF vars, db, sessions, watcher, indexer, Typed, TypeOK, JobHasRow, ManifestIsNew
<1>2. CASE Next
  BY <1>2, TypedUser, TypedWatch, TypedIndex, TypedRest DEF Next
<1>3. QED
  BY <1>1, <1>2

(* No step of a worker meets a row, a file or a text that is not there,    *)
(* and what belongs to a file goes with its row.                           *)
THEOREM TypeCorrect == Spec => []TypeOK
<1>1. Typed => TypeOK
  BY DEF Typed
<1>2. QED
  BY <1>1, TypedInit, TypedNext, PTL DEF Spec
-----------------------------------------------------------------------------
(* Nobody gives back what is used up. *)
LEMMA UsedGrows ==
  ASSUME Typed, [Next]_vars
  PROVE  \A k \in Counters : used[k] \in Nat /\ used'[k] \in Nat /\ used'[k] >= used[k]
<1>1. used' = used \/ \E k \in Counters : Use(k)
  <2>1. CASE UNCHANGED vars
    BY <2>1 DEF vars
  <2>2. CASE User
    BY <2>2 DEF User, Write, Remove, Move, LockOrUnlock, EditBeginsOrEnds, Counters
  <2>3. CASE Watch
    BY <2>3 DEF Watch, WatchGate, WatchScan, WatchBuild, WatchAcquire, WatchRefused,
         WatchSubmit, WatchSubmitFails, Counters
  <2>4. CASE Index
    BY <2>4 DEF Index, IndexStart, IndexRead, IndexTouch, IndexSync, IndexSyncFails, IndexMark,
         IndexClear, IndexEnd, Counters
  <2>5. CASE Chunk \/ Expire \/ Restart
    BY <2>5 DEF Chunk, ChunkRead, ChunkWrite, Expire, Restart, WatcherRestarts,
         IndexerRestarts, VectorizerRestarts, Counters
  <2>6. QED
    BY <2>1, <2>2, <2>3, <2>4, <2>5 DEF Next
<1>2. used \in [Counters -> Nat]
  BY DEF Typed, TypeOK
<1>3. QED
  BY <1>1, <1>2, UseCounts

(* No stamp is newer than the last edit. *)
Past ==
  \A f \in File :
    /\ disk[f] <= used["edits"] /\ snap[f] <= used["edits"] /\ man[f] <= used["edits"]
    /\ row[f] # None => row[f].sum <= used["edits"]

(* The indexer and the vectorizer set no checksum, but the 0 of a new row. *)
SumsStay == \A f \in File : row'[f] # None =>
               (row[f] # None /\ row'[f].sum = row[f].sum) \/ row'[f].sum = 0

(* None of the statements of Index and Chunk writes another checksum. *)
LEMMA WorkersKeepSums ==
  ASSUME Typed, Index \/ Chunk
  PROVE  SumsStay
<1> USE DEF SumsStay, db
<1>1. CASE UNCHANGED row
  BY <1>1
<1>2. CASE IndexTouch
  <2>1. cur \in File /\ row \in [File -> Row \cup {None}]
    BY <1>2 DEF IndexTouch, Typed, TypeOK
  <2>2. QED
    BY <1>2, <2>1 DEF IndexTouch, Row
<1>3. CASE IndexMark \/ IndexClear
  <2>1. cur \in File
    BY <1>3 DEF IndexMark, IndexClear, Typed, TypeOK
  <2>2. UNCHANGED row \/ (row[cur] # None /\ \E flag \in Flag : row' = Flagged(cur, flag))
    BY <1>3 DEF IndexMark, IndexClear, Flag
  <2>3. QED
    BY <2>1, <2>2, FlaggedKeeps
<1>4. CASE ChunkWrite
  BY <1>4, FlaggedKeeps DEF ChunkWrite, Typed, TypeOK, JobHasRow, Job, Flag
<1>5. QED
  BY <1>1, <1>2, <1>3, <1>4
     DEF Index, Chunk, IndexStart, IndexRead, IndexSync, IndexSyncFails, IndexEnd, ChunkRead

(* What the sync does to a row. *)
LEMMA SyncedRow ==
  ASSUME Typed, WatchSubmit, NEW f \in File
  PROVE  /\ row'[f] = None \/ row'[f] = row[f]
              \/ /\ man[f] # 0 /\ row'[f] = [sum |-> man[f], mtime |-> snap[f], flag |-> "pending"]
         /\ man = Nothing => row'[f] \in {None, row[f]}
  BY DEF WatchSubmit, Synced, Upserts, Updates, Purges, Nothing

(* A stamp is only ever copied, and an edit takes one above all of them. *)
LEMMA PastNext == Typed /\ Past /\ [Next]_vars => Past'
<1> SUFFICES ASSUME Typed, Past, [Next]_vars PROVE Past'
  OBVIOUS
<1> DEFINE edits == used["edits"]
<1>1. edits \in Nat /\ edits' \in Nat /\ edits' >= edits
  BY UsedGrows DEF Counters
<1>2. /\ disk \in [File -> Nat] /\ snap \in [File -> Nat] /\ man \in [File -> Nat]
      /\ \A f \in File : row[f] # None => row[f].sum \in Nat
  BY BoundType DEF Typed, TypeOK, Stamp, Row, Counters
<1>3. ASSUME UNCHANGED <<snap, man>>, SumsStay \/ UNCHANGED row,
             \A f \in File : disk'[f] \in Nat /\ disk'[f] <= edits'
      PROVE  Past'
  BY <1>1, <1>2, <1>3 DEF Past, SumsStay
<1>4. \A f \in File : disk[f] \in Nat /\ disk[f] <= edits'
  BY <1>1, <1>2 DEF Past
<1>5. CASE UNCHANGED vars
  BY <1>3, <1>4, <1>5 DEF vars, db, watcher
<1>6. CASE User
  <2>1. ASSUME NEW f \in File, Write(f)
        PROVE  Past'
    <3>1. disk' = [disk EXCEPT ![f] = edits']
      BY <2>1 DEF Write
    <3>2. QED
      BY <1>1, <1>2, <1>3, <1>4, <2>1, <3>1 DEF Write, watcher, db
  <2>2. ASSUME NEW f \in File, Remove(f)
        PROVE  Past'
    BY <1>1, <1>2, <1>3, <1>4, <2>2 DEF Remove, watcher, db
  <2>3. ASSUME NEW f \in File, NEW g \in File, Move(f, g)
        PROVE  Past'
    BY <1>1, <1>2, <1>3, <1>4, <2>3 DEF Move, db
  <2>4. ASSUME NEW f \in Editable, LockOrUnlock(f) \/ EditBeginsOrEnds(f)
        PROVE  Past'
    BY <1>3, <1>4, <2>4 DEF LockOrUnlock, EditBeginsOrEnds, watcher, db
  <2>5. QED
    BY <1>6, <2>1, <2>2, <2>3, <2>4 DEF User
<1>7. CASE Watch
  <2>1. UNCHANGED disk /\ \A f \in File : Nothing[f] = 0
    BY <1>7 DEF Watch, WatchGate, WatchScan, WatchBuild, WatchAcquire, WatchRefused,
         WatchSubmit, WatchSubmitFails, Nothing
  <2>2. \A f \in File : snap'[f] \in {snap[f], disk[f], 0} /\ man'[f] \in {man[f], disk[f], 0}
    BY <1>7, <2>1 DEF Watch, WatchGate, WatchScan, WatchBuild, WatchAcquire, WatchRefused,
         WatchSubmit, WatchSubmitFails, WatchDone
  <2>3. \A f \in File : row'[f] # None => row'[f].sum <= edits'
    <3>1. CASE WatchSubmit
      <4>1. ASSUME NEW f \in File, row'[f] # None
            PROVE  row'[f].sum <= edits'
        <5>1. row'[f] = row[f] \/ row'[f] = [sum |-> man[f], mtime |-> snap[f], flag |-> "pending"]
          BY <3>1, <4>1, SyncedRow
        <5>2. row'[f] = row[f] \/ row'[f].sum = man[f]
          BY <5>1
        <5>3. QED
          BY <1>1, <1>2, <4>1, <5>2 DEF Past
      <4>2. QED
        BY <4>1
    <3>2. CASE UNCHANGED row
      BY <1>1, <1>2, <3>2 DEF Past
    <3>3. QED
      BY <1>7, <3>1, <3>2 DEF Watch, WatchGate, WatchScan, WatchBuild, WatchAcquire,
         WatchRefused, WatchSubmitFails, db
  <2>4. QED
    BY <1>1, <1>2, <2>1, <2>2, <2>3 DEF Past
<1>8. CASE Index \/ Chunk
  <2>1. UNCHANGED <<disk, watcher>>
    BY <1>8 DEF Index, IndexStart, IndexRead, IndexTouch, IndexSync, IndexSyncFails, IndexMark,
         IndexClear, IndexEnd, Chunk, ChunkRead, ChunkWrite
  <2>2. QED
    BY <1>3, <1>4, <1>8, <2>1, WorkersKeepSums DEF watcher
<1>9. CASE Expire \/ Restart
  <2>1. UNCHANGED <<disk, row>>
    BY <1>9 DEF Expire, Restart, WatcherRestarts, IndexerRestarts, VectorizerRestarts, db
  <2>2. \A f \in File : snap'[f] \in {snap[f], 0} /\ man'[f] \in {man[f], 0}
    BY <1>9 DEF Expire, Restart, WatcherRestarts, IndexerRestarts, VectorizerRestarts, watcher, Nothing
  <2>3. QED
    BY <1>1, <1>2, <2>1, <2>2 DEF Past
<1>10. QED
  BY <1>5, <1>6, <1>7, <1>8, <1>9 DEF Next
-----------------------------------------------------------------------------
(* As long as no lease has run out under its owner and no file was moved,  *)
(* the lease tells the watcher's sync from the indexer's turn, ...         *)
Calm == used["expiries"] = 0 /\ used["moves"] = 0

LeasesHeld ==
  Calm => /\ ipc # "idle" => lease = "indexer"
          /\ wpc = "submit" /\ man # Nothing => lease = "watcher"

(* ... a file is never older than what was seen of it, ...                 *)
Growing ==
  Calm => \A f \in File : disk[f] # 0 =>
            disk[f] >= man[f] /\ (row[f] # None => disk[f] >= row[f].sum)

(* ... and neither is the text the indexer has in its hands, which it has  *)
(* written when it comes to clear the flag.                                *)
Reading ==
  Calm => (ipc \in {"touch", "sync", "mark", "clear"} /\ row[cur] # None => text >= row[cur].sum)

Written ==
  Calm => (ipc \in {"mark", "clear"} /\ row[cur] # None => ents[cur] = text)

(* Expiries and moves are counted: where none has happened, none happens. *)
LEMMA CalmBefore ==
  ASSUME Typed, [Next]_vars, Calm'
  PROVE  /\ Calm
         /\ ~Use("expiries") /\ ~Use("moves")
<1>1. \A k \in {"expiries", "moves"} : used[k] \in Nat /\ used'[k] >= used[k] /\ used'[k] = 0
  BY UsedGrows DEF Calm, Counters
<1>2. Calm
  BY <1>1 DEF Calm
<1>3. \A k \in {"expiries", "moves"} : Use(k) => used'[k] = used[k] + 1
  BY UseCounts DEF Counters
<1>4. QED
  BY <1>1, <1>2, <1>3

(* A worker lets its lease go only at the end of its turn. *)
LEMMA LeasesNext == Typed /\ LeasesHeld /\ [Next]_vars => LeasesHeld'
<1> SUFFICES ASSUME Typed, LeasesHeld, [Next]_vars, Calm'
             PROVE  /\ ipc' # "idle" => lease' = "indexer"
                    /\ wpc' = "submit" /\ man' # Nothing => lease' = "watcher"
  BY DEF LeasesHeld
<1>1. Calm /\ ~Use("expiries") /\ ~Use("moves")
  BY CalmBefore
<1>2. /\ ipc # "idle" => lease = "indexer"
      /\ wpc = "submit" /\ man # Nothing => lease = "watcher"
  BY <1>1 DEF LeasesHeld
<1>3. lease \in Owner \cup {None} /\ None \notin Owner
  BY NoneIsNew DEF Typed, TypeOK
<1> HIDE DEF Nothing
<1>4. CASE UNCHANGED vars
  BY <1>2, <1>4 DEF vars, watcher, indexer
<1>5. CASE User
  BY <1>2, <1>5 DEF User, Write, Remove, Move, LockOrUnlock, EditBeginsOrEnds, watcher, indexer
<1>6. CASE Watch
  BY <1>2, <1>3, <1>6 DEF Watch, WatchGate, WatchScan, WatchBuild, WatchAcquire, WatchRefused,
       WatchSubmit, WatchSubmitFails, WatchDone, Released, indexer, Owner
<1>7. CASE Index
  BY <1>2, <1>3, <1>7 DEF Index, IndexStart, IndexRead, IndexTouch, IndexSync, IndexSyncFails,
       IndexMark, IndexClear, IndexEnd, Pick, Released, watcher, Owner
<1>8. CASE Chunk
  BY <1>2, <1>8 DEF Chunk, ChunkRead, ChunkWrite, watcher, indexer
<1>9. CASE Expire
  BY <1>1, <1>2, <1>9 DEF Expire, watcher, indexer
<1>10. CASE Restart
  BY <1>2, <1>10 DEF Restart, WatcherRestarts, IndexerRestarts, VectorizerRestarts, Abandoned,
       watcher, indexer
<1>11. QED
  BY <1>4, <1>5, <1>6, <1>7, <1>8, <1>9, <1>10 DEF Next

(* A text on the disk is only replaced by a newer one, and the tables follow it. *)
LEMMA GrowingNext == Typed /\ Past /\ Growing /\ [Next]_vars => Growing'
<1> SUFFICES ASSUME Typed, Past, Growing, [Next]_vars, Calm', NEW f \in File, disk'[f] # 0
             PROVE  disk'[f] >= man'[f] /\ (row'[f] # None => disk'[f] >= row'[f].sum)
  BY DEF Growing
<1>1. Calm /\ ~Use("expiries") /\ ~Use("moves")
  BY CalmBefore
<1>2. /\ disk[f] \in Nat /\ man[f] \in Nat
      /\ row[f] # None => row[f].sum \in Nat
      /\ disk[f] # 0 => disk[f] >= man[f] /\ (row[f] # None => disk[f] >= row[f].sum)
  BY <1>1, BoundType DEF Typed, TypeOK, Stamp, Row, Counters, Growing
<1>3. CASE UNCHANGED vars
  BY <1>2, <1>3 DEF vars, watcher, db
<1>4. CASE User
  <2>1. UNCHANGED <<man, row>>
    BY <1>4 DEF User, Write, Remove, Move, LockOrUnlock, EditBeginsOrEnds, watcher, db
  <2>2. CASE disk'[f] = disk[f]
    BY <1>2, <2>1, <2>2
  <2>3. ASSUME NEW g \in File, Write(g), disk'[f] # disk[f]
        PROVE  disk'[f] = used["edits"] + 1 /\ used["edits"] \in Nat
    BY <2>3, UseCounts DEF Write, Typed, TypeOK, Counters
  <2>4. ASSUME NEW g \in File, Write(g), disk'[f] # disk[f]
        PROVE  disk'[f] >= man[f] /\ (row[f] # None => disk'[f] >= row[f].sum)
    BY <1>2, <2>3, <2>4 DEF Past
  <2>5. QED
    BY <1>1, <1>4, <2>1, <2>2, <2>4 DEF User, Remove, Move, LockOrUnlock, EditBeginsOrEnds,
         Typed, TypeOK
<1>5. CASE Watch
  <2>1. UNCHANGED disk
    BY <1>5 DEF Watch, WatchGate, WatchScan, WatchBuild, WatchAcquire, WatchRefused,
         WatchSubmit, WatchSubmitFails
  <2>2. man'[f] \in {man[f], disk[f], 0}
    BY <1>5 DEF Watch, WatchGate, WatchScan, WatchBuild, WatchAcquire, WatchRefused,
         WatchSubmit, WatchSubmitFails, WatchDone, Nothing
  <2>3. CASE UNCHANGED row
    BY <1>2, <2>1, <2>2, <2>3
  <2>4. CASE WatchSubmit
    <3>1. row'[f] \in {None, row[f]} \/ row'[f] = [sum |-> man[f], mtime |-> snap[f], flag |-> "pending"]
      BY <2>4, SyncedRow
    <3>2. row'[f] \in {None, row[f]} \/ row'[f].sum = man[f]
      BY <3>1
    <3>3. QED
      BY <1>2, <2>1, <2>2, <3>2
  <2>5. QED
    BY <1>5, <2>3, <2>4 DEF Watch, WatchGate, WatchScan, WatchBuild, WatchAcquire,
         WatchRefused, WatchSubmitFails, db
<1>6. CASE Index \/ Chunk
  <2>1. UNCHANGED <<disk, man>>
    BY <1>6 DEF Index, IndexStart, IndexRead, IndexTouch, IndexSync, IndexSyncFails, IndexMark,
         IndexClear, IndexEnd, Chunk, ChunkRead, ChunkWrite, watcher
  <2>2. SumsStay
    BY <1>6, WorkersKeepSums
  <2>3. QED
    BY <1>2, <2>1, <2>2 DEF SumsStay
<1>7. CASE Expire \/ Restart
  <2>1. UNCHANGED <<disk, row>> /\ man'[f] \in {man[f], 0}
    BY <1>7 DEF Expire, Restart, WatcherRestarts, IndexerRestarts, VectorizerRestarts, db, watcher,
         Nothing
  <2>2. QED
    BY <1>2, <2>1
<1>8. QED
  BY <1>3, <1>4, <1>5, <1>6, <1>7 DEF Next

Worked == LeasesHeld /\ Growing /\ Reading /\ Written /\ IndexerClearsWhatItIndexed

(* A sync beside the indexer's turn has an empty manifest: it can only     *)
(* take rows away.                                                         *)
LEMMA SyncBesideIndexer ==
  ASSUME Typed, LeasesHeld, Calm, WatchSubmit, NEW f \in File, row'[f] # None, ipc # "idle"
  PROVE  row'[f] = row[f] /\ ents'[f] = ents[f]
<1>1. man = Nothing
  BY DEF LeasesHeld, WatchSubmit
<1>2. row'[f] = row[f]
  BY <1>1, SyncedRow
<1>3. f \notin Purges
  <2>1. row'[f] = Synced(f)
    BY DEF WatchSubmit
  <2>2. f \in Purges => Synced(f) = None
    BY DEF Synced, Purges, Upserts
  <2>3. QED
    BY <2>1, <2>2
<1>4. QED
  BY <1>2, <1>3 DEF WatchSubmit

(* What the indexer has in hand is as new as the row, through every step.  *)
LEMMA ReadingNext == Typed /\ Past /\ Worked /\ [Next]_vars => Reading' /\ Written'
<1> DEFINE Reads == {"touch", "sync", "mark", "clear"}
           Writes == {"mark", "clear"}
<1> SUFFICES ASSUME Typed, Worked, [Next]_vars, Calm', ipc' \in Reads, row'[cur'] # None
             PROVE  /\ text' >= row'[cur'].sum
                    /\ ipc' \in Writes => ents'[cur'] = text'
  BY DEF Reading, Written
<1>1. Calm /\ ~Use("expiries") /\ ~Use("moves")
  BY CalmBefore
<1>2. /\ ipc \in Reads => cur \in File /\ (row[cur] # None => text >= row[cur].sum)
      /\ ipc \in Writes => (row[cur] # None => ents[cur] = text)
      /\ text \in Nat /\ row \in [File -> Row \cup {None}] /\ ents \in [File -> Stamp]
  BY <1>1, BoundType DEF Worked, Reading, Written, Typed, TypeOK, Stamp, Counters
<1>3. ASSUME UNCHANGED <<ipc, cur, text>>,
             row'[cur] # None => row[cur] # None /\ row'[cur].sum = row[cur].sum /\ ents'[cur] = ents[cur]
      PROVE  /\ text' >= row'[cur'].sum
             /\ ipc' \in Writes => ents'[cur'] = text'
  BY <1>2, <1>3
<1>4. CASE UNCHANGED vars \/ User \/ Expire \/ WatcherRestarts \/ VectorizerRestarts
  <2>1. UNCHANGED <<ipc, cur, text, row, ents>>
    BY <1>4 DEF vars, User, Write, Remove, Move, LockOrUnlock, EditBeginsOrEnds, Expire,
         WatcherRestarts, VectorizerRestarts, indexer, db
  <2>2. QED
    BY <1>3, <2>1
<1>5. CASE Watch
  <2>1. UNCHANGED <<ipc, cur, text>>
    BY <1>5 DEF Watch, WatchGate, WatchScan, WatchBuild, WatchAcquire, WatchRefused,
         WatchSubmit, WatchSubmitFails, indexer
  <2>2. CASE WatchSubmit
    <3>1. ipc # "idle" /\ cur \in File
      BY <1>2, <2>1
    <3>2. row'[cur] = row[cur] /\ ents'[cur] = ents[cur]
      BY <1>1, <2>1, <2>2, <3>1, SyncBesideIndexer DEF Worked
    <3>3. QED
      BY <1>3, <2>1, <3>2
  <2>3. CASE UNCHANGED <<row, ents>>
    BY <1>3, <2>1, <2>3
  <2>4. QED
    BY <1>5, <2>2, <2>3 DEF Watch, WatchGate, WatchScan, WatchBuild, WatchAcquire,
         WatchRefused, WatchSubmitFails, db
<1>6. ASSUME NEW f \in File, IndexRead(f)
      PROVE  /\ text' >= row'[cur'].sum
             /\ ipc' \in Writes => ents'[cur'] = text'
  <2>1. ipc' = "touch" /\ cur' = f /\ text' = disk[f] /\ disk[f] # 0 /\ row' = row
    BY <1>6 DEF IndexRead, Pick, db
  <2>2. QED
    BY <1>1, <2>1 DEF Worked, Growing
<1>7. CASE IndexTouch
  <2>1. ipc' = "sync" /\ cur' = cur /\ text' = text /\ cur \in File
    BY <1>2, <1>7 DEF IndexTouch, Pick
  <2>2. row'[cur].sum = IF row[cur] = None THEN 0 ELSE row[cur].sum
    BY <1>2, <1>7, <2>1 DEF IndexTouch, Row
  <2>3. QED
    BY <1>2, <1>7, <2>1, <2>2 DEF IndexTouch
<1>8. CASE IndexSync
  BY <1>2, <1>8 DEF IndexSync
<1>9. CASE IndexMark
  <2>1. UNCHANGED <<cur, text, ents>> /\ ipc' = "clear" /\ ipc = "mark" /\ cur \in File
    BY <1>2, <1>9 DEF IndexMark
  <2>2. row'[cur].sum = row[cur].sum /\ row[cur] # None
    BY <1>9, <2>1, FlaggedKeeps DEF IndexMark, Flag
  <2>3. QED
    BY <1>2, <2>1, <2>2
<1>10. CASE IndexStart \/ IndexSyncFails \/ IndexClear \/ IndexEnd \/ IndexerRestarts
  BY <1>10 DEF IndexStart, IndexSyncFails, IndexClear, IndexEnd, IndexerRestarts, Pick
<1>11. CASE Chunk
  <2>1. UNCHANGED <<ipc, cur, text, ents>>
    BY <1>11 DEF Chunk, ChunkRead, ChunkWrite, indexer, db
  <2>2. SumsStay /\ (UNCHANGED row \/ (job.file \in File /\ row[job.file] # None
                                           /\ row' = Flagged(job.file, "vectorizer")))
    BY <1>11, WorkersKeepSums
       DEF Chunk, ChunkRead, ChunkWrite, db, Typed, TypeOK, JobHasRow, Job
  <2>3. row'[cur] # None => row[cur] # None /\ row'[cur].sum = row[cur].sum
    BY <1>2, <2>1, <2>2, FlaggedKeeps DEF Flag
  <2>4. QED
    BY <1>3, <2>1, <2>3
<1>12. QED
  BY <1>4, <1>5, <1>6, <1>7, <1>8, <1>9, <1>10, <1>11 DEF Next, Index, Restart

(* A flag that the indexer has cleared was set for nothing newer than what *)
(* it has indexed: it clears it at the end of a file, when the entities    *)
(* are those of the text in its hands.                                     *)
LEMMA ClearsNext == Typed /\ Past /\ Worked /\ [Next]_vars => IndexerClearsWhatItIndexed'
<1> SUFFICES ASSUME Typed, Worked, [Next]_vars, Calm', NEW f \in File,
                    row'[f] # None, row'[f].flag = "indexer"
             PROVE  ents'[f] >= row'[f].sum
  BY DEF IndexerClearsWhatItIndexed, Calm
<1>1. Calm /\ ~Use("expiries") /\ ~Use("moves")
  BY CalmBefore
<1>2. /\ row[f] # None /\ row[f].flag = "indexer" => ents[f] >= row[f].sum
      /\ row \in [File -> Row \cup {None}] /\ ents \in [File -> Stamp] /\ Stamp \subseteq Nat
      /\ ipc \in {"touch", "sync", "mark", "clear"} => cur \in File
  BY <1>1, BoundType DEF Worked, IndexerClearsWhatItIndexed, Calm, Typed, TypeOK, Stamp, Counters
<1>3. CASE UNCHANGED <<row, ents>>
  BY <1>2, <1>3
<1>4. CASE WatchSubmit
  <2>1. row'[f] = row[f] \/ row'[f] = [sum |-> man[f], mtime |-> snap[f], flag |-> "pending"]
    BY <1>4, SyncedRow
  <2>2. row'[f] = row[f]
    BY <2>1
  <2>3. ents'[f] = ents[f]
    BY <1>4, <2>2 DEF WatchSubmit, Synced, Purges
  <2>4. QED
    BY <1>2, <2>2, <2>3
<1>5. CASE IndexTouch
  <2>1. f # cur \/ row[f] # None
    BY <1>2, <1>5 DEF IndexTouch
  <2>2. row'[f].sum = row[f].sum /\ row'[f].flag = row[f].flag /\ row[f] # None
    BY <1>2, <1>5, <2>1 DEF IndexTouch, Row
  <2>3. QED
    BY <1>2, <1>5, <2>2 DEF IndexTouch
<1>6. CASE IndexSync
  <2>1. row' = row /\ (f # cur => ents'[f] = ents[f]) /\ (f = cur => ents'[f] = text)
    BY <1>2, <1>6 DEF IndexSync
  <2>2. f = cur => text >= row[f].sum
    BY <1>1, <1>6, <2>1 DEF IndexSync, Worked, Reading
  <2>3. QED
    BY <1>2, <2>1, <2>2
<1>7. CASE IndexMark
  <2>1. f # cur
    BY <1>2, <1>7, FlaggedKeeps DEF IndexMark, Flag
  <2>2. row'[f] = row[f]
    BY <1>2, <1>7, <2>1, FlaggedKeeps DEF IndexMark, Flag
  <2>3. QED
    BY <1>2, <1>7, <2>2 DEF IndexMark
<1>8. CASE IndexClear
  <2>1. /\ UNCHANGED row \/ (row[cur] # None /\ row' = Flagged(cur, "indexer"))
        /\ ents' = ents /\ ipc = "clear" /\ cur \in File
    BY <1>2, <1>8 DEF IndexClear
  <2>2. CASE UNCHANGED row
    BY <1>2, <1>8, <2>2 DEF IndexClear
  <2>3. CASE f = cur /\ row[cur] # None
    <3>1. row'[f].sum = row[f].sum
      BY <2>1, <2>3, FlaggedKeeps DEF Flag
    <3>2. ents[f] = text /\ text >= row[f].sum
      BY <1>1, <1>8, <2>3 DEF IndexClear, Worked, Reading, Written
    <3>3. QED
      BY <1>8, <3>1, <3>2 DEF IndexClear
  <2>4. CASE ~(UNCHANGED row) /\ f # cur
    <3>1. row'[f] = row[f]
      BY <2>1, <2>4, FlaggedKeeps DEF Flag
    <3>2. QED
      BY <1>2, <1>8, <3>1 DEF IndexClear
  <2>5. QED
    BY <2>1, <2>2, <2>3, <2>4
<1>9. CASE ChunkWrite
  <2>1. job.file \in File /\ row[job.file] # None /\ row' = Flagged(job.file, "vectorizer")
    BY <1>9 DEF ChunkWrite, Typed, TypeOK, JobHasRow, Job
  <2>2. row'[f] = row[f]
    BY <2>1, FlaggedKeeps DEF Flag
  <2>3. QED
    BY <1>2, <1>9, <2>2 DEF ChunkWrite
<1>10. CASE UNCHANGED vars \/ User \/ Expire \/ Restart
  BY <1>3, <1>10 DEF vars, User, Write, Remove, Move, LockOrUnlock, EditBeginsOrEnds, Expire,
       Restart, WatcherRestarts, IndexerRestarts, VectorizerRestarts, db
<1>11. CASE (Watch /\ ~WatchSubmit) \/ IndexStart \/ (\E g \in File : IndexRead(g))
              \/ IndexSyncFails \/ IndexEnd \/ (\E g \in File : ChunkRead(g))
  BY <1>3, <1>11 DEF Watch, WatchGate, WatchScan, WatchBuild, WatchAcquire, WatchRefused,
       WatchSubmitFails, IndexStart, IndexRead, IndexSyncFails, IndexEnd, ChunkRead, db
<1>12. QED
  BY <1>4, <1>5, <1>6, <1>7, <1>8, <1>9, <1>10, <1>11 DEF Next, Index, Chunk

(* The lease does what it is for, for any number of files and edits: the   *)
(* indexer clears no flag that was set for a text it has not indexed.      *)
THEOREM ClearedIsIndexed == Spec => []IndexerClearsWhatItIndexed
<1> DEFINE IInv == Typed /\ Past /\ Worked
<1>1. Init => IInv
  <2>1. Init => Past /\ Worked
    BY DEF Init, Past, Worked, LeasesHeld, Growing, Reading, Written, IndexerClearsWhatItIndexed,
         Nothing, Counters
  <2>2. QED
    BY <2>1, TypedInit
<1>2. IInv /\ [Next]_vars => IInv'
  BY TypedNext, PastNext, LeasesNext, GrowingNext, ReadingNext, ClearsNext DEF Worked
<1>3. IInv => IndexerClearsWhatItIndexed
  BY DEF Worked
<1>4. QED
  BY <1>1, <1>2, <1>3, PTL DEF Spec
-----------------------------------------------------------------------------
(* A bounded set of numbers has a greatest one. *)
LEMMA GreatestExists ==
  ASSUME NEW n \in Nat, NEW S \in SUBSET (0..n), S # {}
  PROVE  Max(S) \in S /\ \A y \in S : Max(S) >= y
<1> DEFINE D == {n - x : x \in S}
           R == {ss \in Nat \X Nat : ss[1] < ss[2]}
<1>1. \A x \in S : n - x \in Nat
  OBVIOUS
<1>2. D \subseteq Nat /\ D # {}
  BY <1>1
<1>3. IsWellFoundedOn(R, Nat)
  BY NatLessThanWellFounded DEF OpToRel
<1> HIDE DEF D, R
<1>4. PICK d \in D : \A e \in D : ~(<<e, d>> \in R)
  BY <1>2, <1>3, WFMin
<1>5. \A e \in D : ~(e < d)
  BY <1>2, <1>4 DEF R
<1>6. PICK x \in S : d = n - x
  BY <1>4 DEF D
<1>7. \A y \in S : ~(n - y < n - x)
  BY <1>5, <1>6 DEF D
<1>8. \E z \in S : \A y \in S : z >= y
  BY <1>7
<1>9. QED
  BY <1>8 DEF Max

(* A tree has changed into d since it was s: a file is as it was, gone, or *)
(* newer than anything there was.                                          *)
After(d, s) ==
  \A f \in File : d[f] \in {s[f], 0} \/ \A g \in File : d[f] > s[g]

(* The newest stamp of a tree is one of its stamps and above all of them. *)
LEMMA NewestOf ==
  ASSUME NEW d \in [File -> Stamp], File # {}
  PROVE  /\ Max({d[f] : f \in File}) \in {d[f] : f \in File}
         /\ \A f \in File : Max({d[g] : g \in File}) >= d[f]
<1>1. Bound["edits"] \in Nat
  BY BoundType DEF Counters
<1>2. {d[f] : f \in File} \in SUBSET (0..Bound["edits"]) /\ {d[f] : f \in File} # {}
  BY DEF Stamp
<1>3. QED
  BY <1>1, <1>2, GreatestExists

(* The signature tells a tree from what it changes into without moves: a   *)
(* newer file shows in the newest mtime, a missing one in the count.       *)
LEMMA SignatureTells ==
  ASSUME NEW s \in [File -> Stamp], NEW d \in [File -> Stamp],
         After(d, s), Signature(d) = Signature(s)
  PROVE  \A f \in File : d[f] = s[f]
<1> DEFINE There(t) == {f \in File : t[f] # 0}
<1> SUFFICES ASSUME File # {} PROVE \A f \in File : d[f] = s[f]
  OBVIOUS
<1>1. Cardinality(There(d)) = Cardinality(There(s))
        /\ Max({d[f] : f \in File}) = Max({s[f] : f \in File})
  BY DEF Signature
<1>2. \A f \in File : d[f] \in Nat /\ s[f] \in Nat
  BY BoundType DEF Stamp, Counters
<1>3. \A f \in File : d[f] \in {s[f], 0}
  <2>1. PICK g \in File : s[g] = Max({s[f] : f \in File})
    BY NewestOf
  <2>2. \A f \in File : ~(d[f] > s[g])
    BY <1>1, <1>2, <2>1, NewestOf
  <2>3. QED
    BY <2>2 DEF After
<1>4. There(d) \subseteq There(s) /\ IsFiniteSet(There(s))
  BY <1>3, FilesAreFinite, FS_Subset
<1>5. There(d) = There(s)
  BY <1>1, <1>4, FS_Subset, FS_CardinalityType
<1>6. QED
  BY <1>3, <1>5

(* A restarted watcher passes nothing over: no signature is None. *)
LEMMA SignatureIsNew ==
  ASSUME NEW d \in [File -> Stamp], File # {}
  PROVE  Signature(d) # None
<1>1. Cardinality({f \in File : d[f] # 0}) \in Nat
  BY FilesAreFinite, FS_Subset, FS_CardinalityType
<1>2. Max({d[f] : f \in File}) \in Nat
  BY NewestOf, BoundType DEF Stamp, Counters
<1>3. QED
  BY <1>1, <1>2, NoneIsNew DEF Signature

(* During a turn of the watcher: the tree has changed since the walk as    *)
(* above, and a file that has not changed is in the manifest as it is.     *)
Turn ==
  wpc \in {"build", "acquire", "submit"} /\ ~missed =>
    /\ After(disk, snap)
    /\ wpc # "build" => \A f \in File : snap[f] # 0 /\ disk[f] = snap[f] => man[f] = snap[f]

(* Between two turns: the cached signature is that of a walk, the table    *)
(* shows what of it has not changed, and the indexer has no file in hand   *)
(* that has no row.                                                        *)
Shows(s) ==
  \A f \in File : /\ s[f] # 0 /\ disk[f] = s[f] => row[f] # None /\ row[f].sum = s[f]
                  /\ s[f] = 0 => row[f] = None

InHand == \A f \in File : f \in batch \/ f = cur => row[f] # None

Walked(s) ==
  /\ s \in [File -> Stamp] /\ \A f \in File : s[f] <= used["edits"]
  /\ cache = Signature(s) /\ After(disk, s) /\ Shows(s)

Rest ==
  wpc \in {"idle", "scan"} /\ ~missed /\ cache # None =>
    /\ ipc # "idle" => InHand
    /\ \E s \in [File -> Stamp] : Walked(s)

(* The users change a tree in no other way, unless they move a file. *)
LEMMA UserLeavesAfter ==
  ASSUME Typed, User, ~missed', NEW s \in [File -> Stamp],
         \A f \in File : s[f] <= used["edits"], After(disk, s)
  PROVE  After(disk', s) /\ \A f \in File : s[f] # 0 /\ disk'[f] = s[f] => disk[f] = s[f]
<1>1. \A f \in File : disk[f] \in Nat /\ s[f] \in Nat
  BY BoundType DEF Typed, TypeOK, Stamp, Counters
<1>2. ASSUME NEW f \in File, Write(f)
      PROVE  After(disk', s) /\ \A g \in File : s[g] # 0 /\ disk'[g] = s[g] => disk[g] = s[g]
  <2>1. used'["edits"] = used["edits"] + 1 /\ used["edits"] \in Nat
    BY <1>2, UseCounts DEF Write, Counters, Typed, TypeOK
  <2>2. disk' = [disk EXCEPT ![f] = used["edits"] + 1] /\ disk \in [File -> Stamp]
    BY <1>2, <2>1 DEF Write, Typed, TypeOK
  <2>3. \A g \in File : disk'[f] > s[g]
    BY <1>1, <2>1, <2>2
  <2>4. QED
    BY <1>1, <2>2, <2>3 DEF After
<1>3. ASSUME NEW f \in File, Remove(f)
      PROVE  After(disk', s) /\ \A g \in File : s[g] # 0 /\ disk'[g] = s[g] => disk[g] = s[g]
  BY <1>3 DEF Remove, After, Typed, TypeOK
<1>4. ASSUME NEW f \in Editable, LockOrUnlock(f) \/ EditBeginsOrEnds(f)
      PROVE  disk' = disk
  BY <1>4 DEF LockOrUnlock, EditBeginsOrEnds
<1>5. QED
  BY <1>2, <1>3, <1>4 DEF User, Move

(* The tree only changes into later ones while the watcher is at work. *)
LEMMA TurnNext == Typed /\ Past /\ Turn /\ [Next]_vars => Turn'
<1> SUFFICES ASSUME Typed, Past, Turn, [Next]_vars, wpc' \in {"build", "acquire", "submit"}, ~missed'
             PROVE  /\ After(disk', snap')
                    /\ wpc' # "build" => \A f \in File : snap'[f] # 0 /\ disk'[f] = snap'[f] => man'[f] = snap'[f]
  BY DEF Turn, After
<1>1. CASE User
  <2>1. UNCHANGED <<wpc, snap, man, missed>>
    BY <1>1 DEF User, Write, Remove, Move, LockOrUnlock, EditBeginsOrEnds, watcher
  <2>2. /\ snap \in [File -> Stamp] /\ \A f \in File : snap[f] <= used["edits"]
        /\ After(disk, snap)
    BY <2>1 DEF Turn, Typed, TypeOK, Past
  <2>3. After(disk', snap) /\ \A f \in File : snap[f] # 0 /\ disk'[f] = snap[f] => disk[f] = snap[f]
    BY <1>1, <2>2, UserLeavesAfter
  <2>4. QED
    BY <2>1, <2>3 DEF Turn
<1>2. CASE WatchScan
  BY <1>2 DEF WatchScan, After
<1>3. CASE WatchBuild
  BY <1>3 DEF WatchBuild, Turn
<1>4. CASE WatchAcquire
  BY <1>4 DEF WatchAcquire, Turn
<1>5. CASE WatchGate \/ WatchRefused \/ WatchSubmit \/ WatchSubmitFails \/ WatcherRestarts
  BY <1>5 DEF WatchGate, WatchRefused, WatchSubmit, WatchSubmitFails, WatchDone, WatcherRestarts
<1>6. CASE UNCHANGED vars \/ Index \/ Chunk \/ Expire \/ IndexerRestarts \/ VectorizerRestarts
  <2>1. UNCHANGED <<disk, wpc, snap, man, missed>>
    BY <1>6 DEF vars, watcher, Index, IndexStart, IndexRead, IndexTouch, IndexSync,
         IndexSyncFails, IndexMark, IndexClear, IndexEnd, Chunk, ChunkRead, ChunkWrite, Expire,
         IndexerRestarts, VectorizerRestarts
  <2>2. QED
    BY <2>1 DEF Turn
<1>7. QED
  BY <1>1, <1>2, <1>3, <1>4, <1>5, <1>6 DEF Next, Watch, Restart

(* A sync that left nothing out, with no indexer at work, makes the table  *)
(* show the manifest.                                                      *)
LEMMA WholeSync ==
  ASSUME Typed, WatchSubmit, ~missed', NEW f \in File
  PROVE  /\ man[f] = 0 => row'[f] = None
         /\ man[f] # 0 => row'[f] # None /\ row'[f].sum = man[f]
         /\ ipc = "idle"
<1>1. ~LeftOut
  BY DEF WatchSubmit, WatchDone
<1>2. ipc = "idle" /\ f \notin Updates
        /\ (f \in lk => IF man[f] = 0 THEN row[f] = None ELSE ~Differs(f))
  BY <1>1 DEF LeftOut
<1>3. row'[f] = Synced(f) /\ man[f] \in Stamp /\ snap[f] \in Stamp
  BY DEF WatchSubmit, Typed, TypeOK
<1>4. CASE man[f] = 0
  BY <1>2, <1>3, <1>4 DEF Synced, Purges, Upserts
<1>5. CASE man[f] # 0 /\ Differs(f)
  <2>1. f \notin Purges /\ f \in Upserts \ Updates
    BY <1>2, <1>5 DEF Purges, Upserts
  <2>2. row'[f] = [sum |-> man[f], mtime |-> snap[f], flag |-> "pending"]
    BY <1>3, <2>1 DEF Synced
  <2>3. row'[f] \in Row /\ row'[f].sum = man[f]
    BY <1>3, <2>2 DEF Row, Flag
  <2>4. QED
    BY <1>2, <1>5, <2>3, NoneIsNew
<1>6. CASE man[f] # 0 /\ ~Differs(f)
  <2>1. row'[f] = row[f]
    BY <1>3, <1>6 DEF Synced, Purges, Upserts
  <2>2. QED
    BY <1>2, <1>6, <2>1 DEF Differs
<1>7. QED
  BY <1>4, <1>5, <1>6

RowsStay ==
  \A f \in File : /\ row'[f] = None <=> row[f] = None
                  /\ row[f] # None => row'[f].sum = row[f].sum

(* A worker that has rows for all it has in hand makes no new ones. *)
LEMMA WorkersMakeNoRows ==
  ASSUME Typed, Index \/ Chunk, ipc # "idle" => InHand
  PROVE  RowsStay
<1> USE DEF RowsStay, db
<1>1. CASE UNCHANGED row
  BY <1>1
<1>2. CASE IndexTouch
  <2>1. cur \in File /\ row \in [File -> Row \cup {None}] /\ row[cur] # None /\ text \in Stamp
    BY <1>2 DEF IndexTouch, Typed, TypeOK, InHand
  <2>2. row'[cur] \in Row /\ row'[cur].sum = row[cur].sum
    BY <1>2, <2>1 DEF IndexTouch, Row
  <2>3. QED
    BY <1>2, <2>1, <2>2, NoneIsNew DEF IndexTouch
<1>3. CASE IndexMark \/ IndexClear
  <2>1. cur \in File
    BY <1>3 DEF IndexMark, IndexClear, Typed, TypeOK
  <2>2. UNCHANGED row \/ (row[cur] # None /\ \E flag \in Flag : row' = Flagged(cur, flag))
    BY <1>3 DEF IndexMark, IndexClear, Flag
  <2>3. QED
    BY <2>1, <2>2, FlaggedKeeps, NoneIsNew
<1>4. CASE ChunkWrite
  <2>1. job.file \in File /\ row[job.file] # None /\ row' = Flagged(job.file, "vectorizer")
    BY <1>4 DEF ChunkWrite, Typed, TypeOK, JobHasRow, Job
  <2>2. QED
    BY <2>1, FlaggedKeeps, NoneIsNew DEF Flag
<1>5. QED
  BY <1>1, <1>2, <1>3, <1>4
     DEF Index, Chunk, IndexStart, IndexRead, IndexSync, IndexSyncFails, IndexEnd, ChunkRead

(* The walk that was cached stays one when the tree changes without moves  *)
(* and the rows stay.                                                      *)
LEMMA WalkedStays ==
  ASSUME Typed, [Next]_vars, NEW s, Walked(s), RowsStay, UNCHANGED cache,
         After(disk', s), \A f \in File : s[f] # 0 /\ disk'[f] = s[f] => disk[f] = s[f]
  PROVE  Walked(s)'
<1>1. used["edits"] \in Nat /\ used'["edits"] \in Nat /\ used'["edits"] >= used["edits"]
  BY UsedGrows DEF Counters
<1>2. \A f \in File : s[f] \in Nat
  BY BoundType DEF Walked, Stamp, Counters
<1>3. \A f \in File : s[f] <= used'["edits"]
  BY <1>1, <1>2 DEF Walked
<1>4. Shows(s)'
  BY DEF Walked, Shows, RowsStay
<1>5. QED
  BY <1>3, <1>4 DEF Walked, After, Signature

(* Between two syncs the signature on record is that of a tree the table shows. *)
LEMMA RestNext == Typed /\ Past /\ Turn /\ Rest /\ [Next]_vars => Rest'
<1> SUFFICES ASSUME Typed, Past, Turn, Rest, [Next]_vars,
                    wpc' \in {"idle", "scan"}, ~missed', cache' # None
             PROVE  /\ ipc' # "idle" => InHand'
                    /\ \E s \in [File -> Stamp] : Walked(s)'
  BY DEF Rest
<1>1. CASE WatchSubmit
  <2>1. ipc' = "idle"
    <3>1. CASE File = {}
      <4>1. ~LeftOut
        BY <1>1 DEF WatchSubmit, WatchDone
      <4>2. QED
        BY <1>1, <4>1 DEF LeftOut, WatchSubmit
    <3>2. CASE File # {}
      BY <1>1, <3>2, WholeSync DEF WatchSubmit
    <3>3. QED
      BY <3>1, <3>2
  <2>2. ~missed /\ UNCHANGED <<disk, used>> /\ wpc = "submit" /\ cache' = Signature(snap)
    BY <1>1 DEF WatchSubmit, WatchDone
  <2>3. snap \in [File -> Stamp] /\ (\A f \in File : snap[f] <= used["edits"]) /\ After(disk, snap)
    BY <2>2 DEF Typed, TypeOK, Past, Turn
  <2>4. \A f \in File : /\ snap[f] # 0 /\ disk[f] = snap[f] => man[f] = snap[f]
                        /\ snap[f] = 0 => man[f] = 0
    BY <2>2 DEF Turn, Typed, TypeOK
  <2>5. \A f \in File : /\ snap[f] # 0 /\ disk'[f] = snap[f] => row'[f] # None /\ row'[f].sum = snap[f]
                        /\ snap[f] = 0 => row'[f] = None
    BY <1>1, <2>2, <2>4, WholeSync
  <2>6. PICK s \in [File -> Stamp] :
          /\ s \in [File -> Stamp] /\ (\A f \in File : s[f] <= used'["edits"])
          /\ cache' = Signature(s) /\ After(disk', s)
          /\ \A f \in File : /\ s[f] # 0 /\ disk'[f] = s[f] => row'[f] # None /\ row'[f].sum = s[f]
                             /\ s[f] = 0 => row'[f] = None
    BY <2>2, <2>3, <2>5
  <2>7. Walked(s)'
    <3>1. Shows(s)'
      BY <2>6 DEF Shows
    <3>2. After(disk, s)' /\ (cache = Signature(s))'
      BY <2>6 DEF After, Signature
    <3>3. QED
      BY <2>6, <3>1, <3>2 DEF Walked
  <2>8. QED
    BY <2>1, <2>7
<1>2. CASE User
  <2>1. UNCHANGED <<wpc, cache, missed, row, ipc, batch, cur>>
    BY <1>2 DEF User, Write, Remove, Move, LockOrUnlock, EditBeginsOrEnds, watcher, indexer, db
  <2>2. PICK s \in [File -> Stamp] : Walked(s)
    BY <2>1 DEF Rest
  <2>3. After(disk', s) /\ \A f \in File : s[f] # 0 /\ disk'[f] = s[f] => disk[f] = s[f]
    BY <1>2, <2>2, UserLeavesAfter DEF Walked
  <2>4. Walked(s)'
    BY <2>1, <2>2, <2>3, WalkedStays DEF RowsStay
  <2>5. QED
    BY <2>1, <2>4 DEF Rest, InHand
<1>3. CASE Index \/ Chunk
  <2>1. UNCHANGED <<disk, wpc, cache, missed>>
    BY <1>3 DEF watcher, Index, IndexStart, IndexRead, IndexTouch, IndexSync, IndexSyncFails,
         IndexMark, IndexClear, IndexEnd, Chunk, ChunkRead, ChunkWrite
  <2>2. PICK s \in [File -> Stamp] : Walked(s)
    BY <2>1 DEF Rest
  <2>3. ipc # "idle" => InHand
    BY <2>1 DEF Rest
  <2>4. RowsStay
    BY <1>3, <2>3, WorkersMakeNoRows
  <2>5. Walked(s)'
    BY <2>1, <2>2, <2>4, WalkedStays DEF Walked
  <2>6. ipc' # "idle" => InHand'
    <3>1. CASE IndexStart
      <4>1. cur' = None /\ batch' \subseteq {f \in File : Pending(f)}
        BY <3>1 DEF IndexStart, Typed, TypeOK
      <4>2. QED
        BY <2>4, <4>1, NoneIsNew DEF InHand, Pending, RowsStay
    <3>2. CASE Chunk
      BY <2>3, <2>4, <3>2 DEF Chunk, ChunkRead, ChunkWrite, indexer, InHand, RowsStay
    <3>3. CASE Index /\ ~IndexStart
      <4>1. ipc # "idle" /\ batch' \subseteq batch /\ (cur' = cur \/ cur' = None \/ cur' \in batch)
        BY <3>3 DEF Index, IndexRead, IndexTouch, IndexSync, IndexSyncFails, IndexMark,
             IndexClear, IndexEnd, Pick
      <4>2. QED
        BY <2>3, <2>4, <4>1, NoneIsNew DEF InHand, RowsStay
    <3>4. QED
      BY <1>3, <3>1, <3>2, <3>3
  <2>7. QED
    BY <2>5, <2>6
<1>4. CASE UNCHANGED vars \/ WatchGate \/ WatchScan \/ Expire \/ VectorizerRestarts \/ IndexerRestarts
  <2>1. /\ UNCHANGED <<disk, cache, missed, row>> /\ wpc \in {"idle", "scan"}
        /\ ipc' = "idle" \/ UNCHANGED <<ipc, batch, cur>>
    BY <1>4 DEF vars, watcher, indexer, db, WatchGate, WatchScan, Expire, VectorizerRestarts,
         IndexerRestarts
  <2>2. PICK s \in [File -> Stamp] : Walked(s)
    BY <2>1 DEF Rest
  <2>3. Walked(s)'
    BY <2>1, <2>2, WalkedStays DEF Walked, RowsStay
  <2>4. QED
    BY <2>1, <2>3 DEF Rest, InHand
<1>5. CASE WatchBuild \/ WatchAcquire \/ WatchRefused \/ WatchSubmitFails \/ WatcherRestarts
  BY <1>5 DEF WatchBuild, WatchAcquire, WatchRefused, WatchSubmitFails, WatchDone, WatcherRestarts
<1>6. QED
  BY <1>1, <1>2, <1>3, <1>4, <1>5 DEF Next, Watch, Restart

(* The short cut is safe for any number of files: a tree that is passed    *)
(* over because of its signature is the one the table shows, unless a sync *)
(* left something out or a file was moved.                                 *)
THEOREM SkippingIsSafe == Spec => []SkippedScanIsSafe
<1> DEFINE IInv == Typed /\ Past /\ Turn /\ Rest
<1>1. Init => IInv
  <2>1. Init => Past /\ Turn /\ Rest
    BY DEF Init, Past, Turn, Rest, Nothing, Counters
  <2>2. QED
    BY <2>1, TypedInit
<1>2. IInv /\ [Next]_vars => IInv'
  BY TypedNext, PastNext, TurnNext, RestNext
<1>3. IInv => SkippedScanIsSafe
  <2>1. SUFFICES ASSUME IInv, wpc = "idle", cache = Signature(disk), ~missed, NEW f \in File
                 PROVE  Recorded(f)
    BY DEF SkippedScanIsSafe
  <2>2. disk \in [File -> Stamp] /\ cache # None
    BY <2>1, SignatureIsNew DEF Typed, TypeOK
  <2>3. PICK s \in [File -> Stamp] : Walked(s)
    BY <2>1, <2>2 DEF Rest
  <2>4. disk[f] = s[f] /\ Shows(s)
    BY <2>1, <2>2, <2>3, SignatureTells DEF Walked
  <2>5. QED
    BY <2>4 DEF Recorded, Shows
<1>4. QED
  BY <1>1, <1>2, <1>3, PTL DEF Spec
=============================================================================
