---------------------------- MODULE FilePipeline ----------------------------
(***************************************************************************)
(* From the disk to the tables, for the files of ONE project:              *)
(*   - the file watcher compares a signature of the tree, builds a         *)
(*     manifest of the disk and submits one bulk sync (core/               *)
(*     file_watcher_pkg: multi_project_worker_scan, processor_queue,       *)
(*     watcher_disk_manifest, watcher_bulk_sync);                          *)
(*   - the indexing worker reads the flagged files and writes their        *)
(*     entities (core/indexing_worker_pkg, update_indexes_analyzer);       *)
(*   - the vectorization worker writes their chunks.                       *)
(* The watcher and the indexer share the project activity lease (module    *)
(* ProjectActivity); the vectorizer does not take it.  All three use the   *)
(* one column needs_chunking.                                              *)
(*                                                                         *)
(* A write of a file gets the next stamp, which stands for its text and    *)
(* for its modification time; a move keeps it.  0 is no file.  Sizes are   *)
(* taken as equal: a new stamp already makes a new signature.  Every text  *)
(* has a docstring.                                                        *)
(***************************************************************************)
EXTENDS Integers, FiniteSets, FiniteSetsExt

CONSTANTS File, None,
          Editable,  \* files that sessions may lock or edit
          Broken,    \* stamps of texts that do not parse
          Bound,     \* how many edits, moves, faults, expiries and restarts
          Mishaps    \* and how many of these but edits together

Counters == {"edits", "moves", "faults", "expiries", "restarts"}

ASSUME FilesAreFinite == IsFiniteSet(File) /\ Editable \subseteq File
ASSUME BoundType == Bound \in [Counters -> Nat] /\ Mishaps \in Nat
ASSUME BrokenType == Broken \subseteq 1..Bound["edits"]

VARIABLES
  disk,      \* the stamp of each file
  row,       \* its row of files: checksum, mtime and needs_chunking, or None
  ents,      \* the stamp its entities were made from
  chunks,    \* the stamps its rows of code_chunks were made from
  lease,     \* the project activity lease: an owner, "dead" or None
  locked,    \* files with an advisory lease of a session
  editing,   \* files with a live editing_pid of the server
  wpc, snap, man, lk,   \* the watcher: step, stats, checksums, locked paths
  cache,     \* its _manifest_signature_cache of the project
  missed,    \* (history) the last sync left something out, or may have
  ipc, batch, cur, text, torn,   \* the indexer; torn: cur's row was purged
  job,       \* the file the vectorizer has read, and its text
  used       \* what is used up of Bound

db == <<row, ents, chunks>>
sessions == <<locked, editing>>
watcher == <<wpc, snap, man, lk, cache, missed>>
indexer == <<ipc, batch, cur, text, torn>>
vars == <<disk, db, lease, sessions, watcher, indexer, job, used>>

Stamp == 0..Bound["edits"]
Nothing == [f \in File |-> 0]

(* needs_chunking: 1 is "pending"; for 0 the model remembers who cleared   *)
(* it, "unset" for the column's default.                                   *)
Flag == {"pending", "unset", "indexer", "vectorizer"}
Row == [sum : Stamp, mtime : Stamp, flag : Flag]
Job == [file : File, text : Stamp \ {0}]
Owner == {"watcher", "indexer", "dead"}

ASSUME NoneIsNew ==
  None \notin File /\ None \notin Row /\ None \notin Job /\ None \notin Owner /\ None \notin Nat \X Nat

TypeOK ==
  /\ disk \in [File -> Stamp]
  /\ row \in [File -> Row \cup {None}]
  /\ ents \in [File -> Stamp] /\ chunks \in [File -> SUBSET Stamp]
  /\ \A f \in File : row[f] = None => ents[f] = 0 /\ chunks[f] = {}
  /\ lease \in Owner \cup {None}
  /\ locked \subseteq Editable /\ editing \subseteq Editable
  /\ wpc \in {"idle", "scan", "build", "acquire", "submit"}
  /\ snap \in [File -> Stamp] /\ man \in [File -> Stamp]
  /\ \A f \in File : man[f] # 0 => snap[f] # 0
  /\ lk \subseteq Editable
  /\ missed \in BOOLEAN
  /\ ipc \in {"idle", "pick", "touch", "sync", "mark", "clear"}
  /\ batch \subseteq File /\ cur \in File \cup {None}
  /\ text \in Stamp /\ torn \in BOOLEAN
  /\ ipc \in {"idle", "pick"} <=> cur = None
  /\ job \in Job \cup {None}
  /\ used \in [Counters -> Nat] /\ \A k \in Counters : used[k] <= Bound[k]

Init ==
  /\ disk = Nothing
  /\ row = [f \in File |-> None]
  /\ ents = Nothing /\ chunks = [f \in File |-> {}]
  /\ lease = None
  /\ locked = {} /\ editing = {}
  /\ wpc = "idle" /\ snap = Nothing /\ man = Nothing /\ lk = {}
  /\ cache = None /\ missed = FALSE
  /\ ipc = "idle" /\ batch = {} /\ cur = None /\ text = 0 /\ torn = FALSE
  /\ job = None
  /\ used = [k \in Counters |-> 0]

Use(k) ==
  /\ used[k] < Bound[k]
  /\ k = "edits"
       \/ used["moves"] + used["faults"] + used["expiries"] + used["restarts"] < Mishaps
  /\ used' = [used EXCEPT ![k] = @ + 1]

Pending(f) == row[f] # None /\ row[f].flag = "pending"
Flagged(f, flag) == [row EXCEPT ![f].flag = flag]
Released(owner) == IF lease = owner THEN None ELSE lease

-----------------------------------------------------------------------------
(* The users of the project: editors, git, sessions of the server. *)

Write(f) ==
  /\ Use("edits")
  /\ disk' = [disk EXCEPT ![f] = used'["edits"]]
  /\ UNCHANGED <<db, lease, sessions, watcher, indexer, job>>

Remove(f) ==
  /\ disk[f] # 0
  /\ disk' = [disk EXCEPT ![f] = 0]
  /\ UNCHANGED <<db, lease, sessions, watcher, indexer, job, used>>

Move(f, g) ==
  /\ disk[f] # 0 /\ disk[g] = 0
  /\ Use("moves")
  /\ disk' = [disk EXCEPT ![f] = 0, ![g] = disk[f]]
  /\ missed' = TRUE
  /\ UNCHANGED <<db, lease, sessions, wpc, snap, man, lk, cache, indexer, job>>

Toggle(f, S) == IF f \in S THEN S \ {f} ELSE S \cup {f}

LockOrUnlock(f) ==
  /\ locked' = Toggle(f, locked)
  /\ UNCHANGED <<disk, db, lease, editing, watcher, indexer, job, used>>

EditBeginsOrEnds(f) ==
  /\ editing' = Toggle(f, editing)
  /\ UNCHANGED <<disk, db, lease, locked, watcher, indexer, job, used>>

User ==
  \/ \E f \in File : Write(f) \/ Remove(f) \/ \E g \in File : Move(f, g)
  \/ \E f \in Editable : LockOrUnlock(f) \/ EditBeginsOrEnds(f)

-----------------------------------------------------------------------------
(* A plausible slip: the newest mtime is not in the signature. *)
CountOnly(d) ==
  <<Cardinality({f \in File : d[f] # 0}), 0>>

(* compute_project_files_signature: the count, the newest mtime (and the size) *)
Signature(d) ==
  <<Cardinality({f \in File : d[f] # 0}), Max({d[f] : f \in File})>>

(* The project's turn in scan_watch_dir: the activity lease is taken and   *)
(* given back for the project's row, a busy project is left for the next   *)
(* cycle.                                                                  *)
WatchGate ==
  /\ wpc = "idle" /\ lease = None
  /\ wpc' = "scan"
  /\ UNCHANGED <<disk, db, lease, sessions, snap, man, lk, cache, missed, indexer, job, used>>

(* The walk of the tree; manifest_rebuild_needed *)
WatchScan ==
  /\ wpc = "scan"
  /\ IF cache = Signature(disk)
     THEN wpc' = "idle" /\ UNCHANGED <<snap, missed>>
     ELSE wpc' = "build" /\ snap' = disk /\ missed' = FALSE
  /\ UNCHANGED <<disk, db, lease, sessions, man, lk, cache, indexer, job, used>>

(* build_project_disk_manifest: the files are read again, after the walk.  *)
(* One that is gone, or cannot be read, has no row in the manifest.        *)
WatchBuild ==
  /\ wpc = "build"
  /\ wpc' = "acquire"
  /\ \E unread \in SUBSET File :
       /\ IF unread = {} THEN UNCHANGED used ELSE Use("faults")
       /\ man' = [f \in File |-> IF snap[f] = 0 \/ f \in unread THEN 0 ELSE disk[f]]
       /\ missed' = (missed \/ unread # {})
  /\ UNCHANGED <<disk, db, lease, sessions, snap, lk, cache, indexer, job>>

(* The end of the project's turn: the signature of the walk is recorded    *)
(* and the lease released, whatever became of the sync.                    *)
WatchDone(failed) ==
  /\ wpc' = "idle" /\ snap' = Nothing /\ man' = Nothing /\ lk' = {}
  /\ cache' = Signature(snap)
  /\ missed' = (missed \/ failed)
  /\ lease' = Released("watcher")

(* A plausible slip: the sync runs without the lease. *)
WatchAcquireAnyway ==
  /\ wpc = "acquire"
  /\ wpc' = "submit"
  /\ lk' = locked
  /\ UNCHANGED <<disk, db, lease, sessions, snap, man, cache, missed, indexer, job, used>>

(* queue_project_bulk_sync: the lease for the sync, unless the manifest is *)
(* empty; a busy project is an error of the cycle.  Then the locked paths. *)
WatchAcquire ==
  /\ wpc = "acquire"
  /\ man = Nothing \/ lease = None
  /\ wpc' = "submit"
  /\ lease' = IF man = Nothing THEN lease ELSE "watcher"
  /\ lk' = locked
  /\ UNCHANGED <<disk, db, sessions, snap, man, cache, missed, indexer, job, used>>

WatchRefused ==
  /\ wpc = "acquire"
  /\ man # Nothing /\ lease # None
  /\ WatchDone(TRUE)
  /\ UNCHANGED <<disk, db, sessions, indexer, job, used>>

(* The program of watcher_bulk_sync, one transaction: what differs between *)
(* the manifest and the table, less the paths that were locked.            *)
Differs(f) ==
  row[f] = None \/ row[f].sum # man[f] \/ row[f].mtime # snap[f]

Upserts == {f \in File : man[f] # 0 /\ Differs(f)} \ lk
Updates == {f \in Upserts : row[f] # None /\ f \in editing}   \* not updated after all
Purges == {f \in File : man[f] = 0 /\ row[f] # None} \ lk

Synced(f) ==
  CASE f \in Purges -> None
    [] f \in Upserts \ Updates -> [sum |-> man[f], mtime |-> snap[f], flag |-> "pending"]
    [] OTHER -> row[f]

LeftOut ==
  \/ ipc # "idle"   \* beside the indexer, which may undo it
  \/ \E f \in File : \/ f \in lk /\ IF man[f] = 0 THEN row[f] # None ELSE Differs(f)
                     \/ f \in Updates

WatchSubmit ==
  /\ wpc = "submit"
  /\ row' = [f \in File |-> Synced(f)]
  /\ ents' = [f \in File |-> IF f \in Purges THEN 0 ELSE ents[f]]
  /\ chunks' = [f \in File |-> IF f \in Purges THEN {} ELSE chunks[f]]
  /\ torn' = (torn \/ (ipc = "sync" /\ cur \in Purges))
  /\ job' = IF job # None /\ job.file \in Purges THEN None ELSE job
  /\ WatchDone(LeftOut)
  /\ UNCHANGED <<disk, sessions, ipc, batch, cur, text, used>>

WatchSubmitFails ==
  /\ wpc = "submit"
  /\ Use("faults")
  /\ WatchDone(TRUE)
  /\ UNCHANGED <<disk, db, sessions, indexer, job>>

Watch == WatchGate \/ WatchScan \/ WatchBuild \/ WatchAcquire
           \/ WatchRefused \/ WatchSubmit \/ WatchSubmitFails

-----------------------------------------------------------------------------
(* A cycle of the indexing worker reaches the project: the lease, then the *)
(* flagged files, less those under edit.                                   *)
IndexStart ==
  /\ ipc = "idle" /\ lease = None
  /\ \E f \in File : Pending(f)
  /\ lease' = "indexer"
  /\ batch' = {f \in File : Pending(f)} \ editing
  /\ ipc' = "pick"
  /\ UNCHANGED <<disk, db, sessions, watcher, cur, text, torn, job, used>>

Pick == ipc' = "pick" /\ cur' = None /\ text' = 0 /\ torn' = FALSE

(* analyze_file: the file is there and is read, its stat and its text in   *)
(* one step                                                                *)
IndexRead(f) ==
  /\ ipc = "pick" /\ f \in batch
  /\ batch' = batch \ {f}
  /\ IF disk[f] = 0
     THEN Pick
     ELSE ipc' = "touch" /\ cur' = f /\ text' = disk[f] /\ UNCHANGED torn
  /\ UNCHANGED <<disk, db, lease, sessions, watcher, job, used>>

(* add_file: the row's mtime, or a new row; then the text is parsed *)
IndexTouch ==
  /\ ipc = "touch"
  /\ row' = [row EXCEPT ![cur] =
               IF @ = None THEN [sum |-> 0, mtime |-> text, flag |-> "unset"]
                           ELSE [@ EXCEPT !.mtime = text]]
  /\ IF text \in Broken
     THEN Pick
     ELSE ipc' = "sync" /\ UNCHANGED <<cur, text, torn>>
  /\ UNCHANGED <<disk, ents, chunks, lease, sessions, watcher, batch, job, used>>

(* sync_file_to_db_atomic under the file edit lock *)
IndexSync ==
  /\ ipc = "sync"
  /\ ~torn /\ row[cur] # None /\ cur \notin editing
  /\ ents' = [ents EXCEPT ![cur] = text]
  /\ ipc' = "mark"
  /\ UNCHANGED <<disk, row, chunks, lease, sessions, watcher, batch, cur, text, torn, job, used>>

(* the file is edited, its row was purged, or the database fails *)
IndexSyncFails ==
  /\ ipc = "sync"
  /\ \/ (torn \/ row[cur] = None \/ cur \in editing) /\ UNCHANGED used
     \/ Use("faults")
  /\ Pick
  /\ UNCHANGED <<disk, db, lease, sessions, watcher, batch, job>>

(* mark_file_needs_chunking: the old chunks go, the flag is set once more *)
IndexMark ==
  /\ ipc = "mark"
  /\ ipc' = "clear"
  /\ IF row[cur] = None
     THEN UNCHANGED <<row, chunks>>
     ELSE row' = Flagged(cur, "pending") /\ chunks' = [chunks EXCEPT ![cur] = {}]
  /\ UNCHANGED <<disk, ents, lease, sessions, watcher, batch, cur, text, torn, job, used>>

(* index_file_via_driver clears the flag, by path; a failure is logged *)
IndexClear ==
  /\ ipc = "clear"
  /\ \/ /\ row' = IF row[cur] = None THEN row ELSE Flagged(cur, "indexer")
        /\ UNCHANGED used
     \/ Use("faults") /\ UNCHANGED row
  /\ Pick
  /\ UNCHANGED <<disk, ents, chunks, lease, sessions, watcher, batch, job>>

IndexEnd ==
  /\ ipc = "pick" /\ batch = {}
  /\ ipc' = "idle"
  /\ lease' = Released("indexer")
  /\ UNCHANGED <<disk, db, sessions, watcher, batch, cur, text, torn, job, used>>

Index == IndexStart \/ (\E f \in File : IndexRead(f)) \/ IndexTouch \/ IndexSync
           \/ IndexSyncFails \/ IndexMark \/ IndexClear \/ IndexEnd

-----------------------------------------------------------------------------
(* The vectorizer selects a file that is flagged or has no chunks, and     *)
(* reads it.  (What it has selected stays so until it writes chunks.)      *)
ChunkRead(f) ==
  /\ job = None
  /\ Pending(f) \/ (row[f] # None /\ chunks[f] = {})
  /\ disk[f] # 0 /\ disk[f] \notin Broken
  /\ job' = [file |-> f, text |-> disk[f]]
  /\ UNCHANGED <<disk, db, lease, sessions, watcher, indexer, used>>

(* After the chunking service has answered: the chunks are added, their    *)
(* key holds their text, and the flag is cleared, by id.                   *)
ChunkWrite ==
  /\ job # None
  /\ chunks' = [chunks EXCEPT ![job.file] = @ \cup {job.text}]
  /\ row' = Flagged(job.file, "vectorizer")
  /\ job' = None
  /\ UNCHANGED <<disk, ents, lease, sessions, watcher, indexer, used>>

Chunk == (\E f \in File : ChunkRead(f)) \/ ChunkWrite

-----------------------------------------------------------------------------
(* The lease of a worker that does not get to its heartbeat runs out under *)
(* it, and so does the lease of a dead one.                                *)
Expire ==
  /\ \/ lease \in {"watcher", "indexer"} /\ Use("expiries")
     \/ lease = "dead" /\ UNCHANGED used
  /\ lease' = None
  /\ UNCHANGED <<disk, db, sessions, watcher, indexer, job>>

Abandoned(owner) == IF lease = owner THEN "dead" ELSE lease

(* A worker dies and starts anew.  The cache is in the watcher's memory. *)
WatcherRestarts ==
  /\ Use("restarts")
  /\ wpc' = "idle" /\ snap' = Nothing /\ man' = Nothing /\ lk' = {}
  /\ cache' = None
  /\ lease' = Abandoned("watcher")
  /\ UNCHANGED <<disk, db, sessions, missed, indexer, job>>

IndexerRestarts ==
  /\ Use("restarts")
  /\ ipc' = "idle" /\ batch' = {} /\ cur' = None /\ text' = 0 /\ torn' = FALSE
  /\ lease' = Abandoned("indexer")
  /\ UNCHANGED <<disk, db, sessions, watcher, job>>

VectorizerRestarts ==
  /\ Use("restarts")
  /\ job' = None
  /\ UNCHANGED <<disk, db, lease, sessions, watcher, indexer>>

Restart == WatcherRestarts \/ IndexerRestarts \/ VectorizerRestarts

Next == User \/ Watch \/ Index \/ Chunk \/ Expire \/ Restart

Spec == Init /\ [][Next]_vars

(* Every worker polls, goes on with a turn it has begun, and gets the      *)
(* lease sometime: the polls of the watcher and of the indexer have        *)
(* periods of their own, and the lease is free between two turns.          *)
FairSpec ==
  /\ Spec
  /\ SF_vars(WatchGate)
  /\ WF_vars(WatchScan \/ WatchBuild \/ WatchAcquire \/ WatchRefused \/ WatchSubmit)
  /\ SF_vars(IndexStart)
  /\ WF_vars((\E f \in File : IndexRead(f)) \/ IndexTouch \/ IndexSync
                \/ IndexSyncFails \/ IndexMark \/ IndexClear \/ IndexEnd)
  /\ WF_vars(Chunk)
  /\ WF_vars(lease = "dead" /\ Expire)

-----------------------------------------------------------------------------
Recorded(f) ==
  IF disk[f] = 0 THEN row[f] = None ELSE row[f] # None /\ row[f].sum = disk[f]

(* The signature short cut: when a tree is passed over because its         *)
(* signature is the cached one, the table has it as it is, unless the last *)
(* sync left something out or a file was moved since.  However the walk,   *)
(* the manifest and the transaction interleave with the users of the disk. *)
SkippedScanIsSafe ==
  (wpc = "idle" /\ cache = Signature(disk) /\ ~missed) => \A f \in File : Recorded(f)

(* What the lease is for: a flag the indexer has cleared was set for       *)
(* nothing newer than the text it has indexed, as long as no lease ran out *)
(* under its owner.  (A move puts an older stamp in place of a newer one:  *)
(* the comparison is for behaviours without one.)                          *)
IndexerClearsWhatItIndexed ==
  (used["expiries"] = 0 /\ used["moves"] = 0) =>
    \A f \in File :
      (row[f] # None /\ row[f].flag = "indexer") => ents[f] >= row[f].sum

(* Not a property of the code.  multi_project_worker_scan.py: "Record only *)
(* after a successful bulk queue so a failed cycle retries the rebuild     *)
(* next time."  A file that stays as it is gets recorded.                  *)
ChangeIsRecorded ==
  \A f \in File : ~Recorded(f) ~> Recorded(f)

(* Unless the sync that handled it left something out, or failed, a change *)
(* gets to the table: the watcher of a tree that has come to rest does not *)
(* stop at a state of it that it has only half read.                       *)
ChangeIsRecordedOrMissed ==
  \A f \in File : ~Recorded(f) ~> (Recorded(f) \/ missed)
=============================================================================
