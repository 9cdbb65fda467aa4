---------------------------- MODULE ProjectRename ----------------------------
(***************************************************************************)
(* The directory of one project and the two places that speak of it:       *)
(* projects.root_path and the rows of its files.  Four parties write the   *)
(* root path.                                                              *)
(*   - rename_project moves the directory and then updates the row, under  *)
(*     the exclusive lock of core/project_exclusive_lock.py.               *)
(*   - Whoever resolves the root (get_project, list_projects, the gate of  *)
(*     every command, the watcher) and does not find the project where the *)
(*     row says searches the watch directory for its projectid and points  *)
(*     the row at what it has found, without a lock or a lease             *)
(*     (core/project_root_path.py).                                        *)
(*   - The watcher relocates or inserts the row when it discovers the      *)
(*     project elsewhere: in initialize_watch_dirs at the head of every    *)
(*     cycle, and in scan_watch_dir.                                       *)
(*   - Once after its start the watcher purges the projects that it has    *)
(*     not discovered (startup_reconciliation.py).                         *)
(* The administrator may force an unlock.                                  *)
(*                                                                         *)
(* The watch directory has other projects, so a scan goes on when it has   *)
(* not met this one.  The contents of the project do not change, and the   *)
(* walk over them is one step here: FilePipeline has its parts.  A search  *)
(* by projectid is one step; the writing of what it has found is another.  *)
(***************************************************************************)
EXTENDS Naturals

CONSTANTS Root,        \* the names a directory under the watch directory may have
          Home,        \* where the project is at first
          Call,        \* rename commands that may run at the same time
          None,
          MaxRenames,  \* bound: rename commands begun
          MaxFaults    \* bound: failed statements, deaths, removals

Content == {"all", "part"}   \* every file of the project, or not every one

ASSUME HomeIsRoot == Home \in Root
ASSUME NoneIsNew == None \notin Root \cup Call \cup Content
ASSUME BoundsAreNat == MaxRenames \in Nat /\ MaxFaults \in Nat

VARIABLES
  disk,      \* where the directory is, None when somebody has deleted it
  row,       \* projects.root_path, None when there is no row
  files,     \* which of its files the table shows
  lock,      \* the owner in project_exclusive_locks
  pc, old, new,           \* of each rename
  hit,       \* what a reader has found and not yet written
  phase,     \* of the watcher: "startup", "init", "scan"
  wpc,       \* the watcher's next step
  listed,    \* the name the last listing of the watch directory had
  found,     \* the discovered root
  seen,      \* the root that the watcher's present read has found
  met,       \* what the scan knows: "unknown", "skipped", "known"
  begun, faults,
  forced,    \* history: a lock was taken off by the administrator
  late       \* history: a root was written that the directory had left

calls == <<pc, old, new>>
scan == <<phase, wpc, listed, found, seen, met>>
tables == <<row, files, lock>>
counts == <<begun, faults>>
history == <<forced, late>>
vars == <<disk, tables, calls, hit, scan, counts, history>>

Before == {"idle", "resolve", "check", "look", "resync", "acquire"}
Inside == {"exists", "move", "update", "release"}
Reads == {"root", "partition", "get"}   \* where the watcher resolves the row

TypeOK ==
  /\ disk \in Root \cup {None} /\ row \in Root \cup {None}
  /\ files \in Content /\ lock \in Call \cup {None}
  /\ pc \in [Call -> Before \cup Inside]
  /\ old \in [Call -> Root \cup {None}] /\ new \in [Call -> Root \cup {None}]
  /\ hit \in Root \cup {None}
  /\ phase \in {"startup", "init", "scan"}
  /\ wpc \in Reads \cup
       {"idle", "discover", "orphan", "mark", "locked", "gate", "acquire", "relocate", "insert",
        "list", "visit", "walk", "supplement", "exists", "purge"}
  /\ listed \in Root \cup {None} /\ found \in Root \cup {None} /\ seen \in Root \cup {None}
  /\ met \in {"unknown", "skipped", "known"}
  /\ begun \in Nat /\ faults \in Nat /\ forced \in BOOLEAN /\ late \in BOOLEAN

Init ==
  /\ disk = Home /\ row = Home /\ files = "all" /\ lock = None
  /\ pc = [c \in Call |-> "idle"]
  /\ old = [c \in Call |-> None] /\ new = [c \in Call |-> None]
  /\ hit = None
  /\ phase = "startup" /\ wpc = "idle" /\ listed = None /\ found = None /\ seen = None
  /\ met = "unknown"
  /\ begun = 0 /\ faults = 0 /\ forced = FALSE /\ late = FALSE

Fault == faults < MaxFaults /\ faults' = faults + 1
-----------------------------------------------------------------------------
(* projects.root_path, where there is a row to update *)

(* relocate_project_root_after_disk_move *)
Relocated(root) == IF row = None THEN None ELSE root

(* A plausible slip: the resync keeps its hands off a locked project. *)
ResyncedUnlessLocked(root) == IF row = None \/ lock # None THEN row ELSE root

(* resync_project_root_path_row, with what a search has found *)
Resynced(root) == IF row = None THEN None ELSE root

(* The project has a row, and a directory, but not where the row says. *)
RowIsStale == row # None /\ disk \notin {row, None}

(* What is written on the strength of a search may be late. *)
Written ==
  /\ late' = (late \/ row' \notin {row, disk})
  /\ UNCHANGED forced

(* A command, or another worker, that reads the project *)
ReaderFinds ==
  /\ hit = None /\ RowIsStale
  /\ hit' = disk
  /\ UNCHANGED <<disk, tables, calls, scan, counts, history>>

(* The error of the update is swallowed. *)
ReaderResyncs ==
  /\ hit # None
  /\ row' \in {Resynced(hit), row} /\ Written
  /\ hit' = None
  /\ UNCHANGED <<disk, files, lock, calls, scan, counts>>
-----------------------------------------------------------------------------
(* rename_project *)

Goto(c, step) == pc' = [pc EXCEPT ![c] = step]

Return(c) ==
  /\ pc' = [pc EXCEPT ![c] = "idle"]
  /\ old' = [old EXCEPT ![c] = None] /\ new' = [new EXCEPT ![c] = None]

(* The gate in front of every command that names a project. *)
Begin(c) ==
  /\ pc[c] = "idle" /\ begun < MaxRenames
  /\ lock = None
  /\ begun' = begun + 1
  /\ Goto(c, "resolve")
  /\ UNCHANGED <<disk, tables, old, new, hit, scan, faults, history>>

(* _resolve_project_root reads the row, then looks at the lock ... *)
Resolve(c) ==
  /\ pc[c] = "resolve"
  /\ IF row # None
       THEN old' = [old EXCEPT ![c] = row] /\ Goto(c, "check") /\ UNCHANGED new
       ELSE Return(c)
  /\ UNCHANGED <<disk, tables, hit, scan, counts, history>>

Check(c) ==
  /\ pc[c] = "check"
  /\ IF lock = None THEN Goto(c, "look") /\ UNCHANGED <<old, new>> ELSE Return(c)
  /\ UNCHANGED <<disk, tables, hit, scan, counts, history>>

(* ... and at the directory, which it searches for if it is not there. *)
Look(c) ==
  /\ pc[c] = "look"
  /\ \/ /\ disk = old[c]
        /\ Goto(c, "acquire") /\ UNCHANGED <<old, new>>
     \/ /\ disk \notin {old[c], None}
        /\ old' = [old EXCEPT ![c] = disk] /\ Goto(c, "resync") /\ UNCHANGED new
     \/ disk = None /\ Return(c)
  /\ UNCHANGED <<disk, tables, hit, scan, counts, history>>

(* The row is pointed at the directory; is_dir has the last word. *)
Resync(c) ==
  /\ pc[c] = "resync"
  /\ row' \in {Resynced(old[c]), row} /\ Written
  /\ IF disk = old[c] THEN Goto(c, "acquire") /\ UNCHANGED <<old, new>> ELSE Return(c)
  /\ UNCHANGED <<disk, files, lock, hit, scan, counts>>

(* A plausible slip: the insert that meets a row replaces it. *)
AcquireAnyway(c) ==
  /\ pc[c] = "acquire"
  /\ lock' = c /\ Goto(c, "exists")
  /\ UNCHANGED <<old, new, disk, row, files, hit, scan, counts, history>>

Acquire(c) ==
  /\ pc[c] = "acquire"
  /\ IF lock = None
       THEN lock' = c /\ Goto(c, "exists") /\ UNCHANGED <<old, new>>
       ELSE Return(c) /\ UNCHANGED lock
  /\ UNCHANGED <<disk, row, files, hit, scan, counts, history>>

(* From here on every return but the last one leaves the lock. The new     *)
(* name comes with the command and is chosen here, where it is first used. *)
TargetExists(c) ==
  /\ pc[c] = "exists" /\ disk # None
  /\ Return(c)
  /\ UNCHANGED <<disk, tables, hit, scan, counts, history>>

TargetIsFree(c) ==
  /\ pc[c] = "exists"
  /\ \E n \in Root \ {disk} : new' = [new EXCEPT ![c] = n]
  /\ Goto(c, "move")
  /\ UNCHANGED <<disk, tables, old, hit, scan, counts, history>>

Move(c) ==
  /\ pc[c] = "move"
  /\ IF disk = old[c]
       THEN /\ disk' = new[c] /\ Goto(c, "update")
            /\ old' = [old EXCEPT ![c] = None] /\ UNCHANGED new
       ELSE Return(c) /\ UNCHANGED disk
  /\ UNCHANGED <<tables, hit, scan, counts, history>>

Update(c) ==
  /\ pc[c] = "update"
  /\ row' = Relocated(new[c])
  /\ IF row # None
       THEN Goto(c, "release") /\ new' = [new EXCEPT ![c] = None] /\ UNCHANGED old
       ELSE Return(c)
  /\ UNCHANGED <<disk, files, lock, hit, scan, counts, history>>

Release(c) ==
  /\ pc[c] = "release"
  /\ lock' = None
  /\ Return(c)
  /\ UNCHANGED <<disk, row, files, hit, scan, counts, history>>

(* A plausible slip: the lock is released in the finally clause. *)
FailsAndReleases(c) ==
  /\ Fault
  /\ \/ pc[c] = "acquire" /\ lock = None /\ UNCHANGED row
     \/ pc[c] = "update" /\ row' \in {row, Relocated(new[c])}
     \/ pc[c] = "release" /\ UNCHANGED row
  /\ lock' = None
  /\ Return(c)
  /\ UNCHANGED <<disk, files, hit, scan, begun, history>>

(* The statement of the present step fails; it may have been executed. *)
StatementFails(c) ==
  /\ Fault
  /\ \/ pc[c] = "acquire" /\ lock = None /\ lock' \in {None, c} /\ UNCHANGED row
     \/ pc[c] = "update" /\ row' \in {row, Relocated(new[c])} /\ UNCHANGED lock
     \/ pc[c] = "release" /\ lock' \in {lock, None} /\ UNCHANGED row
  /\ Return(c)
  /\ UNCHANGED <<disk, files, hit, scan, begun, history>>

Rename(c) ==
  \/ Resolve(c) \/ Check(c) \/ Look(c) \/ Resync(c) \/ Acquire(c)
  \/ TargetExists(c) \/ TargetIsFree(c) \/ Move(c) \/ Update(c) \/ Release(c)

ServerDies ==
  /\ \E c \in Call : pc[c] # "idle"
  /\ Fault
  /\ pc' = [c \in Call |-> "idle"]
  /\ old' = [c \in Call |-> None] /\ new' = [c \in Call |-> None]
  /\ UNCHANGED <<disk, tables, hit, scan, begun, history>>

(* emergency_unlock_project with force: nothing is compared or repaired. *)
EmergencyUnlock ==
  /\ lock # None
  /\ lock' = None
  /\ forced' = TRUE
  /\ UNCHANGED <<disk, row, files, calls, hit, scan, counts, late>>

(* Somebody deletes the directory. *)
DirectoryRemoved ==
  /\ disk # None /\ Fault
  /\ disk' = None
  /\ UNCHANGED <<tables, calls, hit, scan, begun, history>>
-----------------------------------------------------------------------------
(* The watcher: startup reconciliation once, then cycles of                *)
(* initialize_watch_dirs and scan_watch_dir, as far as they are about this *)
(* project.                                                                *)

At(step) == wpc = step
Then(step) == wpc' = step

StartPhase(p) ==
  /\ phase' = p /\ Then("idle")
  /\ listed' = None /\ found' = None /\ seen' = None
  /\ UNCHANGED met

EndCycle ==
  /\ phase' = "init" /\ Then("idle")
  /\ listed' = None /\ found' = None /\ seen' = None
  /\ met' = "unknown"

(* discover_projects_in_directory: the names first, their projectid later, *)
(* for the last time when the soft-deleted are sorted out.                 *)
ListForDiscovery ==
  /\ At("idle") /\ Then("discover")
  /\ listed' = disk
  /\ UNCHANGED <<disk, tables, calls, hit, phase, found, seen, met, counts, history>>

AfterDiscovery(root) ==
  CASE phase = "startup" -> Then(IF root = None THEN "orphan" ELSE "root") /\ UNCHANGED phase
    [] phase = "init" /\ root = None -> Then("idle") /\ phase' = "scan"
    [] phase = "scan" /\ root = None -> Then("list") /\ UNCHANGED phase
    [] OTHER -> Then("partition") /\ UNCHANGED phase

Discover ==
  /\ At("discover")
  /\ found' = IF disk = listed THEN listed ELSE None
  /\ listed' = None
  /\ AfterDiscovery(found')
  /\ UNCHANGED <<disk, tables, calls, hit, seen, met, counts, history>>

(* _purge_orphan_projects: the row and everything that hangs on it, the    *)
(* lock not among it.                                                      *)
PurgeOrphan ==
  /\ At("orphan")
  /\ row' = None /\ files' = "part"
  /\ StartPhase("init")
  /\ UNCHANGED <<disk, lock, calls, hit, counts, history>>

(* What is done with the project is done; its part of the phase ends. *)
Done ==
  IF phase = "init"
    THEN StartPhase("scan")
    ELSE Then("list") /\ found' = None /\ seen' = None /\ UNCHANGED <<phase, listed, met>>

(* What follows on a read of the row that has given the directory root:    *)
(* _mark_missing_files_for_project; partition_discovered_projects_by_db_   *)
(* soft_delete, which wants nothing of it; the comparison with the         *)
(* discovered root.                                                        *)
Proceed(root) ==
  \/ At("root") /\ root = None /\ StartPhase("init")
  \/ /\ At("root") /\ root # None
     /\ Then("mark") /\ seen' = root /\ found' = None /\ UNCHANGED <<phase, listed, met>>
  \/ /\ At("partition")
     /\ Then(IF phase = "init" THEN "get" ELSE "gate")
     /\ seen' = None /\ UNCHANGED <<phase, listed, found, met>>
  \/ At("get") /\ root = found /\ Done
  \/ /\ At("get") /\ root # found
     /\ Then(IF root = None THEN "insert" ELSE IF phase = "init" THEN "locked" ELSE "relocate")
     /\ seen' = None /\ UNCHANGED <<phase, listed, found, met>>

Reading == wpc \in Reads /\ seen = None

ReadRow ==
  /\ Reading /\ row \in {disk, None}
  /\ Proceed(row)
  /\ UNCHANGED <<disk, tables, calls, hit, counts, history>>

(* The directory is nowhere: initialize_watch_dirs and the reconciliation  *)
(* leave it at that, scan_watch_dir compares the name in the row.          *)
ReadInVain ==
  /\ Reading /\ row # None /\ disk = None
  /\ Proceed(IF At("root") THEN None ELSE IF phase = "init" THEN found ELSE row)
  /\ UNCHANGED <<disk, tables, calls, hit, counts, history>>

Search ==
  /\ Reading /\ RowIsStale
  /\ seen' = disk
  /\ UNCHANGED <<disk, tables, calls, hit, phase, wpc, listed, found, met, counts, history>>

ResyncRow ==
  /\ wpc \in Reads /\ seen # None
  /\ row' = Resynced(seen) /\ Written
  /\ Proceed(seen)
  /\ UNCHANGED <<disk, files, lock, calls, hit, counts>>

PartsOf == [all |-> Content, part |-> {"part"}]

(* What is found of the contents c of the directory dir, which may be gone *)
(* from there.                                                             *)
Remains(dir, c) == IF disk = dir THEN {c} ELSE PartsOf[c]

MarkMissing ==
  /\ At("mark")
  /\ files' \in Remains(seen, files)
  /\ StartPhase("init")
  /\ UNCHANGED <<disk, row, lock, calls, hit, counts, history>>

(* initialize_watch_dirs looks at the lock before it relocates. *)
Locked ==
  /\ At("locked")
  /\ IF lock = None
       THEN Then("relocate") /\ UNCHANGED <<phase, listed, found, seen, met>>
       ELSE Done
  /\ UNCHANGED <<disk, tables, calls, hit, counts, history>>

(* scan_watch_dir looks at it first, and takes the lease, which the lock   *)
(* or another worker may deny.                                             *)
Gate ==
  /\ At("gate")
  /\ IF lock = None
       THEN Then("acquire") /\ UNCHANGED <<found, met>>
       ELSE Then("list") /\ found' = None /\ met' = "skipped"
  /\ UNCHANGED <<disk, tables, calls, hit, phase, listed, seen, counts, history>>

AcquireLease ==
  /\ At("acquire")
  /\ \/ lock = None /\ Then("get") /\ met' = "known" /\ UNCHANGED found
     \/ Then("list") /\ found' = None /\ met' = "skipped"
  /\ UNCHANGED <<disk, tables, calls, hit, phase, listed, seen, counts, history>>

Relocate ==
  /\ At("relocate")
  /\ row' = Relocated(found) /\ Written
  /\ Done
  /\ UNCHANGED <<disk, files, lock, calls, hit, counts>>

Insert ==
  /\ At("insert")
  /\ row' = found /\ Written
  /\ Done
  /\ UNCHANGED <<disk, files, lock, calls, hit, counts>>

(* iter_watch_dir_project_scans lists the watch directory again ... *)
ListForWalk ==
  /\ At("list") /\ Then("visit")
  /\ listed' = disk
  /\ UNCHANGED <<disk, tables, calls, hit, phase, found, seen, met, counts, history>>

(* ... and walks the children that are still there when their turn comes. *)
Visit ==
  /\ At("visit")
  /\ Then(IF disk = listed /\ disk # None THEN "walk" ELSE "supplement")
  /\ UNCHANGED <<disk, tables, calls, hit, phase, listed, found, seen, met, counts, history>>

(* What is left of the project under the name that was listed is written   *)
(* to the table, unless the signature is as recorded, the lease is denied, *)
(* or there is no row.                                                     *)
Walk ==
  /\ At("walk")
  /\ \/ met # "skipped" /\ row # None /\ files' \in Remains(listed, "all")
     \/ UNCHANGED files
  /\ EndCycle
  /\ UNCHANGED <<disk, row, lock, calls, hit, counts, history>>

(* compute_supplemental_watch_dir_deltas, for a project that was discovered *)
(* and not visited: the row first, the directory it names later.            *)
Supplement ==
  /\ At("supplement")
  /\ IF met = "known" /\ row # None
       THEN seen' = row /\ Then("exists") /\ UNCHANGED <<phase, listed, found, met>>
       ELSE EndCycle
  /\ UNCHANGED <<disk, tables, calls, hit, counts, history>>

(* A part of the files may be none of them. *)
FilesOfRow ==
  /\ At("exists")
  /\ \/ (disk = seen \/ files = "part") /\ EndCycle
     \/ /\ disk # seen
        /\ Then("purge") /\ seen' = None /\ UNCHANGED <<phase, listed, found, met>>
  /\ UNCHANGED <<disk, tables, calls, hit, counts, history>>

(* queue_project_bulk_sync with no rows *)
Purge ==
  /\ At("purge")
  /\ files' = "part"
  /\ EndCycle
  /\ UNCHANGED <<disk, row, lock, calls, hit, counts, history>>

Reconcile == ListForDiscovery \/ Discover \/ PurgeOrphan \/ MarkMissing
ReadProject == ReadRow \/ ReadInVain \/ Search \/ ResyncRow
Register == Locked \/ Gate \/ AcquireLease \/ Relocate \/ Insert
WalkProject == ListForWalk \/ Visit \/ Walk \/ Supplement \/ FilesOfRow \/ Purge

Watch == Reconcile \/ ReadProject \/ Register \/ WalkProject

(* A failed lookup counts as not locked; a failed purge, resync, relocation *)
(* or insert is logged and the watcher goes on.                             *)
WatchStatementFails ==
  /\ Fault
  /\ \/ (At("orphan") \/ At("mark")) /\ StartPhase("init")
     \/ wpc \in Reads /\ seen # None /\ Proceed(seen)
     \/ (At("relocate") \/ At("insert")) /\ Done
     \/ /\ \/ At("locked") /\ Then("relocate") /\ UNCHANGED met
           \/ At("gate") /\ Then("acquire") /\ UNCHANGED met
           \/ At("acquire") /\ Then("get") /\ met' = "known"
        /\ UNCHANGED <<phase, listed, found, seen>>
  /\ UNCHANGED <<disk, tables, calls, hit, begun, history>>

WatcherDies ==
  /\ Fault
  /\ phase' = "startup" /\ Then("idle")
  /\ listed' = None /\ found' = None /\ seen' = None /\ met' = "unknown"
  /\ UNCHANGED <<disk, tables, calls, hit, begun, history>>
-----------------------------------------------------------------------------
Next ==
  \/ \E c \in Call : Begin(c) \/ Rename(c) \/ StatementFails(c)
  \/ ServerDies \/ EmergencyUnlock \/ DirectoryRemoved
  \/ ReaderFinds \/ ReaderResyncs
  \/ Watch \/ WatchStatementFails \/ WatcherDies

Spec == Init /\ [][Next]_vars

(* A command that has begun goes on, and so does the watcher's loop. Nobody *)
(* has to unlock anything, or to read the project.                          *)
FairSpec == Spec /\ WF_vars(Watch) /\ \A c \in Call : WF_vars(Rename(c))
-----------------------------------------------------------------------------
(* Two renames are never between their lock and its release at the same    *)
(* time, unless somebody has forced the lock; a rename that nobody forced  *)
(* still owns the row it will delete.                                      *)
OneRenameInside ==
  ~forced => \A c \in Call : pc[c] \in Inside => lock = c

(* When the row does not show where the directory is, the project is       *)
(* locked: no rename that fails or dies half-way, at any statement, lets   *)
(* go of it. Only an administrator, or a root that is written after the    *)
(* directory has left it, can part an unlocked project from its row.       *)
HalfDoneStaysLocked ==
  ~forced /\ ~late /\ RowIsStale => lock # None

(* Whatever fails, is purged or is written late, the row shows in the end  *)
(* where the directory is; it takes no administrator, even if a rename     *)
(* that has failed half-way keeps the project locked for good.             *)
RootIsHealed == <>[](disk \in {row, None})

(* Not a property of the code: after a failed update "the project remains  *)
(* locked pending manual/administrative reconciliation" (rename_project),  *)
(* so a row that does not show where the directory is should belong to a   *)
(* locked project, whoever has written it. TLC finds the search whose      *)
(* result is written when a rename has come and gone, and the discovered   *)
(* root that is.                                                           *)
StaleIsLocked == ~forced /\ RowIsStale => lock # None

(* Not a property of the code: startup reconciliation deletes the projects *)
(* that are "not on disk" (startup_reconciliation.py), so the directory of *)
(* the one it purges should be gone. TLC finds the rename that its listing *)
(* has missed.                                                             *)
PurgedIsGone == wpc = "orphan" => disk = None

(* Not a property of the code: compute_supplemental_watch_dir_deltas is     *)
(* there "so unvisited projects are not misclassified as deleted            *)
(* mid-cycle" (processor_delta.py), so only a project whose directory is    *)
(* gone should lose all its rows. TLC finds the rename that is missed by    *)
(* the second listing.                                                      *)
UnvisitedIsGone == wpc = "purge" => disk = None
=============================================================================
