---------------------------- MODULE SearchSession ----------------------------
(***************************************************************************)
(* One paginated search: the thread that searches and publishes its        *)
(* findings block by block (commands/search_paginated_cross.py,            *)
(* core/search_session/), the worker that greps for it, the commands that  *)
(* read, cancel and close it, and the cleaner.  They share nothing but the *)
(* files of the session's directory: a manifest, an index, the blocks and  *)
(* a buffer with one file per finding and the assembler's lock.            *)
(*                                                                         *)
(* An action is one access to a file that others may change; a file that   *)
(* is replaced by a rename is written at once.  The search thread runs an  *)
(* event loop: from one await to the next its tasks do not overlap, but    *)
(* the worker is a thread of its own.  Sizes are counted in findings, and  *)
(* the buffer is the set its directory is: list_findings sorts by a time   *)
(* that several files may share, so a block takes some of them.            *)
(***************************************************************************)
EXTENDS Integers, FiniteSets, FiniteSetsExt

CONSTANTS Fulltext, Semantic, Grep,  \* what each backend finds
          Requests,     \* sets of "semantic" and "grep": what a request enables
          Full,         \* max_block_size_bytes
          Page,         \* findings that fit into a block, or page_size
          MaxEvents     \* how often a client, the clock or a restart interferes
                        \* with each kind of request

Finding == Fulltext \cup Semantic \cup Grep

ASSUME FindingsAreDistinct ==
  /\ IsFiniteSet(Finding) /\ "lock" \notin Finding
  /\ Fulltext \cap Semantic = {} /\ Fulltext \cap Grep = {} /\ Semantic \cap Grep = {}
ASSUME PhasesAreKnown == Requests \subseteq SUBSET {"semantic", "grep"}
ASSUME SizesArePositive == Full \in Nat \ {0} /\ Page \in Nat \ {0}
ASSUME EventsAreCounted == MaxEvents \in [Requests -> Nat]

Agent == {"search", "worker"}   \* the thread of the search, the grep worker
Position == 1..(2 * Cardinality(Finding))   \* two threads may publish one twice

VARIABLES
  root, manifest, index, blocks,   \* the directory; manifest: its status
  bufdir, buffer, staged, locked,  \* its buffer; staged: .tmp files
  phases,                          \* what the request enables
  pc, job, waiting,                \* the agents; tasks that await a backend
  found,                           \* what has been put into the buffer
  sweep, closing, cancelling,      \* the cleaner and the clients
  stale, idle, alive,              \* heartbeat, last access, owner process
  cleared, dropped,                \* removed by the cleaner; findings a close removed
  crossed,                         \* the sources have not kept to their turns
  events                           \* how often somebody has interfered

tree == <<root, manifest, index, blocks>>
buf == <<bufdir, buffer, staged, locked>>
agents == <<phases, pc, job, waiting, found>>
clients == <<sweep, closing, cancelling>>
clock == <<stale, idle, alive>>
past == <<cleared, dropped, events>>
rest == <<phases, clients, clock, past>>
vars == <<tree, buf, agents, rest, crossed>>

NoIndex == [there |-> FALSE, listed |-> {}, finished |-> FALSE]
NoBlocks == [p \in Position |-> {}]

(* todo: findings to append.  final: search_completed.  list, pos: what    *)
(* run_once has read.  published: it has published something.              *)
NoJob == [task |-> "none", todo |-> {}, final |-> FALSE, list |-> {},
          pos |-> 1, published |-> FALSE]
Job == [task : {"none", "fulltext", "semantic", "grep", "last"}, todo : SUBSET Finding,
        final : BOOLEAN, list : SUBSET Finding, pos : Position \cup {1},
        published : BOOLEAN]

Locked == {"measure", "load", "write", "append index", "metrics", "remove",
           "finish", "delete", "release"}
Steps == {"idle", "provision", "manifest", "open", "await", "done", "over", "lost", "gone",
          "stage", "rename", "flush", "enter", "lock", "return", "failed"} \cup Locked

SessionOK ==
  /\ root \in BOOLEAN /\ bufdir \in BOOLEAN /\ locked \in BOOLEAN
  /\ manifest \in {"none", "running", "completed", "cancelled", "closed"}
  /\ index \in [there : BOOLEAN, listed : SUBSET Position, finished : BOOLEAN]
  /\ blocks \in [Position -> SUBSET Finding]
  /\ buffer \subseteq Finding /\ staged \subseteq Finding
  /\ pc \in [Agent -> Steps] /\ job \in [Agent -> Job]
  /\ phases \in Requests /\ waiting \subseteq phases /\ found \subseteq Finding
  /\ sweep \in BOOLEAN /\ cancelling \in BOOLEAN
  /\ closing \subseteq Finding \cup {"lock"}
  /\ stale \in BOOLEAN /\ idle \in BOOLEAN /\ alive \in BOOLEAN
  /\ cleared \in BOOLEAN /\ dropped \subseteq Finding
  /\ events \in Nat /\ events <= MaxEvents[phases]

TypeOK == SessionOK /\ crossed \in BOOLEAN

Init ==
  /\ phases \in Requests
  /\ root = FALSE /\ manifest = "none" /\ index = NoIndex /\ blocks = NoBlocks
  /\ bufdir = FALSE /\ buffer = {} /\ staged = {} /\ locked = FALSE
  /\ pc = [a \in Agent |-> IF a = "search" THEN "provision" ELSE "idle"]
  /\ job = [a \in Agent |-> NoJob] /\ waiting = {} /\ found = {}
  /\ sweep = FALSE /\ closing = {} /\ cancelling = FALSE
  /\ stale = FALSE /\ idle = FALSE /\ alive = TRUE
  /\ cleared = FALSE /\ dropped = {} /\ events = 0 /\ crossed = FALSE

-----------------------------------------------------------------------------
Goto(a, step) == pc' = [pc EXCEPT ![a] = step]

(* Writing a file makes the directories above it. *)
MakeBuffer == root' = TRUE /\ bufdir' = TRUE

RemoveAll ==
  /\ root' = FALSE /\ manifest' = "none" /\ index' = NoIndex /\ blocks' = NoBlocks
  /\ bufdir' = FALSE /\ buffer' = {} /\ staged' = {} /\ locked' = FALSE

(* An exception leaves run_once through release_lock.  In a batch of the   *)
(* worker it ends the grep of this pattern; in a task it ends the search,  *)
(* and the thread removes the whole session.                               *)
Fail(a) ==
  /\ Goto(a, "failed")
  /\ locked' = (locked /\ pc[a] \notin Locked)
  /\ UNCHANGED <<manifest, index, blocks, bufdir, buffer, staged, job, waiting, found>>

(* update_manifest_atomic without a manifest: opening the lock file makes  *)
(* the directory again, then FileNotFoundError.                            *)
FailWithoutManifest(a) == manifest = "none" /\ Fail(a) /\ root' = TRUE

(* The next task of an agent: findings to append, then a flush. *)
Begin(a, task, findings, final) ==
  /\ Goto(a, IF findings = {} THEN "flush" ELSE "stage")
  /\ job' = [job EXCEPT ![a] = [NoJob EXCEPT !.task = task, !.todo = findings,
                                             !.final = final]]

(* Early events are counted: while a thread of the search is at work, only *)
(* MaxEvents of them interfere.                                            *)
AtWork == pc["search"] \notin {"over", "lost", "gone"}

Event == events < MaxEvents[phases] /\ events' = events + 1

Interfere == (AtWork /\ Event) \/ (~AtWork /\ UNCHANGED events)

-----------------------------------------------------------------------------
(* The life of the search thread *)
Provision ==
  /\ pc["search"] = "provision"
  /\ MakeBuffer
  /\ Goto("search", "manifest")
  /\ UNCHANGED <<manifest, index, blocks, buffer, staged, locked, job, waiting, found, rest>>

WriteManifest ==
  /\ pc["search"] = "manifest"
  /\ root' = TRUE
  /\ manifest' = "running"
  /\ Goto("search", "open")
  /\ UNCHANGED <<index, blocks, buf, job, waiting, found, rest>>

(* A plausible slip: the first flush already finishes the index. *)
OpenBufferFinal ==
  /\ pc["search"] = "open"
  /\ MakeBuffer
  /\ idle' = FALSE
  /\ \E findings \in {{}, Fulltext} : Begin("search", "fulltext", findings, TRUE)
  /\ UNCHANGED <<manifest, index, blocks, buffer, staged, locked, phases, waiting, found,
                 clients, stale, alive, past>>

OpenBuffer ==
  /\ pc["search"] = "open"
  /\ MakeBuffer
  /\ idle' = FALSE
  /\ \E findings \in {{}, Fulltext} : Begin("search", "fulltext", findings, FALSE)
  /\ UNCHANGED <<manifest, index, blocks, buffer, staged, locked, phases, waiting, found,
                 clients, stale, alive, past>>

(* gather starts the tasks; the one for grep first updates the manifest. *)
StartTasks ==
  /\ pc["search"] = "done"
  /\ job["search"].task = "fulltext"
  /\ phases # {}
  /\ \/ "grep" \in phases /\ FailWithoutManifest("search")
     \/ /\ "grep" \in phases => manifest # "none"
        /\ waiting' = phases
        /\ IF "grep" \in phases
           THEN /\ pc' = [pc EXCEPT !["search"] = "await", !["worker"] = "stage"]
                /\ job' = [job EXCEPT !["worker"].todo = Grep]
           ELSE Goto("search", "await") /\ UNCHANGED job
        /\ UNCHANGED <<tree, buf, found>>
  /\ UNCHANGED rest

(* The backend answers, with nothing when it fails. *)
SemanticAnswers ==
  /\ pc["search"] = "await"
  /\ "semantic" \in waiting
  /\ \E findings \in {{}, Semantic} : Begin("search", "semantic", findings, FALSE)
  /\ UNCHANGED <<tree, buf, waiting, found, rest>>

(* The worker is through, or wait_for has given up on it after             *)
(* hard_timeout_seconds.                                                   *)
GrepEnds ==
  /\ pc["search"] = "await"
  /\ "grep" \in waiting
  /\ IF pc["worker"] \in {"done", "failed"} THEN UNCHANGED events ELSE Event
  /\ Begin("search", "grep", {}, TRUE)
  /\ UNCHANGED <<tree, buf, phases, waiting, found, clients, clock, cleared, dropped>>

(* A task is over; the one for semantic search updates the manifest. *)
EndTask ==
  /\ pc["search"] = "done"
  /\ job["search"].task \in {"semantic", "grep"}
  /\ \/ job["search"].task = "semantic" /\ FailWithoutManifest("search")
     \/ /\ job["search"].task = "semantic" => manifest # "none"
        /\ waiting' = waiting \ {job["search"].task}
        /\ Goto("search", "await")
        /\ UNCHANGED <<tree, buf, job, found>>
  /\ UNCHANGED rest

(* A plausible slip: the last flush is one like the others. *)
LastFlushPlain ==
  /\ "grep" \notin phases
  /\ \/ pc["search"] = "done" /\ job["search"].task = "fulltext" /\ phases = {}
     \/ pc["search"] = "await" /\ waiting = {}
  /\ Begin("search", "last", {}, FALSE)
  /\ UNCHANGED <<tree, buf, waiting, found, rest>>

(* Without a grep phase the search itself flushes for the last time. *)
LastFlush ==
  /\ "grep" \notin phases
  /\ \/ pc["search"] = "done" /\ job["search"].task = "fulltext" /\ phases = {}
     \/ pc["search"] = "await" /\ waiting = {}
  /\ Begin("search", "last", {}, TRUE)
  /\ UNCHANGED <<tree, buf, waiting, found, rest>>

Complete ==
  /\ \/ pc["search"] = "done" /\ job["search"].task = "last"
     \/ pc["search"] = "await" /\ waiting = {} /\ "grep" \in phases
  /\ \/ FailWithoutManifest("search")
     \/ /\ manifest # "none"
        /\ manifest' = "completed"
        /\ Goto("search", "over")
        /\ UNCHANGED <<root, index, blocks, buf, job, waiting, found>>
  /\ UNCHANGED rest

RemoveSession ==
  /\ pc["search"] = "failed"
  /\ RemoveAll
  /\ Goto("search", "lost")
  /\ UNCHANGED <<job, waiting, found, rest>>

-----------------------------------------------------------------------------
(* Findings enter the buffer one by one, in an order of their own. *)
Current(a) == CHOOSE f \in job[a].todo : TRUE

(* The worker counts the file first. *)
Stage(a) ==
  /\ pc[a] = "stage"
  /\ IF job[a].todo = {}
     THEN Goto(a, "done") /\ UNCHANGED <<tree, buf, job, waiting, found>>
     ELSE \/ a = "worker" /\ FailWithoutManifest(a)
          \/ (a = "worker" => manifest # "none") /\ ~bufdir /\ Fail(a) /\ UNCHANGED root
          \/ /\ a = "worker" => manifest # "none"
             /\ bufdir
             /\ staged' = staged \cup {Current(a)}
             /\ Goto(a, "rename")
             /\ UNCHANGED <<tree, bufdir, buffer, locked, job, waiting, found>>
  /\ UNCHANGED rest

(* The worker flushes after each file, a task after its last finding. *)
Rename(a) ==
  /\ pc[a] = "rename"
  /\ IF Current(a) \notin staged
     THEN Fail(a) /\ UNCHANGED root
     ELSE /\ staged' = staged \ {Current(a)}
          /\ buffer' = buffer \cup {Current(a)}
          /\ found' = found \cup {Current(a)}
          /\ job' = [job EXCEPT ![a].todo = @ \ {Current(a)}]
          /\ Goto(a, IF a = "worker" \/ job[a].todo = {Current(a)} THEN "flush" ELSE "stage")
          /\ UNCHANGED <<tree, bufdir, locked, waiting>>
  /\ UNCHANGED rest

(* _flush measures the buffer for its log line. *)
Flush(a) ==
  /\ pc[a] = "flush"
  /\ IF bufdir
     THEN Goto(a, "enter") /\ UNCHANGED <<tree, buf, job, waiting, found>>
     ELSE Fail(a) /\ UNCHANGED root
  /\ UNCHANGED rest

-----------------------------------------------------------------------------
(* run_once: nothing to do, or somebody assembles already *)
Enter(a) ==
  /\ pc[a] = "enter"
  /\ Goto(a, IF bufdir /\ ~index.finished /\ ~locked THEN "lock" ELSE "return")
  /\ job' = [job EXCEPT ![a].published = FALSE]
  /\ UNCHANGED <<tree, buf, waiting, found, rest>>

(* The lock file is written over whatever is there by now. *)
TakeLock(a) ==
  /\ pc[a] = "lock"
  /\ MakeBuffer
  /\ locked' = TRUE
  /\ Goto(a, "measure")
  /\ UNCHANGED <<manifest, index, blocks, buffer, staged, job, waiting, found, rest>>

Enough(a, findings) ==
  IF job[a].final THEN findings # {} ELSE Cardinality(findings) >= Full

(* A plausible slip: what does not fill a block is taken for nothing. *)
MeasureRoughly(a) ==
  /\ pc[a] = "measure"
  /\ IF ~bufdir
     THEN Fail(a)
     ELSE /\ Goto(a, IF Cardinality(buffer) >= Full THEN "load"
                     ELSE IF job[a].final THEN "finish" ELSE "release")
          /\ job' = [job EXCEPT ![a].list = buffer]
          /\ UNCHANGED <<manifest, index, blocks, buf, waiting, found>>
  /\ UNCHANGED <<root, rest>>

Measure(a) ==
  /\ pc[a] = "measure"
  /\ IF ~bufdir
     THEN Fail(a)
     ELSE /\ Goto(a, IF Enough(a, buffer) THEN "load"
                     ELSE IF job[a].final THEN "finish" ELSE "release")
          /\ job' = [job EXCEPT ![a].list = buffer]
          /\ UNCHANGED <<manifest, index, blocks, buf, waiting, found>>
  /\ UNCHANGED <<root, rest>>

Written == {p \in Position : blocks[p] # {}}

(* Plausible slip: the position of the highest block is used again. *)
HighestPosition == IF Written = {} THEN 1 ELSE Max(Written)

NextPosition == IF Written = {} THEN 1 ELSE Max(Written) + 1

(* A block takes at least one finding, and no more than fit. *)
Fits(findings) == {items \in SUBSET findings : items # {} /\ Cardinality(items) <= Page}

(* Every finding on the list is read, the blocks are counted, and the      *)
(* items of the next one are left on the list.                             *)
Load(a) ==
  /\ pc[a] = "load"
  /\ IF job[a].list \subseteq buffer
     THEN /\ Goto(a, "write")
          /\ \E items \in Fits(job[a].list) :
               job' = [job EXCEPT ![a].pos = NextPosition, ![a].list = items]
          /\ UNCHANGED <<manifest, index, blocks, buf, waiting, found>>
     ELSE Fail(a)
  /\ UNCHANGED <<root, rest>>

WriteBlock(a) ==
  /\ pc[a] = "write"
  /\ root' = TRUE
  /\ blocks' = [blocks EXCEPT ![job[a].pos] = job[a].list]
  /\ Goto(a, "append index")
  /\ UNCHANGED <<manifest, index, buf, job, waiting, found, rest>>

(* The new entry comes with the completeness "running". *)
AppendIndex(a) ==
  /\ pc[a] = "append index"
  /\ root' = TRUE
  /\ index' = [there |-> TRUE, finished |-> FALSE, listed |-> index.listed \cup {job[a].pos}]
  /\ Goto(a, "metrics")
  /\ UNCHANGED <<manifest, blocks, buf, job, waiting, found, rest>>

Metrics(a) ==
  /\ pc[a] = "metrics"
  /\ \/ FailWithoutManifest(a)
     \/ /\ manifest # "none"
        /\ Goto(a, "remove")
        /\ UNCHANGED <<tree, buf, job, waiting, found>>
  /\ UNCHANGED rest

(* A plausible slip: the first item stays. *)
RemoveButOne(a) ==
  /\ pc[a] = "remove"
  /\ IF ~bufdir
     THEN Fail(a)
     ELSE /\ buffer' = buffer \ (job[a].list \ {CHOOSE f \in job[a].list : TRUE})
          /\ job' = [job EXCEPT ![a].published = TRUE]
          /\ Goto(a, IF Enough(a, buffer') THEN "measure"
                     ELSE IF job[a].final THEN "finish" ELSE "release")
          /\ UNCHANGED <<manifest, index, blocks, bufdir, staged, locked, waiting, found>>
  /\ UNCHANGED <<root, rest>>

(* remove_findings, then another look at the volume *)
RemoveFindings(a) ==
  /\ pc[a] = "remove"
  /\ IF ~bufdir
     THEN Fail(a)
     ELSE /\ buffer' = buffer \ job[a].list
          /\ job' = [job EXCEPT ![a].published = TRUE]
          /\ Goto(a, IF Enough(a, buffer') THEN "measure"
                     ELSE IF job[a].final THEN "finish" ELSE "release")
          /\ UNCHANGED <<manifest, index, blocks, bufdir, staged, locked, waiting, found>>
  /\ UNCHANGED <<root, rest>>

Finish(a) ==
  /\ pc[a] = "finish"
  /\ root' = TRUE
  /\ index' = [index EXCEPT !.there = TRUE, !.finished = TRUE]
  /\ Goto(a, "delete")
  /\ UNCHANGED <<manifest, blocks, buf, job, waiting, found, rest>>

(* delete_buffer; rmdir fails when somebody has a .tmp file there. *)
DeleteBuffer(a) ==
  /\ pc[a] = "delete"
  /\ IF ~bufdir
     THEN Fail(a)
     ELSE /\ buffer' = {} /\ locked' = FALSE
          /\ bufdir' = (staged # {})
          /\ Goto(a, IF staged # {} THEN "failed" ELSE "return")
          /\ UNCHANGED <<manifest, index, blocks, staged, job, waiting, found>>
  /\ UNCHANGED <<root, rest>>

Release(a) ==
  /\ pc[a] = "release"
  /\ locked' = FALSE
  /\ Goto(a, "return")
  /\ UNCHANGED <<tree, bufdir, buffer, staged, job, waiting, found, rest>>

(* A plausible slip: run_until_idle goes on until the buffer is gone. *)
ReturnStubbornly(a) ==
  /\ pc[a] = "return"
  /\ Goto(a, IF bufdir THEN "enter"
             ELSE IF a = "worker" THEN "stage" ELSE "done")
  /\ UNCHANGED <<tree, buf, job, waiting, found, rest>>

(* run_until_idle: again, as long as something was published *)
Return(a) ==
  /\ pc[a] = "return"
  /\ Goto(a, IF job[a].published /\ (job[a].final => bufdir) THEN "enter"
             ELSE IF a = "worker" THEN "stage" ELSE "done")
  /\ UNCHANGED <<tree, buf, job, waiting, found, rest>>

-----------------------------------------------------------------------------
(* search_cancel: read the status, then write it *)
Cancel ==
  /\ ~cancelling
  /\ manifest = "running"
  /\ cancelling' = TRUE
  /\ Event
  /\ UNCHANGED <<tree, buf, agents, sweep, closing, clock, cleared, dropped>>

SetCancelled ==
  /\ cancelling
  /\ cancelling' = FALSE
  /\ root' = TRUE
  /\ manifest' = IF manifest = "none" THEN "none" ELSE "cancelled"
  /\ UNCHANGED <<index, blocks, buf, agents, sweep, closing, clock, past>>

(* search_close: the status, the access time, and every file of the buffer *)
Close ==
  /\ manifest # "none"
  /\ closing = {}
  /\ manifest' = "closed"
  /\ idle' = FALSE
  /\ closing' = buffer \cup staged \cup (IF locked THEN {"lock"} ELSE {})
  /\ Event
  /\ UNCHANGED <<root, index, blocks, buf, agents, sweep, cancelling, stale, alive,
                 cleared, dropped>>

Unlink(f) ==
  /\ f \in closing
  /\ closing' = closing \ {f}
  /\ dropped' = dropped \cup ({f} \cap (buffer \cup staged))
  /\ buffer' = buffer \ {f}
  /\ staged' = staged \ {f}
  /\ locked' = (locked /\ f # "lock")
  /\ UNCHANGED <<tree, bufdir, agents, sweep, cancelling, clock, cleared, events>>

(* search_get_page writes nothing but the time of the last access. *)
GetPage ==
  /\ idle
  /\ manifest # "closed"
  /\ Written # {}
  /\ idle' = FALSE
  /\ Event
  /\ UNCHANGED <<tree, buf, agents, clients, stale, alive, cleared, dropped>>

-----------------------------------------------------------------------------
(* SEARCH_HARD_TIMEOUT_SECONDS after the start; nothing refreshes the      *)
(* heartbeat before the end.  ttl_seconds after the last access.  The      *)
(* server is restarted, and the process of the session with it.            *)
Age ==
  /\ root /\ ~stale
  /\ stale' = TRUE
  /\ Interfere
  /\ UNCHANGED <<tree, buf, agents, clients, idle, alive, cleared, dropped>>

Rest ==
  /\ root /\ ~idle
  /\ idle' = TRUE
  /\ Interfere
  /\ UNCHANGED <<tree, buf, agents, clients, stale, alive, cleared, dropped>>

Restart ==
  /\ alive
  /\ alive' = FALSE
  /\ pc' = [a \in Agent |-> "gone"]
  /\ sweep' = FALSE /\ cancelling' = FALSE /\ closing' = {}
  /\ Event
  /\ UNCHANGED <<tree, buf, phases, job, waiting, found, stale, idle, cleared, dropped>>

(* A plausible slip: a directory without a manifest is none of its         *)
(* business.                                                               *)
ShouldDeleteKnown ==
  /\ manifest # "none"
  /\ \/ ~alive
     \/ manifest = "running" /\ stale
     \/ manifest # "running" /\ idle

ShouldDelete ==
  \/ manifest = "none"
  \/ ~alive
  \/ manifest = "running" /\ stale
  \/ manifest # "running" /\ idle

Sweep ==
  /\ root
  /\ ~sweep
  /\ ShouldDelete
  /\ sweep' = TRUE
  /\ UNCHANGED <<tree, buf, agents, closing, cancelling, clock, past>>

(* The rename takes the directory away at once. *)
Purge ==
  /\ sweep
  /\ sweep' = FALSE
  /\ RemoveAll
  /\ cleared' = (cleared \/ root)
  /\ UNCHANGED <<agents, closing, cancelling, clock, dropped, events>>

-----------------------------------------------------------------------------
Assemble(a) ==
  \/ Enter(a) \/ TakeLock(a) \/ Measure(a) \/ Load(a) \/ WriteBlock(a) \/ AppendIndex(a)
  \/ Metrics(a) \/ RemoveFindings(a) \/ Finish(a) \/ DeleteBuffer(a) \/ Release(a) \/ Return(a)

Work(a) == Stage(a) \/ Rename(a) \/ Flush(a) \/ Assemble(a)

Search ==
  \/ Provision \/ WriteManifest \/ OpenBuffer \/ StartTasks \/ SemanticAnswers \/ GrepEnds
  \/ EndTask \/ LastFlush \/ Complete \/ RemoveSession \/ Work("search")

(* Both threads append and assemble at the same time: the semantic backend *)
(* answers while the worker greps, or wait_for has given up on the worker. *)
(* Or the semantic backend answers after the last flush, which the phase   *)
(* for grep makes as soon as it is through.                                *)
Inside == {"stage", "rename", "flush", "enter", "lock", "return"} \cup Locked

Crossing ==
  /\ pc["search"] \in Inside
  /\ pc["worker"] \in Inside \/ (job["search"].task = "semantic" /\ index.finished)

History == crossed' = (crossed \/ Crossing')

Step ==
  \/ Search \/ Work("worker")
  \/ Cancel \/ SetCancelled \/ Close \/ \E f \in closing : Unlink(f)
  \/ GetPage \/ Age \/ Rest \/ Restart \/ Sweep \/ Purge

Next == Step /\ History

Spec == Init /\ [][Next]_vars

(* Threads and commands go on; the cleaner looks again and again; time     *)
(* passes when no client comes back.                                       *)
FairSpec ==
  /\ Spec
  /\ WF_vars(Search /\ History) /\ WF_vars(Work("worker") /\ History)
  /\ WF_vars(SetCancelled /\ History)
  /\ WF_vars((\E f \in closing : Unlink(f)) /\ History)
  /\ WF_vars(Rest /\ History) /\ WF_vars(Age /\ History)
  /\ WF_vars(Sweep /\ History) /\ WF_vars(Purge /\ History)

-----------------------------------------------------------------------------
(* What the assembler promises, it keeps as long as the sources keep to    *)
(* their turns (~crossed); with both backends enabled, or a worker past    *)
(* its deadline, they need not, and the code does not guarantee it then:   *)
(* the process that holds the assembler's lock may take it again, and a    *)
(* late source finds no buffer.                                            *)

(* No finding is on two pages (remove_findings after the block, under the  *)
(* assembler's lock).                                                      *)
PublishedOnce ==
  ~crossed => \A p, q \in Written : p # q => blocks[p] \cap blocks[q] = {}

(* A finished index lists pages with everything the search has found,      *)
(* except what a close has thrown away: a client that reads the listed     *)
(* pages has the whole result.                                             *)
FinishedIsComplete ==
  ~crossed /\ manifest # "none" /\ index.finished =>
    found \subseteq dropped \cup UNION {blocks[p] : p \in index.listed}

(* What is listed can be read: the block is written before its entry. *)
ListedIsReadable == ~crossed /\ manifest # "none" => index.listed \subseteq Written

(* A completed search has a finished index: a client that waits for the    *)
(* status does not wait for more pages in vain.                            *)
CompletedIsFinished ==
  ~crossed /\ manifest = "completed" /\ ~cleared => index.finished

(* A page never changes once it is there, and a finished index never       *)
(* grows, as long as the session exists ("immutable result blocks").       *)
PagesAreImmutable ==
  [][~crossed' /\ manifest' # "none" =>
       /\ \A p \in Written : blocks'[p] = blocks[p]
       /\ index.finished => index' = index]_vars

(* "search finished, meaning the listed blocks are final": the index is not *)
(* finished before the semantic backend has answered.                      *)
FinishedAfterEverySource ==
  manifest # "none" /\ index.finished => "semantic" \notin waiting

(* A search removes its own session only when the cleaner or a close has   *)
(* interfered or its sources have crossed: an exception of a backend, or   *)
(* one that finds nothing, is no reason.                                   *)
NotLostWithoutReason ==
  pc["search"] = "lost" => cleared \/ dropped # {} \/ crossed

(* The thread of a search ends, whatever clients and the cleaner do to its *)
(* files.                                                                  *)
SearchEnds == <>(pc["search"] \in {"over", "lost", "gone"})

(* No directory stays for ever, not even one that was made again by a late *)
(* write into a session that was removed.                                  *)
SessionIsCollected == root ~> ~root
=============================================================================
