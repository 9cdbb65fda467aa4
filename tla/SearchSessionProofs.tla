------------------------- MODULE SearchSessionProofs -------------------------
(***************************************************************************)
(* What holds of a search with any findings, sizes and interferences, as   *)
(* long as its sources have not crossed.  First the inductive invariant,   *)
(* then one lemma per action, the steps that fail apart from those that    *)
(* succeed, then the theorems.                                             *)
(***************************************************************************)
EXTENDS SearchSession, FiniteSetTheorems, WellFoundedInduction, TLAPS

Starting == {"provision", "manifest", "open"}
Publishing == {"append index", "metrics", "remove"}

Task == job["search"].task
Final == job["search"].final

(* The two threads: the worker is at work while the search awaits it.      *)
Turns ==
  /\ pc["worker"] \in Inside \cup {"idle", "done", "failed", "gone"}
  /\ pc["worker"] \in Inside => pc["search"] = "await" /\ Task = "fulltext"
  /\ pc["worker"] \in Inside \cup {"done", "failed"} => "grep" \in phases
  /\ ~job["worker"].final
  /\ pc["search"] \in Starting \cup {"await", "done", "over", "lost", "failed", "gone"} \cup Inside

(* The tasks of the search, and who waits for what. *)
Tasks ==
  /\ pc["search"] \in Starting => Task = "none" /\ waiting = {} /\ pc["worker"] = "idle"
  /\ pc["search"] \in Inside \cup {"done", "await"} =>
       /\ Task \in {"fulltext", "semantic", "grep", "last"}
       /\ Task = "semantic" => "semantic" \in phases
       /\ Task = "grep" => "grep" \in phases
       /\ Task = "last" => "grep" \notin phases
       /\ Final <=> Task \in {"grep", "last"}
  /\ pc["search"] = "await" =>
       \/ Task = "fulltext" /\ waiting = phases /\ phases # {}
       \/ Task \in {"semantic", "grep"} /\ Task \notin waiting
  /\ pc["search"] \in Inside \cup {"done"} =>
       /\ Task \in {"semantic", "grep"} => Task \in waiting
       /\ Task = "last" => waiting = {}
  /\ pc["search"] \in Inside \cup {"done"} /\ Task = "fulltext" => pc["worker"] = "idle"

(* The directory: nothing is in what is not there. *)
Tree ==
  /\ ~root => manifest = "none" /\ ~bufdir
  /\ ~bufdir => buffer = {} /\ staged = {}
  /\ manifest # "none" => pc["search"] \notin {"provision", "manifest"}
  /\ pc["search"] \in Starting =>
       /\ blocks = NoBlocks /\ index = NoIndex /\ found = {}
       /\ buffer = {} /\ staged = {}

(* The lock and a staged finding belong to an agent that is there. *)
Held ==
  pc["search"] # "gone" =>
    /\ locked => \E a \in Agent : pc[a] \in Locked
    /\ \A f \in staged : \E a \in Agent : pc[a] = "rename" /\ f = Current(a)

(* Findings come once: what is to be appended has not been found.  *)
Fresh ==
  /\ buffer \subseteq found /\ \A p \in Position : blocks[p] \subseteq found
  /\ \A a \in Agent : job[a].todo \cap found = {} /\ (pc[a] = "rename" => job[a].todo # {})
  /\ Task \in {"none", "fulltext"} => found \cap Semantic = {} /\ job["search"].todo \subseteq Fulltext
  /\ Task # "semantic" /\ "semantic" \in waiting => found \cap Semantic = {}
  /\ job["search"].todo \subseteq Fulltext \cup Semantic /\ job["worker"].todo \subseteq Grep
  /\ pc["worker"] = "idle" => found \cap Grep = {}

(* What an agent holds in its hands while it publishes a block. *)
Handling(a) ==
  /\ pc[a] \in {"load", "write"} \cup Publishing => job[a].list # {}
  /\ pc[a] \in {"write"} \cup Publishing => job[a].pos \in Position
  /\ pc[a] = "write" =>
       /\ job[a].list \subseteq found
       /\ \A p \in Position : job[a].list \cap blocks[p] = {}
       /\ manifest # "none" =>
            blocks[job[a].pos] = {} /\ \A p \in Position : p < job[a].pos => blocks[p] # {}
  /\ pc[a] \in Publishing =>
       /\ manifest # "none" => blocks[job[a].pos] = job[a].list
       /\ buffer \cap blocks[job[a].pos] \subseteq job[a].list
       /\ \A p \in Position \ {job[a].pos} : buffer \cap blocks[p] = {}

InHand == \A a \in Agent : Handling(a)

(* The rest of the buffer is on no page. *)
Unpublished ==
  \/ pc["search"] \in {"failed", "gone"}
  \/ \E a \in Agent : pc[a] \in Publishing
  \/ \A p \in Position : buffer \cap blocks[p] = {}

(* After the cleaner: the worker has nothing left to do, and one block at  *)
(* most is written into the new directory.                                 *)
Purged ==
  manifest = "none" =>
    /\ pc["worker"] \in Inside \cup {"done", "failed"} =>
         \/ buffer = {} /\ staged = {}
         \/ pc["search"] \in Inside \cup {"done"} /\ Task = "semantic"
         \/ pc["search"] \in {"failed", "gone"}
    /\ pc["worker"] \in {"load", "write"} \cup Publishing => ~bufdir
    /\ \/ \A p \in Position : blocks[p] = {}
       \/ \E a \in Agent :
            /\ pc[a] \in {"append index", "metrics"}
            /\ \A p \in Position \ {job[a].pos} : blocks[p] = {}
       \/ pc["worker"] = "failed" /\ ~bufdir /\ pc["search"] \in {"await", "stage", "flush", "done"}
       \/ pc["search"] \in {"failed", "gone"}

Contiguous ==
  manifest # "none" =>
    \A p, q \in Position : blocks[p] # {} /\ q < p => blocks[q] # {}

(* What is found is on its way. *)
Listing ==
  manifest # "none" =>
    /\ \A f \in found : f \in dropped \cup buffer \/ \E p \in index.listed : f \in blocks[p]
    /\ \A a \in Agent : pc[a] \in {"metrics", "remove"} => job[a].pos \in index.listed

(* The index is finished by the last task, with an empty buffer. *)
Finishing ==
  /\ pc["worker"] \notin {"finish", "delete"}
  /\ pc["search"] \in {"finish", "delete"} => Final /\ buffer = {}
  /\ pc["search"] \in {"stage", "rename", "release"} => ~Final
  /\ index.finished =>
       /\ buffer = {}
       /\ pc["worker"] \notin Inside
       /\ pc["search"] \in {"delete", "return", "done", "await", "over", "failed", "lost", "gone"}
       /\ pc["search"] \in {"delete", "return", "done", "await"} => Final
       /\ pc["search"] = "return" => ~bufdir

(* As long as the cleaner keeps away. *)
Undisturbed ==
  ~cleared =>
    /\ pc["search"] \notin {"provision", "manifest", "failed", "lost", "gone"} => manifest # "none"
    /\ pc["search"] \in Inside \cup {"done", "await"} =>
         IF Final /\ pc["search"] \in {"return", "done", "await"} THEN index.finished ELSE bufdir
    /\ pc["search"] = "delete" => index.finished
    /\ pc["search"] \in Inside \cup {"done", "await"} /\ Task = "semantic" =>
         phases \subseteq {"semantic"} \cup waiting
    /\ dropped = {} =>
         /\ pc["search"] = "rename" => Current("search") \in staged
         /\ pc["search"] = "load" => job["search"].list \subseteq buffer
         /\ pc["search"] \notin {"failed", "lost"}

IInv ==
  /\ crossed = FALSE
  /\ SessionOK /\ Turns /\ Tasks /\ Tree /\ Held /\ Fresh /\ InHand /\ Unpublished /\ Purged
  /\ Contiguous /\ Listing /\ Finishing /\ Undisturbed
  /\ PublishedOnce /\ ListedIsReadable /\ CompletedIsFinished

(* The sources have crossed, or the invariant holds. *)
Guarded == crossed \in BOOLEAN /\ (crossed = FALSE => IInv)

(* An agent that fails lets go of everything but its findings. *)
Fails(a) ==
  /\ Fail(a) /\ root' \in BOOLEAN /\ (root => root') /\ UNCHANGED rest
  /\ a = "search" => cleared \/ dropped # {}
  /\ pc[a] \in Inside \cup {"done"} \/ (pc[a] = "await" /\ waiting = {})
  /\ a = "worker" => pc[a] \in Inside /\ (pc[a] \in Publishing => ~bufdir)
  /\ pc[a] = "rename" => Current(a) \notin staged

(* A job with another field is a job. *)
LEMMA JobEdit ==
  ASSUME NEW j \in Job, NEW b \in BOOLEAN, NEW s \in SUBSET Finding, NEW p \in Position \cup {1}
  PROVE  /\ [j EXCEPT !.published = b] \in Job
         /\ [j EXCEPT !.todo = s] \in Job
         /\ [j EXCEPT !.list = s] \in Job
         /\ [j EXCEPT !.pos = p, !.list = s] \in Job
  BY DEF Job

(* What is enough for a block is something, and the rest of a last block   *)
(* is enough.                                                              *)
LEMMA EnoughIsSome ==
  ASSUME NEW a \in Agent, NEW findings
  PROVE  /\ Enough(a, findings) => findings # {}
         /\ job[a].final /\ ~Enough(a, findings) => findings = {}
  BY FS_EmptySet, SizesArePositive DEF Enough

(* A step that writes neither manifest nor index nor blocks keeps what is  *)
(* said of them.                                                           *)
LEMMA PagesUntouched ==
  ASSUME IInv, crossed' = FALSE, UNCHANGED <<manifest, index, blocks, cleared>>
  PROVE  (Contiguous /\ PublishedOnce /\ ListedIsReadable /\ CompletedIsFinished)'
<1>1. Written' = Written
  BY DEF Written
<1>2. crossed = FALSE /\ Contiguous /\ PublishedOnce /\ ListedIsReadable /\ CompletedIsFinished
  BY DEF IInv
<1>3. Contiguous'
  BY <1>2 DEF Contiguous
<1>4. PublishedOnce'
  BY <1>1, <1>2 DEF PublishedOnce
<1>5. ListedIsReadable'
  BY <1>1, <1>2 DEF ListedIsReadable
<1>6. CompletedIsFinished'
  BY <1>2 DEF CompletedIsFinished
<1>7. QED
  BY <1>3, <1>4, <1>5, <1>6

(* A step that fails keeps the invariant: the agent leaves its place, and  *)
(* at most the lock goes and the directory comes back.                     *)
LEMMA FailKeeps ==
  ASSUME IInv, crossed' = FALSE, NEW a \in Agent, Fails(a)
  PROVE  IInv'
<1>1. /\ pc' \in [Agent -> Steps] /\ pc'[a] = "failed"
      /\ \A b \in Agent \ {a} : pc'[b] = pc[b]
  BY DEF IInv, Fails, Goto, SessionOK, Steps, Fail
<1>2. UNCHANGED <<manifest, index, blocks, bufdir, buffer, staged, phases, job,
                  waiting, found, sweep, closing, cancelling, stale, idle, alive,
                  cleared, dropped, events>>
  BY DEF Fails, rest, clients, clock, past, Fail
<1>3. /\ a = "search" => cleared \/ dropped # {}
      /\ pc[a] \in Inside \cup {"done"} \/ (pc[a] = "await" /\ waiting = {})
      /\ a = "worker" => pc[a] \in Inside /\ (pc[a] \in Publishing => ~bufdir)
      /\ pc[a] = "rename" => Current(a) \notin staged
  BY DEF Fails
<1>4. root' \in BOOLEAN /\ (root => root')
  BY DEF Fails
<1>5. locked' \in BOOLEAN /\ (locked' => locked /\ pc[a] \notin Locked)
  BY DEF IInv, Fails, Goto, tree, buf, rest, clients, clock, past, Fail
<1>6. \A b \in Agent : Current(b)' = Current(b)
  BY <1>2 DEF Current
<1>7. (Contiguous /\ PublishedOnce /\ ListedIsReadable /\ CompletedIsFinished)'
  BY <1>2, PagesUntouched
<1>8. SessionOK'
  BY <1>1, <1>2, <1>4, <1>5 DEF IInv, SessionOK
<1>9. Turns'
  BY <1>1, <1>2, <1>3, <1>4, <1>5, <1>6
     DEF IInv, Turns, Tasks, Starting, Inside, Locked, Final, Task, Agent
<1>10. Tasks'
  BY <1>1, <1>2, <1>3, <1>4, <1>5, <1>6
     DEF IInv, Tasks, Turns, Starting, Inside, Locked, Final, Task, Agent
<1>11. Tree'
  BY <1>1, <1>2, <1>4 DEF IInv, Tree, Starting, Agent
<1>12. Held'
  <2> SUFFICES ASSUME pc'["search"] # "gone"
               PROVE  /\ locked' => \E b \in Agent : pc'[b] \in Locked
                      /\ \A f \in staged' : \E b \in Agent : pc'[b] = "rename" /\ f = Current(b)'
    BY DEF Held
  <2>1. pc["search"] # "gone"
    BY <1>1, <1>3 DEF Agent, Inside, Locked
  <2>2. locked' => \E b \in Agent : pc'[b] \in Locked
    BY <1>1, <1>2, <1>3, <1>5, <2>1 DEF IInv, Held, Locked
  <2>3. \A f \in staged' : \E b \in Agent : pc'[b] = "rename" /\ f = Current(b)'
    BY <1>1, <1>2, <1>3, <1>6, <2>1 DEF IInv, Held
  <2>4. QED
    BY <2>2, <2>3
<1>13. Fresh'
  BY <1>1, <1>2 DEF IInv, Fresh, Task, Agent
<1>14. InHand'
  <2>1. Handling(a)'
    BY <1>1, <1>2, <1>3, <1>4, <1>5, <1>6 DEF IInv, InHand, Handling, Turns, Publishing, Agent
  <2>2. ASSUME NEW b \in Agent \ {a}
        PROVE  Handling(b)'
    BY <1>1, <1>2 DEF IInv, InHand, Handling
  <2>3. QED
    BY <2>1, <2>2 DEF InHand
<1>15. Unpublished'
  BY <1>1, <1>2, <1>3 DEF IInv, Unpublished, Agent, Tree
<1>16. Purged'
  BY <1>1, <1>2, <1>3, <1>4, <1>5, <1>6
     DEF IInv, Purged, Turns, Inside, Locked, Publishing, Agent, Task
<1>17. Listing'
  BY <1>1, <1>2 DEF IInv, Listing
<1>18. Finishing'
  BY <1>1, <1>2, <1>3 DEF IInv, Finishing, Final, Agent, Inside, Locked
<1>19. Undisturbed'
  BY <1>1, <1>2, <1>3, <1>4, <1>5, <1>6
     DEF IInv, Undisturbed, Turns, Tasks, Inside, Locked, Final, Task, Agent, Tree
<1>20. QED
  BY <1>7, <1>8, <1>9, <1>10, <1>11, <1>12, <1>13, <1>14, <1>15, <1>16, <1>17, <1>18, <1>19
     DEF IInv

(* _flush finds its buffer. *)
LEMMA FlushKeeps ==
  ASSUME IInv, crossed' = FALSE, NEW a \in Agent, bufdir, Flush(a)
  PROVE  IInv'
<1>1. /\ pc' \in [Agent -> Steps] /\ pc'[a] = "enter"
      /\ \A b \in Agent \ {a} : pc'[b] = pc[b]
  BY DEF IInv, Flush, Goto, SessionOK, Steps
<1>2. UNCHANGED <<root, manifest, index, blocks, bufdir, buffer, staged, locked,
                  phases, job, waiting, found, sweep, closing, cancelling, stale,
                  idle, alive, cleared, dropped, events>>
  BY DEF Flush, tree, buf, rest, clients, clock, past
<1>3. pc[a] = "flush"
  BY DEF Flush
<1>4. \A b \in Agent : Current(b)' = Current(b)
  BY DEF Flush, Current
<1>5. (Contiguous /\ PublishedOnce /\ ListedIsReadable /\ CompletedIsFinished)'
  BY <1>2, PagesUntouched
<1>6. SessionOK'
  BY <1>1, <1>2 DEF IInv, SessionOK
<1>7. Turns'
  BY <1>1, <1>2, <1>3 DEF IInv, Turns, Inside, Task, Agent
<1>8. Tasks'
  BY <1>1, <1>2, <1>3 DEF IInv, Tasks, Turns, Starting, Final, Task, Agent
<1>9. Tree'
  BY <1>1, <1>2 DEF IInv, Tree, Starting, Agent
<1>10. Held'
  BY <1>1, <1>2, <1>3, <1>4 DEF IInv, Held, Turns, Inside, Locked, Agent
<1>11. Fresh'
  BY <1>1, <1>2 DEF IInv, Fresh, Task, Agent
<1>12. InHand'
  <2>1. Handling(a)'
    BY <1>1 DEF Handling, Publishing
  <2>2. ASSUME NEW b \in Agent \ {a}
        PROVE  Handling(b)'
    BY <1>1, <1>2 DEF IInv, InHand, Handling
  <2>3. QED
    BY <2>1, <2>2 DEF InHand
<1>13. Unpublished'
  BY <1>1, <1>2, <1>3, <1>4 DEF IInv, Unpublished, Turns, Inside, Locked, Publishing, Agent
<1>14. Purged'
  BY <1>1, <1>2, <1>3, <1>4 DEF IInv, Purged, Turns, Inside, Locked, Publishing, Agent, Task
<1>15. Listing'
  BY <1>1, <1>2 DEF IInv, Listing
<1>16. Finishing'
  BY <1>1, <1>2, <1>3 DEF IInv, Finishing, Turns, Agent, Inside, Locked, Final
<1>17. Undisturbed'
  BY <1>1, <1>2, <1>3 DEF IInv, Undisturbed, Turns, Final, Agent, Task, Inside, Locked
<1>18. QED
  BY <1>5, <1>6, <1>7, <1>8, <1>9, <1>10, <1>11, <1>12, <1>13, <1>14, <1>15, <1>16, <1>17
     DEF IInv

(* run_once begins. The lock is free (Held, Turns), so an agent that turns *)
(* away has met a finished index or no buffer.                             *)
LEMMA EnterKeeps ==
  ASSUME IInv, crossed' = FALSE, NEW a \in Agent, Enter(a)
  PROVE  IInv'
<1>1. /\ pc' \in [Agent -> Steps] /\ pc'[a] \in {"lock", "return"}
      /\ \A b \in Agent \ {a} : pc'[b] = pc[b]
  BY DEF IInv, Enter, Goto, SessionOK, Steps
<1>2. UNCHANGED <<root, manifest, index, blocks, bufdir, buffer, staged, locked,
                  phases, waiting, found, sweep, closing, cancelling, stale, idle,
                  alive, cleared, dropped, events>>
  BY DEF Enter, tree, buf, rest, clients, clock, past
<1>3. pc[a] = "enter"
  BY DEF Enter
<1>4. bufdir /\ ~index.finished /\ ~locked => pc'[a] = "lock"
  BY DEF IInv, Enter, Goto, SessionOK
<1>5. job \in [Agent -> Job] /\ job' = [job EXCEPT ![a].published = FALSE]
  BY DEF IInv, Enter, SessionOK
<1>6. [job[a] EXCEPT !.published = FALSE] \in Job
  BY <1>5, JobEdit DEF IInv, Enter, Goto, tree, buf, rest, clients, clock, past, SessionOK
<1>7. job' \in [Agent -> Job] /\ \A b \in Agent \ {a} : job'[b] = job[b]
  BY <1>5, <1>6
<1>8. \A b \in Agent :
        /\ job'[b].task = job[b].task /\ job'[b].todo = job[b].todo /\ job'[b].final = job[b].final
        /\ job'[b].list = job[b].list /\ job'[b].pos = job[b].pos
  BY <1>5
<1>9. \A b \in Agent : Current(b)' = Current(b)
  BY DEF Enter, Current
<1>10. (Contiguous /\ PublishedOnce /\ ListedIsReadable /\ CompletedIsFinished)'
  BY <1>2, PagesUntouched
<1>11. SessionOK'
  BY <1>1, <1>2, <1>7 DEF IInv, SessionOK
<1>12. Turns'
  BY <1>1, <1>2, <1>3, <1>8 DEF IInv, Turns, Inside, Task, Agent
<1>13. Tasks'
  BY <1>1, <1>2, <1>3, <1>8 DEF IInv, Tasks, Turns, Starting, Final, Task, Agent
<1>14. Tree'
  BY <1>1, <1>2 DEF IInv, Tree, Starting, Agent
<1>15. Held'
  BY <1>1, <1>2, <1>3, <1>4, <1>9 DEF IInv, Held, Inside, Locked, Agent
<1>16. Fresh'
  BY <1>1, <1>2, <1>8 DEF IInv, Fresh, Task, Agent
<1>17. InHand'
  <2>1. Handling(a)'
    BY <1>1, <1>2, <1>3, <1>4, <1>7, <1>8, <1>9
       DEF IInv, InHand, Handling, Turns, Publishing, Agent
  <2>2. ASSUME NEW b \in Agent \ {a}
        PROVE  Handling(b)'
    BY <1>1, <1>2, <1>7 DEF IInv, InHand, Handling
  <2>3. QED
    BY <2>1, <2>2 DEF InHand
<1>18. Unpublished'
  BY <1>1, <1>2, <1>3, <1>4, <1>7, <1>8, <1>9
     DEF IInv, Unpublished, Turns, Inside, Locked, Publishing, Agent
<1>19. Purged'
  BY <1>1, <1>2, <1>3, <1>4, <1>7, <1>8, <1>9
     DEF IInv, Purged, Turns, Inside, Locked, Publishing, Agent, Task
<1>20. Listing'
  BY <1>1, <1>2, <1>8 DEF IInv, Listing
<1>21. Finishing'
  BY <1>1, <1>2, <1>3 DEF IInv, Finishing, Turns, Agent, Inside, Locked, Final
<1>22. Undisturbed'
  BY <1>1, <1>2, <1>3, <1>4, <1>7, <1>8, <1>9
     DEF IInv, Undisturbed, Turns, Tasks, Inside, Locked, Final, Task, Agent, Tree, Finishing, Held
<1>23. QED
  BY <1>10, <1>11, <1>12, <1>13, <1>14, <1>15, <1>16, <1>17, <1>18, <1>19, <1>20, <1>21, <1>22
     DEF IInv

(* The lock is written; a directory that comes back with it is empty. *)
LEMMA TakeLockKeeps ==
  ASSUME IInv, crossed' = FALSE, NEW a \in Agent, TakeLock(a)
  PROVE  IInv'
<1>1. /\ pc' \in [Agent -> Steps] /\ pc'[a] = "measure"
      /\ \A b \in Agent \ {a} : pc'[b] = pc[b]
  BY DEF IInv, TakeLock, Goto, tree, buf, rest, clients, clock, past, SessionOK, Steps, Locked
<1>2. UNCHANGED <<manifest, index, blocks, buffer, staged, phases, job, waiting,
                  found, sweep, closing, cancelling, stale, idle, alive, cleared,
                  dropped, events>>
  BY DEF TakeLock, rest, clients, clock, past
<1>3. pc[a] = "lock"
  BY DEF TakeLock
<1>4. root' = TRUE /\ bufdir' = TRUE /\ locked' = TRUE
  BY DEF TakeLock, MakeBuffer
<1>5. \A b \in Agent : Current(b)' = Current(b)
  BY DEF TakeLock, Current
<1>6. (Contiguous /\ PublishedOnce /\ ListedIsReadable /\ CompletedIsFinished)'
  BY <1>2, PagesUntouched
<1>7. SessionOK'
  BY <1>1, <1>2, <1>4 DEF IInv, SessionOK
<1>8. Turns'
  BY <1>1, <1>2, <1>3, <1>4, <1>5
     DEF IInv, Turns, Tasks, Starting, Inside, Locked, Final, Task, Agent
<1>9. Tasks'
  BY <1>1, <1>2, <1>3 DEF IInv, Tasks, Turns, Starting, Final, Task, Agent
<1>10. Tree'
  BY <1>1, <1>2, <1>4 DEF IInv, Tree, Starting, Agent
<1>11. Held'
  BY <1>1, <1>2, <1>3, <1>4, <1>5 DEF IInv, Held, Turns, Inside, Locked, Agent
<1>12. Fresh'
  BY <1>1, <1>2 DEF IInv, Fresh, Task, Agent
<1>13. InHand'
  <2>1. Handling(a)'
    BY <1>1 DEF Handling, Publishing
  <2>2. ASSUME NEW b \in Agent \ {a}
        PROVE  Handling(b)'
    BY <1>1, <1>2 DEF IInv, InHand, Handling
  <2>3. QED
    BY <2>1, <2>2 DEF InHand
<1>14. Unpublished'
  BY <1>1, <1>2, <1>3, <1>4, <1>5
     DEF IInv, Unpublished, Turns, Inside, Locked, Publishing, Agent
<1>15. Purged'
  BY <1>1, <1>2, <1>3, <1>4, <1>5 DEF IInv, Purged, Turns, Inside, Locked, Publishing, Agent, Task
<1>16. Listing'
  BY <1>1, <1>2 DEF IInv, Listing
<1>17. Finishing'
  BY <1>1, <1>2, <1>3 DEF IInv, Finishing, Inside, Final, Agent, Locked
<1>18. Undisturbed'
  BY <1>1, <1>2, <1>3, <1>4, <1>5 DEF IInv, Undisturbed, Final, Agent, Task, Inside, Locked
<1>19. QED
  BY <1>6, <1>7, <1>8, <1>9, <1>10, <1>11, <1>12, <1>13, <1>14, <1>15, <1>16, <1>17, <1>18
     DEF IInv

(* The volume decides: the list is not empty when a block is due, and the  *)
(* buffer is when the last flush goes on to finish the index.              *)
LEMMA MeasureKeeps ==
  ASSUME IInv, crossed' = FALSE, NEW a \in Agent, bufdir, Measure(a)
  PROVE  IInv'
<1>1. /\ pc' \in [Agent -> Steps] /\ pc'[a] \in {"load", "finish", "release"}
      /\ \A b \in Agent \ {a} : pc'[b] = pc[b]
  BY DEF IInv, Measure, Goto, tree, buf, rest, clients, clock, past, SessionOK, Steps, Locked
<1>2. UNCHANGED <<root, manifest, index, blocks, bufdir, buffer, staged, locked,
                  phases, waiting, found, sweep, closing, cancelling, stale, idle,
                  alive, cleared, dropped, events>>
  BY DEF Measure, buf, rest, clients, clock, past
<1>3. pc[a] = "measure"
  BY DEF Measure
<1>4. /\ pc'[a] = "load" => buffer # {}
      /\ pc'[a] = "finish" => job[a].final /\ buffer = {}
      /\ pc'[a] = "release" => ~job[a].final
  BY EnoughIsSome DEF IInv, Measure, Goto, SessionOK
<1>5. job'[a].list = buffer
  BY DEF IInv, Measure, SessionOK, Job
<1>6. job \in [Agent -> Job] /\ job' = [job EXCEPT ![a].list = buffer]
  BY DEF IInv, Measure, SessionOK
<1>7. [job[a] EXCEPT !.list = buffer] \in Job
  BY <1>6, JobEdit DEF IInv, Measure, Goto, tree, buf, rest, clients, clock, past, SessionOK
<1>8. job' \in [Agent -> Job] /\ \A b \in Agent \ {a} : job'[b] = job[b]
  BY <1>6, <1>7
<1>9. \A b \in Agent :
        /\ job'[b].task = job[b].task /\ job'[b].todo = job[b].todo /\ job'[b].final = job[b].final
        /\ job'[b].pos = job[b].pos /\ job'[b].published = job[b].published
  BY <1>6
<1>10. \A b \in Agent : Current(b)' = Current(b)
  BY <1>9 DEF Current
<1>11. (Contiguous /\ PublishedOnce /\ ListedIsReadable /\ CompletedIsFinished)'
  BY <1>2, PagesUntouched
<1>12. SessionOK'
  BY <1>1, <1>2, <1>8 DEF IInv, SessionOK
<1>13. Turns'
  BY <1>1, <1>2, <1>3, <1>9 DEF IInv, Turns, Inside, Locked, Task, Agent
<1>14. Tasks'
  BY <1>1, <1>2, <1>3, <1>9 DEF IInv, Tasks, Turns, Starting, Final, Task, Agent
<1>15. Tree'
  BY <1>1, <1>2 DEF IInv, Tree, Starting, Agent
<1>16. Held'
  <2> SUFFICES ASSUME pc'["search"] # "gone"
               PROVE  /\ locked' => \E b \in Agent : pc'[b] \in Locked
                      /\ \A f \in staged' : \E b \in Agent : pc'[b] = "rename" /\ f = Current(b)'
    BY DEF Held
  <2>1. pc["search"] # "gone"
    BY <1>1, <1>3 DEF Agent
  <2>2. locked' => \E b \in Agent : pc'[b] \in Locked
    BY <1>1, <1>2, <1>3, <2>1 DEF IInv, Held, Locked
  <2>3. \A f \in staged' : \E b \in Agent : pc'[b] = "rename" /\ f = Current(b)'
    BY <1>1, <1>2, <1>3, <1>10, <2>1 DEF IInv, Held
  <2>4. QED
    BY <2>2, <2>3
<1>17. Fresh'
  BY <1>1, <1>2, <1>9 DEF IInv, Fresh, Task, Agent
<1>18. InHand'
  <2>1. Handling(a)'
    BY <1>1, <1>2, <1>3, <1>4, <1>5, <1>8, <1>9, <1>10
       DEF IInv, InHand, Handling, Turns, Publishing, Agent
  <2>2. ASSUME NEW b \in Agent \ {a}
        PROVE  Handling(b)'
    BY <1>1, <1>2, <1>8 DEF IInv, InHand, Handling
  <2>3. QED
    BY <2>1, <2>2 DEF InHand
<1>19. Unpublished'
  BY <1>1, <1>2, <1>3, <1>4, <1>5, <1>8, <1>9, <1>10
     DEF IInv, Unpublished, Turns, Inside, Locked, Publishing, Agent
<1>20. Purged'
  BY <1>1, <1>2, <1>3, <1>4, <1>5, <1>8, <1>9, <1>10
     DEF IInv, Purged, Turns, Inside, Locked, Publishing, Agent, Task
<1>21. Listing'
  BY <1>1, <1>2, <1>9 DEF IInv, Listing
<1>22. Finishing'
  BY <1>1, <1>2, <1>3, <1>4, <1>9 DEF IInv, Finishing, Turns, Final, Agent, Inside, Locked
<1>23. Undisturbed'
  BY <1>1, <1>2, <1>3, <1>5, <1>9 DEF IInv, Undisturbed, Turns, Final, Agent, Task, Inside, Locked
<1>24. QED
  BY <1>11, <1>12, <1>13, <1>14, <1>15, <1>16, <1>17, <1>18, <1>19, <1>20, <1>21, <1>22, <1>23
     DEF IInv

(* The block goes to a free place, so no page changes, and what is on it   *)
(* is on no other page.                                                    *)
LEMMA WriteBlockKeeps ==
  ASSUME IInv, crossed' = FALSE, NEW a \in Agent, WriteBlock(a)
  PROVE  IInv'
<1>1. /\ pc' \in [Agent -> Steps] /\ pc'[a] = "append index"
      /\ \A b \in Agent \ {a} : pc'[b] = pc[b]
  BY DEF IInv, WriteBlock, Goto, SessionOK, Steps, Locked
<1>2. UNCHANGED <<manifest, index, bufdir, buffer, staged, locked, phases, job,
                  waiting, found, sweep, closing, cancelling, stale, idle, alive,
                  cleared, dropped, events>>
  BY DEF WriteBlock, buf, rest, clients, clock, past
<1>3. pc[a] = "write"
  BY DEF WriteBlock
<1>4. root' = TRUE
  BY DEF WriteBlock
<1>5. SessionOK /\ pc' \in [Agent -> Steps]
  BY <1>1 DEF IInv
<1>6. job[a].pos \in Position /\ job[a].list # {} /\ job[a].list \subseteq found /\ job[a].list \subseteq Finding
  BY <1>3 DEF IInv, SessionOK, Job, InHand, Handling
<1>7. blocks'[job[a].pos] = job[a].list /\ \A p \in Position \ {job[a].pos} : blocks'[p] = blocks[p]
  BY <1>6 DEF IInv, WriteBlock, SessionOK
<1>8. blocks \in [Position -> SUBSET Finding] /\ blocks' = [blocks EXCEPT ![job[a].pos] = job[a].list]
  BY DEF IInv, WriteBlock, SessionOK
<1>9. blocks' \in [Position -> SUBSET Finding]
  BY <1>6, <1>8
<1>10. manifest # "none" => \A p \in Position : blocks[p] # {} => blocks'[p] = blocks[p]
  BY <1>3, <1>7 DEF IInv, InHand, Handling
<1>11. \A p \in Position : job[a].list \cap blocks[p] = {}
  BY <1>3 DEF IInv, InHand, Handling
<1>12. manifest # "none" => \A p \in Position : p < job[a].pos => blocks[p] # {}
  BY <1>3 DEF IInv, InHand, Handling
<1>13. \A b \in Agent : Current(b)' = Current(b)
  BY <1>2 DEF Current
<1>14. SessionOK'
  <2>1. (/\ root \in BOOLEAN /\ bufdir \in BOOLEAN /\ locked \in BOOLEAN
         /\ manifest \in {"none", "running", "completed", "cancelled", "closed"}
         /\ index \in [there : BOOLEAN, listed : SUBSET Position, finished : BOOLEAN]
         /\ buffer \subseteq Finding /\ staged \subseteq Finding
         /\ pc \in [Agent -> Steps] /\ job \in [Agent -> Job]
         /\ phases \in Requests /\ waiting \subseteq phases /\ found \subseteq Finding
         /\ sweep \in BOOLEAN /\ cancelling \in BOOLEAN
         /\ closing \subseteq Finding \cup {"lock"}
         /\ stale \in BOOLEAN /\ idle \in BOOLEAN /\ alive \in BOOLEAN
         /\ cleared \in BOOLEAN /\ dropped \subseteq Finding /\ events \in Nat
         /\ events <= MaxEvents[phases])'
    BY <1>5, <1>2, <1>4 DEF SessionOK
  <2>2. QED
    BY <2>1, <1>9, Zenon DEF SessionOK
<1>15. Turns'
  BY <1>1, <1>2, <1>3 DEF IInv, Turns, Inside, Locked, Task, Agent
<1>16. Tasks'
  BY <1>1, <1>2, <1>3 DEF IInv, Tasks, Turns, Starting, Inside, Locked, Final, Task, Agent
<1>17. Tree'
  BY <1>1, <1>2, <1>3, <1>4 DEF IInv, Tree, Turns, Inside, Locked, Starting, Agent
<1>18. Held'
  <2> SUFFICES ASSUME pc'["search"] # "gone"
               PROVE  /\ locked' => \E b \in Agent : pc'[b] \in Locked
                      /\ \A f \in staged' : \E b \in Agent : pc'[b] = "rename" /\ f = Current(b)'
    BY DEF Held
  <2>1. pc["search"] # "gone"
    BY <1>1, <1>3 DEF Agent
  <2>2. locked' => \E b \in Agent : pc'[b] \in Locked
    BY <1>1, <1>2, <1>3, <2>1 DEF IInv, Held, Locked
  <2>3. \A f \in staged' : \E b \in Agent : pc'[b] = "rename" /\ f = Current(b)'
    BY <1>1, <1>2, <1>3, <1>13, <2>1 DEF IInv, Held
  <2>4. QED
    BY <2>2, <2>3
<1>19. Fresh'
  BY <1>1, <1>2, <1>3, <1>6, <1>7 DEF IInv, Fresh, Task, Agent
<1>20. InHand'
  <2>1. Handling(a)'
    BY <1>1, <1>2, <1>3, <1>6, <1>7, <1>11
       DEF IInv, InHand, Handling, Publishing, Unpublished, Turns, Inside, Locked, Agent
  <2>2. ASSUME NEW b \in Agent \ {a}
        PROVE  Handling(b)'
    BY <2>2, <1>1, <1>2, <1>3, <1>6, <1>7
       DEF IInv, InHand, Handling, Turns, Inside, Locked, Publishing, Agent
  <2>3. QED
    BY <2>1, <2>2 DEF InHand
<1>21. Unpublished'
  BY <1>1, <1>2 DEF IInv, Unpublished, Publishing, Agent
<1>22. Purged'
  BY <1>1, <1>2, <1>3, <1>7 DEF IInv, Purged, Turns, Inside, Locked, Publishing, Agent, Task
<1>23. Contiguous'
  BY <1>2, <1>6, <1>7, <1>12 DEF IInv, Contiguous
<1>24. Listing'
  BY <1>1, <1>2, <1>3, <1>10 DEF IInv, Listing, SessionOK, Agent
<1>25. Finishing'
  BY <1>1, <1>2, <1>3 DEF IInv, Finishing, Turns, Inside, Locked, Final, Agent
<1>26. Undisturbed'
  BY <1>1, <1>2, <1>3, <1>4, <1>13 DEF IInv, Undisturbed, Turns, Tasks, Inside, Locked, Final, Task, Agent, Tree
<1>27. PublishedOnce'
  BY <1>7, <1>11 DEF IInv, PublishedOnce, Written
<1>28. ListedIsReadable'
  BY <1>2, <1>10 DEF IInv, ListedIsReadable, Written
<1>29. CompletedIsFinished'
  BY <1>2 DEF IInv, CompletedIsFinished
<1>30. QED
  BY <1>14, <1>15, <1>16, <1>17, <1>18, <1>19, <1>20, <1>21, <1>22, <1>23, <1>24, <1>25,
    <1>26, <1>27, <1>28, <1>29 DEF IInv

(* The block that is listed has been written. *)
LEMMA AppendIndexKeeps ==
  ASSUME IInv, crossed' = FALSE, NEW a \in Agent, AppendIndex(a)
  PROVE  IInv'
<1>1. /\ pc' \in [Agent -> Steps] /\ pc'[a] = "metrics"
      /\ \A b \in Agent \ {a} : pc'[b] = pc[b]
  BY DEF IInv, AppendIndex, Goto, SessionOK, Steps, Locked
<1>2. UNCHANGED <<manifest, blocks, bufdir, buffer, staged, locked, phases, job,
                  waiting, found, sweep, closing, cancelling, stale, idle, alive,
                  cleared, dropped, events>>
  BY DEF AppendIndex, tree, buf, rest, clients, clock, past
<1>3. pc[a] = "append index"
  BY DEF AppendIndex
<1>4. root' = TRUE /\ index' = [there |-> TRUE, finished |-> FALSE, listed |-> index.listed \cup {job[a].pos}]
  BY DEF AppendIndex
<1>5. job[a].pos \in Position /\ job[a].list # {}
  BY <1>3 DEF IInv, InHand, Handling, Publishing
<1>6. index.listed \cup {job[a].pos} \in SUBSET Position
  BY <1>5 DEF IInv, SessionOK
<1>7. \A l \in SUBSET Position :
        [there |-> TRUE, finished |-> FALSE, listed |-> l] \in
           [there : BOOLEAN, listed : SUBSET Position, finished : BOOLEAN]
  OBVIOUS
<1>8. index' \in [there : BOOLEAN, listed : SUBSET Position, finished : BOOLEAN]
  BY <1>4, <1>6
<1>9. \A b \in Agent : Current(b)' = Current(b)
  BY <1>2 DEF Current
<1>10. (Contiguous /\ PublishedOnce)'
  BY <1>2 DEF IInv, Contiguous, PublishedOnce, Written
<1>11. SessionOK'
  BY <1>1, <1>2, <1>4, <1>8 DEF IInv, SessionOK
<1>12. Turns'
  BY <1>1, <1>2, <1>3 DEF IInv, Turns, Inside, Locked, Task, Agent
<1>13. Tasks'
  BY <1>1, <1>2, <1>3 DEF IInv, Tasks, Turns, Starting, Inside, Locked, Final, Task, Agent
<1>14. Tree'
  BY <1>1, <1>2, <1>3, <1>4 DEF IInv, Tree, Turns, Inside, Locked, Starting, Agent
<1>15. Held'
  <2> SUFFICES ASSUME pc'["search"] # "gone"
               PROVE  /\ locked' => \E b \in Agent : pc'[b] \in Locked
                      /\ \A f \in staged' : \E b \in Agent : pc'[b] = "rename" /\ f = Current(b)'
    BY DEF Held
  <2>1. pc["search"] # "gone"
    BY <1>1, <1>3 DEF Agent
  <2>2. locked' => \E b \in Agent : pc'[b] \in Locked
    BY <1>1, <1>2, <1>3, <2>1 DEF IInv, Held, Locked
  <2>3. \A f \in staged' : \E b \in Agent : pc'[b] = "rename" /\ f = Current(b)'
    BY <1>1, <1>2, <1>3, <1>9, <2>1 DEF IInv, Held
  <2>4. QED
    BY <2>2, <2>3
<1>16. Fresh'
  BY <1>1, <1>2 DEF IInv, Fresh, Task, Agent
<1>17. InHand'
  <2>1. Handling(a)'
    BY <1>1, <1>2, <1>3 DEF IInv, InHand, Handling, Publishing
  <2>2. ASSUME NEW b \in Agent \ {a}
        PROVE  Handling(b)'
    BY <2>2, <1>1, <1>2 DEF IInv, InHand, Handling, Publishing
  <2>3. QED
    BY <2>1, <2>2 DEF InHand
<1>18. Unpublished'
  BY <1>1, <1>2, <1>3 DEF IInv, Unpublished, Publishing, Agent
<1>19. Purged'
  BY <1>1, <1>2, <1>3 DEF IInv, Purged, Turns, Inside, Locked, Publishing, Agent, Task
<1>20. Listing'
  BY <1>1, <1>2, <1>3, <1>4, <1>5, <1>8, <1>9 DEF IInv, Listing, Agent, Turns, Inside, Locked
<1>21. Finishing'
  BY <1>1, <1>2, <1>3, <1>4 DEF IInv, Finishing, Turns, Inside, Locked, Final, Agent
<1>22. Undisturbed'
  BY <1>1, <1>2, <1>3, <1>4, <1>5, <1>8, <1>9
     DEF IInv, Undisturbed, Turns, Tasks, Inside, Locked, Final, Task, Agent, Tree
<1>23. ListedIsReadable'
  BY <1>2, <1>3, <1>4, <1>5 DEF IInv, ListedIsReadable, Written, InHand, Handling, Publishing
<1>24. CompletedIsFinished'
  BY <1>1, <1>2, <1>3, <1>4, <1>5, <1>8, <1>9
     DEF IInv, CompletedIsFinished, Finishing, Inside, Locked, Agent, Turns
<1>25. QED
  BY <1>10, <1>11, <1>12, <1>13, <1>14, <1>15, <1>16, <1>17, <1>18, <1>19, <1>20, <1>21,
    <1>22, <1>23, <1>24 DEF IInv

(* The metrics are counted in a manifest that is there. *)
LEMMA MetricsKeeps ==
  ASSUME IInv, crossed' = FALSE, NEW a \in Agent, manifest # "none", Metrics(a)
  PROVE  IInv'
<1>1. /\ pc' \in [Agent -> Steps] /\ pc'[a] = "remove"
      /\ \A b \in Agent \ {a} : pc'[b] = pc[b]
  BY DEF IInv, Metrics, Goto, tree, buf, rest, clients, clock, past, SessionOK, Steps, Locked,
    FailWithoutManifest
<1>2. UNCHANGED <<root, manifest, index, blocks, bufdir, buffer, staged, locked,
                  phases, job, waiting, found, sweep, closing, cancelling, stale,
                  idle, alive, cleared, dropped, events>>
  BY DEF Metrics, tree, buf, rest, clients, clock, past, FailWithoutManifest
<1>3. pc[a] = "metrics"
  BY DEF Metrics
<1>4. \A b \in Agent : Current(b)' = Current(b)
  BY <1>2 DEF Current
<1>5. (Contiguous /\ PublishedOnce /\ ListedIsReadable /\ CompletedIsFinished)'
  BY <1>2, PagesUntouched
<1>6. SessionOK'
  BY <1>1, <1>2 DEF IInv, SessionOK
<1>7. Turns'
  BY <1>1, <1>2, <1>3, <1>4
     DEF IInv, Turns, Tasks, Starting, Inside, Locked, Final, Task, Agent
<1>8. Tasks'
  BY <1>1, <1>2, <1>3 DEF IInv, Tasks, Turns, Starting, Final, Task, Agent
<1>9. Tree'
  BY <1>1, <1>2 DEF IInv, Tree, Starting, Agent
<1>10. Held'
  BY <1>1, <1>2, <1>3, <1>4 DEF IInv, Held, Turns, Inside, Locked, Agent
<1>11. Fresh'
  BY <1>1, <1>2 DEF IInv, Fresh, Task, Agent
<1>12. InHand'
  <2>1. Handling(a)'
    BY <1>1, <1>2, <1>3, <1>4 DEF IInv, InHand, Handling, Turns, Publishing, Agent
  <2>2. ASSUME NEW b \in Agent \ {a}
        PROVE  Handling(b)'
    BY <1>1, <1>2 DEF IInv, InHand, Handling
  <2>3. QED
    BY <2>1, <2>2 DEF InHand
<1>13. Unpublished'
  BY <1>1, <1>2, <1>3, <1>4 DEF IInv, Unpublished, Turns, Inside, Locked, Publishing, Agent
<1>14. Purged'
  BY <1>1, <1>2, <1>3, <1>4 DEF IInv, Purged, Turns, Inside, Locked, Publishing, Agent, Task
<1>15. Listing'
  BY <1>1, <1>2, <1>3 DEF IInv, Listing
<1>16. Finishing'
  BY <1>1, <1>2, <1>3 DEF IInv, Finishing, Turns, Agent, Inside, Locked, Final
<1>17. Undisturbed'
  BY <1>1, <1>2, <1>3, <1>4
     DEF IInv, Undisturbed, Turns, Tasks, Inside, Locked, Final, Task, Agent, Tree
<1>18. QED
  BY <1>5, <1>6, <1>7, <1>8, <1>9, <1>10, <1>11, <1>12, <1>13, <1>14, <1>15, <1>16, <1>17
     DEF IInv

(* What leaves the buffer is on a page that is listed, so nothing that was *)
(* found gets lost, and the rest of the buffer is on no page.              *)
LEMMA RemoveFindingsKeeps ==
  ASSUME IInv, crossed' = FALSE, NEW a \in Agent, bufdir, RemoveFindings(a)
  PROVE  IInv'
<1>1. /\ pc' \in [Agent -> Steps] /\ pc'[a] \in {"measure", "finish", "release"}
      /\ \A b \in Agent \ {a} : pc'[b] = pc[b]
  BY DEF IInv, RemoveFindings, Goto, tree, buf, rest, clients, clock, past, SessionOK, Steps,
    Locked
<1>2. UNCHANGED <<root, manifest, index, blocks, bufdir, staged, locked, phases,
                  waiting, found, sweep, closing, cancelling, stale, idle, alive,
                  cleared, dropped, events>>
  BY DEF RemoveFindings, rest, clients, clock, past
<1>3. pc[a] = "remove"
  BY DEF RemoveFindings
<1>4. buffer' = buffer \ job[a].list
  BY DEF RemoveFindings
<1>5. manifest # "none" => job[a].pos \in index.listed /\ blocks[job[a].pos] = job[a].list
  BY DEF IInv, RemoveFindings, Goto, tree, buf, rest, clients, clock, past, InHand, Handling,
    Listing, Publishing
<1>6. /\ pc'[a] = "finish" => job[a].final /\ buffer' = {}
      /\ pc'[a] = "release" => ~job[a].final
  BY EnoughIsSome DEF IInv, RemoveFindings, Goto, SessionOK
<1>7. job[a].pos \in Position /\ job[a].list # {}
  BY <1>1, <1>2, <1>3, <1>4, <1>5, <1>6 DEF IInv, RemoveFindings, Goto, tree, buf, rest,
    clients, clock, past, InHand, Handling, Publishing
<1>8. job \in [Agent -> Job] /\ job' = [job EXCEPT ![a].published = TRUE]
  BY DEF IInv, RemoveFindings, SessionOK
<1>9. [job[a] EXCEPT !.published = TRUE] \in Job
  BY <1>8, JobEdit
     DEF IInv, RemoveFindings, Goto, tree, buf, rest, clients, clock, past, SessionOK
<1>10. job' \in [Agent -> Job] /\ \A b \in Agent \ {a} : job'[b] = job[b]
  BY <1>8, <1>9
<1>11. \A b \in Agent :
        /\ job'[b].task = job[b].task /\ job'[b].todo = job[b].todo /\ job'[b].final = job[b].final
        /\ job'[b].list = job[b].list /\ job'[b].pos = job[b].pos
  BY <1>8
<1>12. \A b \in Agent : Current(b)' = Current(b)
  BY <1>11 DEF Current
<1>13. (Contiguous /\ PublishedOnce /\ ListedIsReadable /\ CompletedIsFinished)'
  BY <1>2, PagesUntouched
<1>14. SessionOK'
  BY <1>1, <1>2, <1>4, <1>10 DEF IInv, SessionOK
<1>15. Turns'
  BY <1>1, <1>2, <1>3, <1>11 DEF IInv, Turns, Inside, Locked, Task, Agent
<1>16. Tasks'
  BY <1>1, <1>2, <1>3, <1>11 DEF IInv, Tasks, Turns, Starting, Final, Task, Agent
<1>17. Tree'
  BY <1>1, <1>2, <1>4 DEF IInv, Tree, Starting, Agent
<1>18. Held'
  <2> SUFFICES ASSUME pc'["search"] # "gone"
               PROVE  /\ locked' => \E b \in Agent : pc'[b] \in Locked
                      /\ \A f \in staged' : \E b \in Agent : pc'[b] = "rename" /\ f = Current(b)'
    BY DEF Held
  <2>1. pc["search"] # "gone"
    BY <1>1, <1>3 DEF Agent
  <2>2. locked' => \E b \in Agent : pc'[b] \in Locked
    BY <1>1, <1>2, <1>3, <2>1 DEF IInv, Held, Locked
  <2>3. \A f \in staged' : \E b \in Agent : pc'[b] = "rename" /\ f = Current(b)'
    BY <1>1, <1>2, <1>3, <1>12, <2>1 DEF IInv, Held
  <2>4. QED
    BY <2>2, <2>3
<1>19. Fresh'
  BY <1>1, <1>2, <1>4, <1>11 DEF IInv, Fresh, Task, Agent
<1>20. InHand'
  <2>1. Handling(a)'
    BY <1>1, <1>2, <1>3, <1>4, <1>5, <1>6, <1>7, <1>10, <1>11, <1>12
       DEF IInv, InHand, Handling, Turns, Publishing, Agent
  <2>2. ASSUME NEW b \in Agent \ {a}
        PROVE  Handling(b)'
    BY <1>1, <1>2, <1>10, <1>4 DEF IInv, InHand, Handling
  <2>3. QED
    BY <2>1, <2>2 DEF InHand
<1>21. Unpublished'
  BY <1>1, <1>2, <1>3, <1>4 DEF IInv, Unpublished, Agent, InHand, Handling
<1>22. Purged'
  BY <1>1, <1>2, <1>3, <1>4, <1>5, <1>6, <1>7, <1>10, <1>11, <1>12
     DEF IInv, Purged, Turns, Inside, Locked, Publishing, Agent, Task
<1>23. Listing'
  BY <1>1, <1>2, <1>4, <1>5, <1>11 DEF IInv, Listing
<1>24. Finishing'
  BY <1>1, <1>2, <1>3, <1>6, <1>11 DEF IInv, Finishing, Turns, Final, Agent, Inside, Locked
<1>25. Undisturbed'
  BY <1>1, <1>2, <1>3, <1>11 DEF IInv, Undisturbed, Turns, Final, Agent, Task, Inside, Locked
<1>26. QED
  BY <1>13, <1>14, <1>15, <1>16, <1>17, <1>18, <1>19, <1>20, <1>21, <1>22, <1>23, <1>24, <1>25
     DEF IInv

(* The last task finishes the index, with nothing left in the buffer. *)
LEMMA FinishKeeps ==
  ASSUME IInv, crossed' = FALSE, NEW a \in Agent, Finish(a)
  PROVE  IInv'
<1>1. /\ pc' \in [Agent -> Steps] /\ pc'[a] = "delete"
      /\ \A b \in Agent \ {a} : pc'[b] = pc[b]
  BY DEF IInv, Finish, Goto, tree, buf, rest, clients, clock, past, SessionOK, Steps, Locked
<1>2. UNCHANGED <<manifest, blocks, bufdir, buffer, staged, locked, phases, job,
                  waiting, found, sweep, closing, cancelling, stale, idle, alive,
                  cleared, dropped, events>>
  BY DEF Finish, buf, rest, clients, clock, past
<1>3. pc[a] = "finish"
  BY DEF Finish
<1>4. root' = TRUE /\ index' = [index EXCEPT !.there = TRUE, !.finished = TRUE]
  BY DEF Finish
<1>5. index'.listed = index.listed /\ index'.finished
  BY DEF Finish
<1>6. index' \in [there : BOOLEAN, listed : SUBSET Position, finished : BOOLEAN]
  BY <1>1, <1>2, <1>3, <1>4, <1>5
     DEF IInv, Finish, Goto, tree, buf, rest, clients, clock, past, SessionOK
<1>7. \A b \in Agent : Current(b)' = Current(b)
  BY DEF Finish, Current
<1>8. (Contiguous /\ PublishedOnce)'
  BY <1>2 DEF IInv, Contiguous, PublishedOnce, Written
<1>9. SessionOK'
  BY <1>1, <1>2, <1>4, <1>6 DEF IInv, SessionOK
<1>10. Turns'
  BY <1>1, <1>2, <1>3, <1>4, <1>5, <1>6, <1>7
     DEF IInv, Turns, Tasks, Starting, Inside, Locked, Final, Task, Agent
<1>11. Tasks'
  BY <1>1, <1>2, <1>3 DEF IInv, Tasks, Turns, Starting, Final, Task, Agent
<1>12. Tree'
  BY <1>1, <1>2, <1>3, <1>4 DEF IInv, Tree, Turns, Starting, Agent
<1>13. Held'
  BY <1>1, <1>2, <1>3, <1>4, <1>5, <1>6, <1>7 DEF IInv, Held, Turns, Inside, Locked, Agent
<1>14. Fresh'
  BY <1>1, <1>2 DEF IInv, Fresh, Task, Agent
<1>15. InHand'
  <2>1. Handling(a)'
    BY <1>1 DEF Handling, Publishing
  <2>2. ASSUME NEW b \in Agent \ {a}
        PROVE  Handling(b)'
    BY <1>1, <1>2 DEF IInv, InHand, Handling
  <2>3. QED
    BY <2>1, <2>2 DEF InHand
<1>16. Unpublished'
  BY <1>1, <1>2, <1>3, <1>4, <1>5, <1>6, <1>7
     DEF IInv, Unpublished, Turns, Inside, Locked, Publishing, Agent
<1>17. Purged'
  BY <1>1, <1>2, <1>3, <1>4, <1>5, <1>6, <1>7
     DEF IInv, Purged, Turns, Inside, Locked, Publishing, Agent, Task
<1>18. Listing'
  BY <1>1, <1>2, <1>5 DEF IInv, Listing
<1>19. Finishing'
  BY <1>1, <1>2, <1>3 DEF IInv, Finishing, Turns, Final, Agent, Inside, Locked
<1>20. Undisturbed'
  BY <1>1, <1>2, <1>3, <1>4, <1>5, <1>6, <1>7
     DEF IInv, Undisturbed, Turns, Tasks, Inside, Locked, Final, Task, Agent, Tree
<1>21. ListedIsReadable'
  BY <1>2, <1>5 DEF IInv, ListedIsReadable, Written
<1>22. CompletedIsFinished'
  BY <1>5 DEF CompletedIsFinished
<1>23. QED
  BY <1>8, <1>9, <1>10, <1>11, <1>12, <1>13, <1>14, <1>15, <1>16, <1>17, <1>18, <1>19, <1>20,
    <1>21, <1>22 DEF IInv

(* The buffer that is deleted is empty. *)
LEMMA DeleteBufferKeeps ==
  ASSUME IInv, crossed' = FALSE, NEW a \in Agent, bufdir, staged = {}, DeleteBuffer(a)
  PROVE  IInv'
<1>1. /\ pc' \in [Agent -> Steps] /\ pc'[a] = "return"
      /\ \A b \in Agent \ {a} : pc'[b] = pc[b]
  BY DEF IInv, DeleteBuffer, Goto, SessionOK, Steps
<1>2. UNCHANGED <<root, manifest, index, blocks, staged, phases, job, waiting, found,
                  sweep, closing, cancelling, stale, idle, alive, cleared, dropped,
                  events>>
  BY DEF DeleteBuffer, rest, clients, clock, past
<1>3. pc[a] = "delete"
  BY DEF DeleteBuffer
<1>4. buffer' = {} /\ locked' = FALSE /\ bufdir' = FALSE
  BY DEF DeleteBuffer
<1>5. buffer = {}
  BY DEF IInv, DeleteBuffer, Finishing, Agent
<1>6. \A b \in Agent : Current(b)' = Current(b)
  BY DEF DeleteBuffer, Current
<1>7. (Contiguous /\ PublishedOnce /\ ListedIsReadable /\ CompletedIsFinished)'
  BY <1>2, PagesUntouched
<1>8. SessionOK'
  BY <1>1, <1>2, <1>4, ZenonT(40) DEF IInv, SessionOK
<1>9. Turns'
  BY <1>1, <1>2, <1>3 DEF IInv, Turns, Inside, Task, Agent
<1>10. Tasks'
  BY <1>1, <1>2, <1>3 DEF IInv, Tasks, Turns, Starting, Final, Task, Agent
<1>11. Tree'
  BY <1>1, <1>2, <1>4 DEF IInv, Tree, Starting, Agent
<1>12. Held'
  BY <1>2, <1>4 DEF Held
<1>13. Fresh'
  BY <1>1, <1>2, <1>4 DEF IInv, Fresh, Task, Agent
<1>14. InHand'
  <2>1. Handling(a)'
    BY <1>1 DEF Handling, Publishing
  <2>2. ASSUME NEW b \in Agent \ {a}
        PROVE  Handling(b)'
    BY <1>1, <1>2, <1>4 DEF IInv, InHand, Handling
  <2>3. QED
    BY <2>1, <2>2 DEF InHand
<1>15. Unpublished'
  BY <1>4 DEF Unpublished
<1>16. Purged'
  BY <1>1, <1>2, <1>3, <1>4, <1>5, <1>6
     DEF IInv, Purged, Turns, Inside, Locked, Publishing, Agent, Task
<1>17. Listing'
  BY <1>1, <1>2, <1>5 DEF IInv, Listing
<1>18. Finishing'
  BY <1>1, <1>2, <1>3, <1>4 DEF IInv, Finishing, Final, Agent, Inside, Locked
<1>19. Undisturbed'
  BY <1>1, <1>2, <1>3 DEF IInv, Undisturbed, Final, Agent, Finishing, Task, Inside, Locked
<1>20. QED
  BY <1>7, <1>8, <1>9, <1>10, <1>11, <1>12, <1>13, <1>14, <1>15, <1>16, <1>17, <1>18, <1>19
     DEF IInv

(* Nobody but the agent had the lock that goes. *)
LEMMA ReleaseKeeps ==
  ASSUME IInv, crossed' = FALSE, NEW a \in Agent, Release(a)
  PROVE  IInv'
<1>1. /\ pc' \in [Agent -> Steps] /\ pc'[a] = "return"
      /\ \A b \in Agent \ {a} : pc'[b] = pc[b]
  BY DEF IInv, Release, Goto, SessionOK, Steps
<1>2. UNCHANGED <<root, manifest, index, blocks, bufdir, buffer, staged, phases, job,
                  waiting, found, sweep, closing, cancelling, stale, idle, alive,
                  cleared, dropped, events>>
  BY DEF Release, tree, rest, clients, clock, past
<1>3. pc[a] = "release"
  BY DEF Release
<1>4. locked' \in BOOLEAN /\ ~locked'
  BY DEF Release
<1>5. \A b \in Agent : Current(b)' = Current(b)
  BY DEF Release, Current
<1>6. (Contiguous /\ PublishedOnce /\ ListedIsReadable /\ CompletedIsFinished)'
  BY <1>2, PagesUntouched
<1>7. SessionOK'
  BY <1>1, <1>2, <1>4 DEF IInv, SessionOK
<1>8. Turns'
  BY <1>1, <1>2, <1>3 DEF IInv, Turns, Inside, Task, Agent
<1>9. Tasks'
  BY <1>1, <1>2, <1>3 DEF IInv, Tasks, Turns, Starting, Final, Task, Agent
<1>10. Tree'
  BY <1>1, <1>2 DEF IInv, Tree, Starting, Agent
<1>11. Held'
  BY <1>2, <1>3, <1>4 DEF IInv, Held, Turns, Agent
<1>12. Fresh'
  BY <1>1, <1>2 DEF IInv, Fresh, Task, Agent
<1>13. InHand'
  <2>1. Handling(a)'
    BY <1>1 DEF Handling, Publishing
  <2>2. ASSUME NEW b \in Agent \ {a}
        PROVE  Handling(b)'
    BY <1>1, <1>2 DEF IInv, InHand, Handling
  <2>3. QED
    BY <2>1, <2>2 DEF InHand
<1>14. Unpublished'
  BY <1>1, <1>2, <1>3, <1>4, <1>5
     DEF IInv, Unpublished, Turns, Inside, Locked, Publishing, Agent
<1>15. Purged'
  BY <1>1, <1>2, <1>3, <1>4, <1>5 DEF IInv, Purged, Turns, Inside, Locked, Publishing, Agent, Task
<1>16. Listing'
  BY <1>1, <1>2 DEF IInv, Listing
<1>17. Finishing'
  BY <1>1, <1>2, <1>3 DEF IInv, Finishing, Turns, Agent, Inside, Locked, Final
<1>18. Undisturbed'
  BY <1>1, <1>2, <1>3, <1>4, <1>5
     DEF IInv, Undisturbed, Turns, Tasks, Inside, Locked, Final, Task, Agent, Tree, Finishing
<1>19. QED
  BY <1>6, <1>7, <1>8, <1>9, <1>10, <1>11, <1>12, <1>13, <1>14, <1>15, <1>16, <1>17, <1>18
     DEF IInv

(* run_until_idle goes on, or it is the turn of the next file of the       *)
(* worker; a last flush returns with a finished index.                     *)
LEMMA ReturnKeeps ==
  ASSUME IInv, crossed' = FALSE, NEW a \in Agent, Return(a)
  PROVE  IInv'
<1>1. /\ pc' \in [Agent -> Steps] /\ pc'[a] \in {"enter", "stage", "done"}
      /\ \A b \in Agent \ {a} : pc'[b] = pc[b]
  BY DEF IInv, Return, Goto, SessionOK, Steps
<1>2. UNCHANGED <<root, manifest, index, blocks, bufdir, buffer, staged, locked,
                  phases, job, waiting, found, sweep, closing, cancelling, stale,
                  idle, alive, cleared, dropped, events>>
  BY DEF Return, tree, buf, rest, clients, clock, past
<1>3. pc[a] = "return"
  BY DEF Return
<1>4. /\ pc'[a] = "enter" => (job[a].final => bufdir)
      /\ pc'[a] = "stage" => a = "worker"
      /\ pc'[a] = "done" => a = "search"
  BY DEF Return, Goto, Agent
<1>5. \A b \in Agent : Current(b)' = Current(b)
  BY DEF Return, Current
<1>6. (Contiguous /\ PublishedOnce /\ ListedIsReadable /\ CompletedIsFinished)'
  BY <1>2, PagesUntouched
<1>7. SessionOK'
  BY <1>1, <1>2 DEF IInv, SessionOK
<1>8. Turns'
  BY <1>1, <1>2, <1>3 DEF IInv, Turns, Inside, Task, Agent
<1>9. Tasks'
  BY <1>1, <1>2, <1>3 DEF IInv, Tasks, Turns, Starting, Final, Task, Agent
<1>10. Tree'
  BY <1>1, <1>2 DEF IInv, Tree, Starting, Agent
<1>11. Held'
  BY <1>1, <1>2, <1>3, <1>4, <1>5 DEF IInv, Held, Turns, Inside, Locked, Agent
<1>12. Fresh'
  BY <1>1, <1>2 DEF IInv, Fresh, Task, Agent
<1>13. InHand'
  <2>1. Handling(a)'
    BY <1>1, <1>2, <1>3, <1>4, <1>5 DEF IInv, InHand, Handling, Turns, Publishing, Agent
  <2>2. ASSUME NEW b \in Agent \ {a}
        PROVE  Handling(b)'
    BY <1>1, <1>2 DEF IInv, InHand, Handling
  <2>3. QED
    BY <2>1, <2>2 DEF InHand
<1>14. Unpublished'
  BY <1>1, <1>2, <1>3, <1>4, <1>5
     DEF IInv, Unpublished, Turns, Inside, Locked, Publishing, Agent
<1>15. Purged'
  BY <1>1, <1>2, <1>3, <1>4, <1>5 DEF IInv, Purged, Turns, Inside, Locked, Publishing, Agent, Task
<1>16. Listing'
  BY <1>1, <1>2 DEF IInv, Listing
<1>17. Finishing'
  BY <1>1, <1>2, <1>3, <1>4 DEF IInv, Finishing, Inside, Final, Agent, Locked
<1>18. Undisturbed'
  <2>1. CASE a = "search"
    BY <2>1, <1>1, <1>2, <1>3, <1>4 DEF IInv, Undisturbed, Task, Final, Inside, Locked
  <2>2. CASE a = "worker"
    BY <2>2, <1>1, <1>2, <1>5 DEF IInv, Undisturbed, Task, Final, Inside, Locked, Agent
  <2>3. QED
    BY <2>1, <2>2 DEF Agent
<1>19. QED
  BY <1>6, <1>7, <1>8, <1>9, <1>10, <1>11, <1>12, <1>13, <1>14, <1>15, <1>16, <1>17, <1>18
     DEF IInv

(* A finding is staged in a buffer that is there, or there is none left. *)
LEMMA StageKeeps ==
  ASSUME IInv, crossed' = FALSE, NEW a \in Agent, Stage(a),
         job[a].todo # {} => bufdir /\ (a = "worker" => manifest # "none")
  PROVE  IInv'
<1>1. /\ pc' \in [Agent -> Steps] /\ pc'[a] \in {"done", "rename"}
      /\ \A b \in Agent \ {a} : pc'[b] = pc[b]
  BY DEF IInv, Stage, Goto, SessionOK, Steps, FailWithoutManifest
<1>2. UNCHANGED <<root, manifest, index, blocks, bufdir, buffer, locked, phases, job,
                  waiting, found, sweep, closing, cancelling, stale, idle, alive,
                  cleared, dropped, events>>
  BY DEF Stage, tree, buf, rest, clients, clock, past, FailWithoutManifest
<1>3. pc[a] = "stage"
  BY DEF Stage
<1>4. /\ pc'[a] = "done" => staged' = staged
      /\ pc'[a] = "rename" => staged' = staged \cup {Current(a)} /\ job[a].todo # {} /\ bufdir
  BY DEF IInv, Stage, Goto, buf, SessionOK, FailWithoutManifest
<1>5. job[a].todo # {} => Current(a) \in Finding
  BY DEF IInv, SessionOK, Job, Current
<1>6. a = "search" =>
        /\ ~Final /\ pc["worker"] \notin Inside
        /\ pc["worker"] \in {"done", "failed"} => Task = "semantic"
  BY <1>3 DEF IInv, Finishing, Tasks, Turns, Inside
<1>7. a = "worker" /\ pc'[a] = "rename" => manifest # "none"
  BY DEF IInv, Stage, Goto, buf, SessionOK, FailWithoutManifest
<1>8. \A b \in Agent : Current(b)' = Current(b)
  BY <1>2 DEF Current
<1>9. (Contiguous /\ PublishedOnce /\ ListedIsReadable /\ CompletedIsFinished)'
  BY <1>2, PagesUntouched
<1>10. SessionOK'
  BY <1>1, <1>2, <1>4, <1>5 DEF IInv, SessionOK
<1>11. Turns'
  BY <1>1, <1>2, <1>3 DEF IInv, Turns, Inside, Task, Agent
<1>12. Tasks'
  BY <1>1, <1>2, <1>3 DEF IInv, Tasks, Turns, Starting, Final, Task, Agent
<1>13. Tree'
  BY <1>1, <1>2, <1>3, <1>4 DEF IInv, Tree, Turns, Starting, Agent
<1>14. Held'
  BY <1>1, <1>2, <1>3, <1>4, <1>5, <1>6, <1>7, <1>8
     DEF IInv, Held, Turns, Inside, Locked, Agent
<1>15. Fresh'
  BY <1>1, <1>2, <1>4 DEF IInv, Fresh, Task, Agent
<1>16. InHand'
  <2>1. Handling(a)'
    BY <1>1, <1>2, <1>3, <1>4, <1>5, <1>6, <1>7, <1>8
       DEF IInv, InHand, Handling, Turns, Publishing, Agent
  <2>2. ASSUME NEW b \in Agent \ {a}
        PROVE  Handling(b)'
    BY <1>1, <1>2 DEF IInv, InHand, Handling
  <2>3. QED
    BY <2>1, <2>2 DEF InHand
<1>17. Unpublished'
  BY <1>1, <1>2, <1>3, <1>4, <1>5, <1>6, <1>7, <1>8
     DEF IInv, Unpublished, Turns, Inside, Locked, Publishing, Agent
<1>18. Purged'
  BY <1>1, <1>2, <1>3, <1>4, <1>5, <1>6, <1>7, <1>8
     DEF IInv, Purged, Turns, Inside, Locked, Publishing, Agent, Task
<1>19. Listing'
  BY <1>1, <1>2 DEF IInv, Listing
<1>20. Finishing'
  BY <1>1, <1>2, <1>3, <1>4, <1>6
     DEF IInv, Finishing, Turns, Final, Agent, Inside, Locked
<1>21. Undisturbed'
  <2>1. CASE a = "search"
    BY <2>1, <1>1, <1>2, <1>3, <1>4, <1>6, <1>8
       DEF IInv, Undisturbed, Inside, Final, Agent, Task, Locked
  <2>2. CASE a = "worker"
    BY <2>2, <1>1, <1>2, <1>3, <1>4, <1>8
       DEF IInv, Undisturbed, Turns, Inside, Final, Agent, Task, Locked
  <2>3. QED
    BY <2>1, <2>2 DEF Agent
<1>22. QED
  BY <1>9, <1>10, <1>11, <1>12, <1>13, <1>14, <1>15, <1>16, <1>17, <1>18, <1>19, <1>20, <1>21
     DEF IInv

(* The next position is free, in line, and there is one for everything that *)
(* is on no page yet.                                                      *)
LEMMA FreePosition ==
  ASSUME SessionOK, crossed = FALSE, PublishedOnce, Contiguous, manifest # "none",
         NEW f \in Finding, \A p \in Position : f \notin blocks[p]
  PROVE  /\ NextPosition \in Position /\ blocks[NextPosition] = {}
         /\ \A p \in Position : p < NextPosition => blocks[p] # {}
<1> DEFINE n == Cardinality(Finding)
<1>1. n \in Nat \ {0} /\ Position = 1..(2 * n)
  <2>1. n \in Nat /\ n # 0
    BY FindingsAreDistinct, FS_CardinalityType, FS_EmptySet
  <2>2. QED
    BY <2>1 DEF Position
<1>2. \E p \in Position : blocks[p] = {}
  <2> SUFFICES ASSUME \A p \in Position : blocks[p] # {}
               PROVE  FALSE
    OBVIOUS
  <2> DEFINE Others == Finding \ {f}
             Item == [p \in Position |-> CHOOSE g \in blocks[p] : TRUE]
  <2>1. \A p \in Position : Item[p] \in blocks[p] /\ Item[p] \in Others
    BY DEF SessionOK
  <2>2. Item \in [Position -> Others]
    BY <2>1
  <2>3. IsFiniteSet(Others) /\ Cardinality(Others) = n - 1
    BY FindingsAreDistinct, FS_RemoveElement
  <2>4. IsFiniteSet(Position) /\ Cardinality(Position) = 2 * n
    BY <1>1, FS_Interval
  <2> HIDE DEF Others, Item
  <2>5. \E p, q \in Position : p # q /\ Item[p] = Item[q]
    BY <1>1, <2>2, <2>3, <2>4, FS_PigeonHole
  <2>6. QED
    BY <2>1, <2>5 DEF PublishedOnce, Written
<1>3. PICK e \in Position : blocks[e] = {} /\ \A p \in Position : p < e => blocks[p] # {}
  <2> DEFINE Free == {p \in Position : blocks[p] = {}}
  <2>1. Free \subseteq Nat /\ Free # {}
    BY <1>1, <1>2
  <2>2. PICK e \in Free : \A p \in Free : <<p, e>> \notin OpToRel(<, Nat)
    BY <2>1, NatLessThanWellFounded, WFMin
  <2>3. \A p \in Free : ~(p < e)
    BY <2>1, <2>2 DEF OpToRel
  <2>4. QED
    BY <2>3
<1>4. \A p \in Position : p < e <=> p \in Written
  BY <1>1, <1>3 DEF Contiguous, Written
<1>5. NextPosition = e
  <2>1. CASE e = 1
    <3>1. Written = {}
      BY <1>1, <1>4, <2>1 DEF Written
    <3>2. QED
      BY <2>1, <3>1 DEF NextPosition
  <2>2. CASE e # 1
    <3>1. e - 1 \in Written /\ \A p \in Written : p \in Nat /\ p <= e - 1
      BY <1>1, <1>4, <2>2 DEF Written
    <3>2. Max(Written) = e - 1
      <4>1. Max(Written) \in Written /\ \A p \in Written : Max(Written) >= p
        BY <3>1 DEF Max
      <4>2. QED
        BY <3>1, <4>1
    <3>3. QED
      BY <1>1, <3>1, <3>2 DEF NextPosition
  <2>3. QED
    BY <2>1, <2>2
<1>6. QED
  BY <1>3, <1>5

(* The finding that enters the buffer is new (Fresh): it is on no page,    *)
(* and nobody will append it again.                                        *)
LEMMA RenameKeeps ==
  ASSUME IInv, crossed' = FALSE, NEW a \in Agent, Current(a) \in staged, Rename(a)
  PROVE  IInv'
<1>1. /\ pc' \in [Agent -> Steps] /\ pc'[a] \in {"flush", "stage"}
      /\ \A b \in Agent \ {a} : pc'[b] = pc[b]
  BY DEF IInv, Rename, Goto, SessionOK, Steps
<1>2. UNCHANGED <<root, manifest, index, blocks, bufdir, locked, phases, waiting,
                  sweep, closing, cancelling, stale, idle, alive, cleared, dropped,
                  events>>
  BY DEF Rename, tree, rest, clients, clock, past
<1>3. pc[a] = "rename"
  BY DEF Rename
<1>4. /\ staged' = staged \ {Current(a)} /\ buffer' = buffer \cup {Current(a)}
      /\ found' = found \cup {Current(a)}
  BY DEF Rename
<1>5. Current(a) \in job[a].todo /\ Current(a) \in Finding
  BY DEF IInv, Rename, SessionOK, Current, Fresh
<1>6. job[a].todo \ {Current(a)} \in SUBSET Finding
  BY DEF IInv, SessionOK, Job
<1>7. staged' = {}
  BY DEF IInv, Rename, Held, Turns, Agent
<1>8. \A p \in Position : Current(a) \notin blocks[p]
  BY <1>5 DEF IInv, Fresh
<1>9. job'[a].todo = job[a].todo \ {Current(a)} /\ \A b \in Agent : job'[b].todo \subseteq job[b].todo
  BY DEF IInv, Rename, SessionOK, Job
<1>10. a = "search" =>
        /\ ~Final /\ pc["worker"] \notin Inside
        /\ pc["worker"] \in {"done", "failed"} => Task = "semantic"
  BY <1>3 DEF IInv, Finishing, Tasks, Turns, Inside
<1>11. job \in [Agent -> Job] /\ job' = [job EXCEPT ![a].todo = job[a].todo \ {Current(a)}]
  BY DEF IInv, Rename, SessionOK
<1>12. [job[a] EXCEPT !.todo = job[a].todo \ {Current(a)}] \in Job
  BY <1>6, <1>11, JobEdit
     DEF IInv, Rename, Goto, tree, buf, rest, clients, clock, past, SessionOK
<1>13. job' \in [Agent -> Job] /\ \A b \in Agent \ {a} : job'[b] = job[b]
  BY <1>11, <1>12
<1>14. \A b \in Agent :
        /\ job'[b].task = job[b].task /\ job'[b].final = job[b].final /\ job'[b].list = job[b].list
        /\ job'[b].pos = job[b].pos /\ job'[b].published = job[b].published
  BY <1>11
<1>15. (Contiguous /\ PublishedOnce /\ ListedIsReadable /\ CompletedIsFinished)'
  BY <1>2, PagesUntouched
<1>16. SessionOK'
  BY <1>1, <1>2, <1>4, <1>13 DEF IInv, SessionOK
<1>17. Turns'
  BY <1>1, <1>2, <1>3, <1>14 DEF IInv, Turns, Inside, Task, Agent
<1>18. Tasks'
  BY <1>1, <1>2, <1>3, <1>14 DEF IInv, Tasks, Turns, Starting, Final, Task, Agent
<1>19. Tree'
  BY <1>1, <1>2 DEF IInv, Tree, Starting, Agent
<1>20. Held'
  BY <1>1, <1>2, <1>3, <1>4, <1>5, <1>7, <1>8, <1>9, <1>10, <1>13, <1>14
     DEF IInv, Held, Turns, Inside, Locked, Agent
<1>21. Fresh'
  <2>1. \A b \in Agent : Current(a) \notin job'[b].todo
    BY <1>5, <1>9, FindingsAreDistinct DEF IInv, Fresh, Agent
  <2>2. \A b \in Agent : job'[b].todo \cap found' = {}
    BY <2>1, <1>9, <1>4 DEF IInv, Fresh
  <2>3. \A b \in Agent : pc'[b] = "rename" => job'[b].todo # {}
    BY <1>1, <1>13 DEF IInv, Fresh
  <2>4. Task' = Task
    BY <1>14 DEF Task, Agent
  <2>5. IF a = "search" THEN Current(a) \notin Grep ELSE Current(a) \notin Semantic
    BY <1>5, FindingsAreDistinct DEF IInv, Fresh, Agent
  <2>6. Task \in {"none", "fulltext"} => found' \cap Semantic = {} /\ job'["search"].todo \subseteq Fulltext
    BY <1>5, <1>9, <1>4, FindingsAreDistinct DEF IInv, Fresh, Agent
  <2>7. pc'["worker"] = "idle" => found' \cap Grep = {}
    BY <2>5, <1>1, <1>4 DEF IInv, Fresh, Agent
  <2>8. job'["search"].todo \subseteq Fulltext \cup Semantic /\ job'["worker"].todo \subseteq Grep
    BY <1>9 DEF IInv, Fresh, Agent
  <2>9. buffer' \subseteq found' /\ \A p \in Position : blocks'[p] \subseteq found'
    BY <1>2, <1>4 DEF IInv, Fresh
  <2>10. Task # "semantic" /\ "semantic" \in waiting => found' \cap Semantic = {}
    <3>1. CASE a = "search"
      BY <3>1, <1>3, <1>4, <1>5, <1>10, FindingsAreDistinct
        DEF IInv, Fresh, Tasks, Turns, Inside, Final, Agent
    <3>2. CASE a = "worker"
      BY <3>2, <2>5, <1>4 DEF IInv, Fresh
    <3>3. QED
      BY <3>1, <3>2 DEF Agent
  <2>11. QED
    BY <2>2, <2>3, <2>4, <2>6, <2>7, <2>8, <2>9, <2>10, <1>2 DEF Fresh
<1>22. InHand'
  <2>1. Handling(a)'
    BY <1>1, <1>2, <1>3, <1>4, <1>5, <1>7, <1>8, <1>9, <1>10, <1>13, <1>14
       DEF IInv, InHand, Handling, Turns, Publishing, Agent
  <2>2. ASSUME NEW b \in Agent \ {a}
        PROVE  Handling(b)'
    BY <2>2, <1>1, <1>2, <1>3, <1>13
       DEF IInv, InHand, Handling, Turns, Inside, Locked, Publishing, Agent
  <2>3. QED
    BY <2>1, <2>2 DEF InHand
<1>23. Unpublished'
  BY <1>1, <1>2, <1>3, <1>4, <1>8 DEF IInv, Unpublished, Publishing, Agent
<1>24. Purged'
  BY <1>1, <1>2, <1>3, <1>4, <1>5, <1>7, <1>8, <1>9, <1>10, <1>13, <1>14
     DEF IInv, Purged, Turns, Inside, Locked, Publishing, Agent, Task
<1>25. Listing'
  BY <1>1, <1>2, <1>4, <1>14 DEF IInv, Listing
<1>26. Finishing'
  BY <1>1, <1>2, <1>3, <1>14 DEF IInv, Finishing, Turns, Final, Agent, Inside, Locked
<1>27. Undisturbed'
  BY <1>1, <1>2, <1>3, <1>14
     DEF IInv, Undisturbed, Turns, Final, Agent, Tree, Task, Inside, Locked
<1>28. QED
  BY <1>15, <1>16, <1>17, <1>18, <1>19, <1>20, <1>21, <1>22, <1>23, <1>24, <1>25, <1>26, <1>27
     DEF IInv

(* The block that is assembled next has a place. *)
LEMMA PlaceForBlock ==
  ASSUME IInv, crossed' = FALSE, NEW a \in Agent, pc[a] = "load", job[a].list \subseteq buffer
  PROVE  /\ NextPosition \in Position
         /\ \A p \in Position : job[a].list \cap blocks[p] = {}
         /\ manifest # "none" =>
              /\ blocks[NextPosition] = {}
              /\ \A p \in Position : p < NextPosition => blocks[p] # {}
<1>1. \A p \in Position : buffer \cap blocks[p] = {}
  BY DEF IInv, Unpublished, Turns, Inside, Locked, Publishing, Agent
<1>2. PICK f \in job[a].list : f \in Finding /\ \A p \in Position : f \notin blocks[p]
  BY <1>1 DEF IInv, SessionOK, InHand, Handling
<1>3. CASE manifest # "none"
  BY <1>1, <1>2, <1>3, FreePosition DEF IInv
<1>4. CASE manifest = "none"
  <2>1. \A p \in Position : blocks[p] = {}
    BY <1>4 DEF IInv, Purged, Turns, Inside, Locked, Agent
  <2>2. NextPosition = 1
    BY <2>1 DEF NextPosition, Written
  <2>3. Cardinality(Finding) \in Nat /\ Cardinality(Finding) # 0
    BY <1>2, FindingsAreDistinct, FS_CardinalityType, FS_EmptySet
  <2>4. QED
    BY <1>1, <1>4, <2>2, <2>3 DEF Position
<1>5. QED
  BY <1>3, <1>4

(* The items of the next block are read, and PlaceForBlock has a place for *)
(* them.                                                                   *)
LEMMA LoadKeeps ==
  ASSUME IInv, crossed' = FALSE, NEW a \in Agent, job[a].list \subseteq buffer, Load(a)
  PROVE  IInv'
<1>1. /\ pc' \in [Agent -> Steps] /\ pc'[a] = "write"
      /\ \A b \in Agent \ {a} : pc'[b] = pc[b]
  BY DEF IInv, Load, Goto, tree, buf, rest, clients, clock, past, SessionOK, Steps, Locked
<1>2. UNCHANGED <<root, manifest, index, blocks, bufdir, buffer, staged, locked,
                  phases, waiting, found, sweep, closing, cancelling, stale, idle,
                  alive, cleared, dropped, events>>
  BY DEF Load, buf, rest, clients, clock, past
<1>3. pc[a] = "load"
  BY DEF Load
<1>4. PICK items \in Fits(job[a].list) :
        job' = [job EXCEPT ![a].pos = NextPosition, ![a].list = items]
  BY DEF Load
<1>5. items # {} /\ items \subseteq job[a].list /\ items \in SUBSET Finding
  BY DEF IInv, SessionOK, Fits
<1>6. /\ NextPosition \in Position
      /\ \A p \in Position : job[a].list \cap blocks[p] = {}
      /\ manifest # "none" =>
           /\ blocks[NextPosition] = {}
           /\ \A p \in Position : p < NextPosition => blocks[p] # {}
  BY <1>3, PlaceForBlock
<1>7. job \in [Agent -> Job] /\ [job[a] EXCEPT !.pos = NextPosition, !.list = items] \in Job
  BY <1>6, <1>5, JobEdit DEF IInv, Load, Goto, tree, buf, rest, clients, clock, past, SessionOK
<1>8. job' \in [Agent -> Job] /\ \A b \in Agent \ {a} : job'[b] = job[b]
  BY <1>4, <1>7
<1>9. job'[a].pos = NextPosition /\ job'[a].list = items
  BY <1>4, <1>7
<1>10. \A b \in Agent : job'[b].task = job[b].task /\ job'[b].todo = job[b].todo /\ job'[b].final = job[b].final
  BY <1>4, <1>7
<1>11. \A b \in Agent : Current(b)' = Current(b)
  BY <1>10 DEF Current
<1>12. (Contiguous /\ PublishedOnce /\ ListedIsReadable /\ CompletedIsFinished)'
  BY <1>2, PagesUntouched
<1>13. SessionOK'
  BY <1>1, <1>2, <1>8 DEF IInv, SessionOK
<1>14. Turns'
  BY <1>1, <1>2, <1>3, <1>10 DEF IInv, Turns, Inside, Locked, Task, Agent
<1>15. Tasks'
  BY <1>1, <1>2, <1>3, <1>4, <1>8 DEF IInv, Tasks, Turns, Starting, Final, Task, Agent
<1>16. Tree'
  BY <1>1, <1>2 DEF IInv, Tree, Starting, Agent
<1>17. Held'
  <2> SUFFICES ASSUME pc'["search"] # "gone"
               PROVE  /\ locked' => \E b \in Agent : pc'[b] \in Locked
                      /\ \A f \in staged' : \E b \in Agent : pc'[b] = "rename" /\ f = Current(b)'
    BY DEF Held
  <2>1. pc["search"] # "gone"
    BY <1>1, <1>3 DEF Agent
  <2>2. locked' => \E b \in Agent : pc'[b] \in Locked
    BY <1>1, <1>2, <1>3, <2>1 DEF IInv, Held, Locked
  <2>3. \A f \in staged' : \E b \in Agent : pc'[b] = "rename" /\ f = Current(b)'
    BY <1>1, <1>2, <1>3, <1>11, <2>1 DEF IInv, Held
  <2>4. QED
    BY <2>2, <2>3
<1>18. Fresh'
  BY <1>1, <1>2, <1>10 DEF IInv, Fresh, Task, Agent
<1>19. InHand'
  <2>1. Handling(a)'
    BY <1>1, <1>2, <1>5, <1>6, <1>9 DEF IInv, Fresh, Handling, Publishing
  <2>2. ASSUME NEW b \in Agent \ {a}
        PROVE  Handling(b)'
    BY <1>1, <1>2, <1>8 DEF IInv, InHand, Handling
  <2>3. QED
    BY <2>1, <2>2 DEF InHand
<1>20. Unpublished'
  BY <1>1, <1>2, <1>3 DEF IInv, Unpublished, Publishing, Agent
<1>21. Purged'
  BY <1>1, <1>2, <1>3, <1>8, <1>10
     DEF IInv, Purged, Turns, Inside, Locked, Publishing, Agent, Task
<1>22. Listing'
  BY <1>1, <1>2, <1>8 DEF IInv, Listing
<1>23. Finishing'
  BY <1>1, <1>2, <1>5, <1>10 DEF IInv, Finishing, Final, Agent, Inside, Locked
<1>24. Undisturbed'
  BY <1>1, <1>2, <1>3, <1>8, <1>10, <1>11
    DEF IInv, Undisturbed, Final, Agent, Task, Inside, Locked
<1>25. QED
  BY <1>12, <1>13, <1>14, <1>15, <1>16, <1>17, <1>18, <1>19, <1>20, <1>21, <1>22, <1>23, <1>24
     DEF IInv

(* A task begins with a job of its own. *)
LEMMA BeginJob ==
  ASSUME IInv, crossed' = FALSE, NEW task \in {"fulltext", "semantic", "grep", "last"},
         NEW findings \in SUBSET Finding, NEW final \in BOOLEAN,
         Begin("search", task, findings, final)
  PROVE  /\ job' \in [Agent -> Job] /\ job'["worker"] = job["worker"]
         /\ job'["search"].task = task /\ job'["search"].todo = findings
         /\ job'["search"].final = final /\ job'["search"].list = {}
<1> DEFINE new == [NoJob EXCEPT !.task = task, !.todo = findings, !.final = final]
<1>1. /\ new.task = task /\ new.todo = findings /\ new.final = final /\ new.list = {}
  BY DEF NoJob
<1>2. new \in Job
  BY DEF NoJob, Job
<1>3. job \in [Agent -> Job] /\ job' = [job EXCEPT !["search"] = new]
  BY DEF IInv, SessionOK, Begin
<1>4. "search" \in Agent /\ "worker" \in Agent
  BY DEF Agent
<1> HIDE DEF new
<1>5. job' \in [Agent -> Job] /\ job'["search"] = new /\ job'["worker"] = job["worker"]
  BY <1>2, <1>3, <1>4
<1>6. QED
  BY <1>1, <1>5

(* The directory is made; whatever the cleaner did before, nothing is in   *)
(* it.                                                                     *)
LEMMA ProvisionKeeps ==
  ASSUME IInv, crossed' = FALSE, Provision
  PROVE  IInv'
<1>1. /\ pc' \in [Agent -> Steps] /\ pc'["search"] = "manifest"
      /\ pc'["worker"] = pc["worker"]
  BY DEF IInv, Provision, Goto, SessionOK, Steps, Agent
<1>2. UNCHANGED <<manifest, index, blocks, buffer, staged, locked, phases, job,
                  waiting, found, sweep, closing, cancelling, stale, idle, alive,
                  cleared, dropped, events>>
  BY DEF Provision, rest, clients, clock, past
<1>3. pc["search"] = "provision"
  BY DEF Provision
<1>4. root' = TRUE /\ bufdir' = TRUE
  BY DEF Provision, MakeBuffer
<1>5. found = {} /\ index.listed = {} /\ \A p \in Position : blocks[p] = {}
  BY DEF IInv, Provision, Tree, Starting, NoIndex, NoBlocks
<1>6. \A b \in Agent : Current(b)' = Current(b)
  BY DEF Provision, Current
<1>7. (Contiguous /\ PublishedOnce /\ ListedIsReadable /\ CompletedIsFinished)'
  BY <1>2, PagesUntouched
<1>8. SessionOK'
  BY <1>1, <1>2, <1>4 DEF IInv, SessionOK
<1>9. Turns'
  BY <1>1, <1>2, <1>3 DEF IInv, Turns, Starting
<1>10. Tasks'
  BY <1>1, <1>2, <1>3 DEF IInv, Tasks, Starting, Inside, Locked, Task
<1>11. Tree'
  BY <1>2, <1>3, <1>4 DEF IInv, Tree, Starting
<1>12. Held'
  BY <1>1, <1>2, <1>3, <1>4, <1>5, <1>6 DEF IInv, Held, Turns, Inside, Locked, Agent
<1>13. Fresh'
  BY <1>1, <1>2 DEF IInv, Fresh, Task, Agent
<1>14. InHand'
  <2>1. Handling("search")'
    BY <1>1 DEF Handling, Publishing
  <2>2. Handling("worker")'
    BY <1>1, <1>2, <1>3, <1>4, <1>5, <1>6
       DEF IInv, InHand, Handling, Turns, Tasks, Inside, Locked, Publishing, Agent
  <2>3. QED
    BY <2>1, <2>2 DEF InHand, Agent
<1>15. Unpublished'
  BY <1>2, <1>5 DEF Unpublished
<1>16. Purged'
  BY <1>1, <1>2, <1>3, <1>4, <1>5, <1>6
     DEF IInv, Purged, Turns, Inside, Locked, Publishing, Agent, Task
<1>17. Listing'
  BY <1>1, <1>2 DEF IInv, Listing, Agent
<1>18. Finishing'
  BY <1>1, <1>2, <1>3 DEF IInv, Finishing, Inside, Locked, Final, Agent
<1>19. Undisturbed'
  BY <1>1, <1>4 DEF Undisturbed, Task, Inside, Locked, Final, Agent
<1>20. QED
  BY <1>7, <1>8, <1>9, <1>10, <1>11, <1>12, <1>13, <1>14, <1>15, <1>16, <1>17, <1>18, <1>19
     DEF IInv

(* The manifest is written. *)
LEMMA WriteManifestKeeps ==
  ASSUME IInv, crossed' = FALSE, WriteManifest
  PROVE  IInv'
<1>1. /\ pc' \in [Agent -> Steps] /\ pc'["search"] = "open"
      /\ pc'["worker"] = pc["worker"]
  BY DEF IInv, WriteManifest, Goto, SessionOK, Steps, Agent
<1>2. UNCHANGED <<index, blocks, bufdir, buffer, staged, locked, phases, job, waiting,
                  found, sweep, closing, cancelling, stale, idle, alive, cleared,
                  dropped, events>>
  BY DEF WriteManifest, buf, rest, clients, clock, past
<1>3. pc["search"] = "manifest"
  BY DEF WriteManifest
<1>4. root' = TRUE /\ manifest' = "running"
  BY DEF WriteManifest
<1>5. found = {} /\ index.listed = {} /\ \A p \in Position : blocks[p] = {}
  BY DEF IInv, WriteManifest, Tree, Starting, NoIndex, NoBlocks
<1>6. \A b \in Agent : Current(b)' = Current(b)
  BY DEF WriteManifest, Current
<1>7. SessionOK'
  BY <1>1, <1>2, <1>4 DEF IInv, SessionOK
<1>8. Turns'
  BY <1>1, <1>2, <1>3 DEF IInv, Turns, Starting
<1>9. Tasks'
  BY <1>1, <1>2, <1>3 DEF IInv, Tasks, Starting, Inside, Locked, Task
<1>10. Tree'
  BY <1>1, <1>2, <1>3, <1>4 DEF IInv, Tree, Starting
<1>11. Held'
  BY <1>1, <1>2, <1>3, <1>4, <1>5, <1>6 DEF IInv, Held, Turns, Inside, Locked, Agent
<1>12. Fresh'
  BY <1>1, <1>2 DEF IInv, Fresh, Task, Agent
<1>13. InHand'
  <2>1. Handling("search")'
    BY <1>1 DEF Handling, Publishing
  <2>2. Handling("worker")'
    BY <1>1, <1>2, <1>3, <1>4, <1>5, <1>6
       DEF IInv, InHand, Handling, Turns, Tasks, Inside, Locked, Publishing, Agent
  <2>3. QED
    BY <2>1, <2>2 DEF InHand, Agent
<1>14. Unpublished'
  BY <1>2, <1>5 DEF Unpublished
<1>15. Purged'
  BY <1>1, <1>2, <1>3, <1>4, <1>5, <1>6
     DEF IInv, Purged, Turns, Inside, Locked, Publishing, Agent, Task
<1>16. Contiguous'
  BY <1>2, <1>5 DEF Contiguous
<1>17. Listing'
  BY <1>1, <1>2, <1>3, <1>5 DEF IInv, Listing, Agent, Turns
<1>18. Finishing'
  BY <1>1, <1>2, <1>3 DEF IInv, Finishing, Inside, Locked, Final, Agent
<1>19. Undisturbed'
  BY <1>1, <1>4 DEF Undisturbed, Inside, Locked, Task, Final, Agent
<1>20. PublishedOnce'
  BY <1>2 DEF IInv, PublishedOnce, Written
<1>21. ListedIsReadable'
  BY <1>2, <1>5 DEF ListedIsReadable
<1>22. CompletedIsFinished'
  BY <1>4 DEF CompletedIsFinished
<1>23. QED
  BY <1>7, <1>8, <1>9, <1>10, <1>11, <1>12, <1>13, <1>14, <1>15, <1>16, <1>17, <1>18, <1>19,
    <1>20, <1>21, <1>22 DEF IInv

(* The first task begins, with what the full text index has found. *)
LEMMA OpenBufferKeeps ==
  ASSUME IInv, crossed' = FALSE, OpenBuffer
  PROVE  IInv'
<1>1. UNCHANGED <<manifest, index, blocks, buffer, staged, locked, phases, waiting,
                  found, sweep, closing, cancelling, stale, alive, cleared, dropped,
                  events>>
  BY DEF OpenBuffer, clients, past
<1>2. pc["search"] = "open"
  BY DEF OpenBuffer
<1>3. PICK findings \in {{}, Fulltext} : Begin("search", "fulltext", findings, FALSE)
  BY DEF IInv, OpenBuffer, Goto, tree, buf, rest, clients, clock, past, MakeBuffer
<1>4. /\ pc' \in [Agent -> Steps] /\ pc'["worker"] = pc["worker"]
      /\ pc'["search"] = IF findings = {} THEN "flush" ELSE "stage"
  BY <1>3 DEF IInv, SessionOK, Begin, Goto, Steps, Agent
<1>5. /\ job' \in [Agent -> Job] /\ job'["worker"] = job["worker"]
      /\ job'["search"].task = "fulltext" /\ job'["search"].todo = findings
      /\ job'["search"].final = FALSE /\ job'["search"].list = {}
  BY <1>3, BeginJob DEF IInv, Agent, Finding
<1>6. root' = TRUE /\ bufdir' = TRUE /\ idle' = FALSE
  BY DEF IInv, OpenBuffer, Goto, tree, buf, rest, clients, clock, past, MakeBuffer
<1>7. found = {} /\ index.listed = {} /\ \A p \in Position : blocks[p] = {}
  BY DEF IInv, OpenBuffer, Tree, Starting, NoIndex, NoBlocks
<1>8. (Contiguous /\ PublishedOnce /\ ListedIsReadable /\ CompletedIsFinished)'
  BY <1>1, PagesUntouched
<1>9. SessionOK'
  BY <1>1, <1>4, <1>5, <1>6, ZenonT(40) DEF IInv, SessionOK
<1>10. Turns'
  BY <1>2, <1>4, <1>5 DEF IInv, Turns, Tasks, Starting, Inside
<1>11. Tasks'
  BY <1>2, <1>4, <1>5 DEF IInv, Tasks, Starting, Final, Task
<1>12. Tree'
  BY <1>4, <1>6 DEF Tree, Starting
<1>13. Held'
  BY <1>1, <1>2, <1>4, <1>5, <1>6, <1>7 DEF IInv, Held, Turns, Inside, Locked, Agent
<1>14. Fresh'
  BY <1>1, <1>4, <1>5, <1>7 DEF IInv, Fresh, Agent
<1>15. InHand'
  <2>1. Handling("search")'
    BY <1>4 DEF Handling, Publishing
  <2>2. Handling("worker")'
    BY <1>1, <1>2, <1>4, <1>5, <1>6, <1>7
       DEF IInv, InHand, Handling, Turns, Tasks, Inside, Locked, Publishing, Agent
  <2>3. QED
    BY <2>1, <2>2 DEF InHand, Agent
<1>16. Unpublished'
  BY <1>1, <1>7 DEF Unpublished
<1>17. Purged'
  BY <1>1, <1>2, <1>4, <1>5, <1>6, <1>7
     DEF IInv, Purged, Turns, Inside, Locked, Publishing, Agent, Task
<1>18. Listing'
  BY <1>1, <1>4, <1>7 DEF IInv, Listing, Agent
<1>19. Finishing'
  BY <1>1, <1>2, <1>4, <1>5, <1>6, <1>7
    DEF IInv, Finishing, NoIndex, Tasks, Starting, Turns, Final, Inside, Locked, Agent
<1>20. Undisturbed'
  BY <1>1, <1>2, <1>4, <1>5, <1>6 DEF IInv, Undisturbed, Task, Inside, Locked, Final, Agent
<1>21. QED
  BY <1>8, <1>9, <1>10, <1>11, <1>12, <1>13, <1>14, <1>15, <1>16, <1>17, <1>18, <1>19, <1>20
     DEF IInv

(* The semantic backend answers. Nobody else is at work (~Crossing), so no *)
(* worker is at work and the index is open.                                *)
LEMMA SemanticAnswersKeeps ==
  ASSUME IInv, crossed' = FALSE, ~Crossing', SemanticAnswers
  PROVE  IInv'
<1>1. UNCHANGED <<root, manifest, index, blocks, bufdir, buffer, staged, locked,
                  phases, waiting, found, sweep, closing, cancelling, stale, idle,
                  alive, cleared, dropped, events>>
  BY DEF SemanticAnswers, tree, buf, rest, clients, clock, past
<1>2. pc["search"] = "await" /\ "semantic" \in waiting
  BY DEF SemanticAnswers
<1>3. PICK findings \in {{}, Semantic} : Begin("search", "semantic", findings, FALSE)
  BY DEF SemanticAnswers
<1>4. /\ pc' \in [Agent -> Steps] /\ pc'["worker"] = pc["worker"]
      /\ pc'["search"] = IF findings = {} THEN "flush" ELSE "stage"
  BY <1>3 DEF IInv, SessionOK, Begin, Goto, Steps, Agent
<1>5. /\ job' \in [Agent -> Job] /\ job'["worker"] = job["worker"]
      /\ job'["search"].task = "semantic" /\ job'["search"].todo = findings
      /\ job'["search"].final = FALSE /\ job'["search"].list = {}
  BY <1>3, BeginJob DEF IInv, Agent, Finding
<1>6. pc["worker"] \notin Inside /\ ~index.finished
  BY <1>1, <1>4, <1>5 DEF Crossing, Inside
<1>7. "semantic" \in phases
  BY <1>2 DEF IInv, SessionOK
<1>8. /\ Task \in {"fulltext", "grep"} /\ found \cap Semantic = {}
      /\ Task = "fulltext" => waiting = phases /\ ~Final
      /\ Task = "grep" => Final
  BY <1>2 DEF IInv, Tasks, Fresh
<1>9. (Contiguous /\ PublishedOnce /\ ListedIsReadable /\ CompletedIsFinished)'
  BY <1>1, PagesUntouched
<1>10. SessionOK'
  BY <1>1, <1>4, <1>5 DEF IInv, SessionOK
<1>11. Turns'
  BY <1>1, <1>2, <1>4, <1>5, <1>6, <1>7 DEF IInv, Turns, Inside, Locked, Task, Agent
<1>12. Tasks'
  BY <1>1, <1>2, <1>4, <1>5, <1>6, <1>7, <1>8
     DEF IInv, Tasks, Starting, Inside, Locked, Final, Task, Agent
<1>13. Tree'
  BY <1>1, <1>4 DEF IInv, Tree, Starting
<1>14. Held'
  BY <1>1, <1>2, <1>4, <1>5, <1>6, <1>7, <1>8 DEF IInv, Held, Turns, Inside, Locked, Agent
<1>15. Fresh'
  BY <1>1, <1>4, <1>5, <1>8 DEF IInv, Fresh, Task, Agent
<1>16. InHand'
  <2>1. Handling("search")'
    BY <1>1, <1>2, <1>4, <1>5, <1>6, <1>7, <1>8
       DEF IInv, InHand, Handling, Turns, Publishing, Inside, Locked, Agent
  <2>2. Handling("worker")'
    BY <1>1, <1>2, <1>4, <1>5, <1>6, <1>7, <1>8
       DEF IInv, InHand, Handling, Turns, Tasks, Inside, Locked, Publishing, Agent
  <2>3. QED
    BY <2>1, <2>2 DEF InHand, Agent
<1>17. Unpublished'
  BY <1>1, <1>2, <1>4, <1>5, <1>6, <1>7, <1>8
     DEF IInv, Unpublished, Turns, Inside, Locked, Publishing, Agent
<1>18. Purged'
  BY <1>1, <1>2, <1>4, <1>5, <1>6, <1>7, <1>8
     DEF IInv, Purged, Turns, Inside, Locked, Publishing, Agent, Task
<1>19. Listing'
  BY <1>1, <1>4, <1>5, <1>6 DEF IInv, Listing, Agent, Inside, Locked
<1>20. Finishing'
  BY <1>1, <1>2, <1>4, <1>5, <1>6 DEF IInv, Finishing, Final, Inside, Locked, Agent
<1>21. Undisturbed'
  BY <1>1, <1>2, <1>4, <1>5, <1>6, <1>8
     DEF IInv, Undisturbed, Tasks, Task, Inside, Locked, Final, Agent
<1>22. QED
  BY <1>9, <1>10, <1>11, <1>12, <1>13, <1>14, <1>15, <1>16, <1>17, <1>18, <1>19, <1>20, <1>21
     DEF IInv

(* The grep phase ends. The worker is not at work (~Crossing), so the last *)
(* flush has the buffer for itself.                                        *)
LEMMA GrepEndsKeeps ==
  ASSUME IInv, crossed' = FALSE, ~Crossing', GrepEnds
  PROVE  IInv'
<1>1. UNCHANGED <<root, manifest, index, blocks, bufdir, buffer, staged, locked,
                  phases, waiting, found, sweep, closing, cancelling, stale, idle,
                  alive, cleared, dropped>>
  BY DEF GrepEnds, tree, buf, clients, clock
<1>2. pc["search"] = "await" /\ "grep" \in waiting
  BY DEF GrepEnds
<1>e. events' \in Nat /\ events' <= MaxEvents[phases]
  BY EventsAreCounted DEF IInv, SessionOK, GrepEnds, Event
<1>3. PICK findings \in {{}} : Begin("search", "grep", findings, TRUE)
  BY DEF IInv, GrepEnds, Goto, tree, buf, rest, clients, clock, past
<1>4. /\ pc' \in [Agent -> Steps] /\ pc'["worker"] = pc["worker"]
      /\ pc'["search"] = IF findings = {} THEN "flush" ELSE "stage"
  BY <1>3 DEF IInv, SessionOK, Begin, Goto, Steps, Agent
<1>5. /\ job' \in [Agent -> Job] /\ job'["worker"] = job["worker"]
      /\ job'["search"].task = "grep" /\ job'["search"].todo = findings
      /\ job'["search"].final = TRUE /\ job'["search"].list = {}
  BY <1>3, BeginJob DEF IInv, Agent, Finding
<1>6. "grep" \in phases /\ Task \in {"fulltext", "semantic"} /\ ~Final /\ pc["worker"] \notin Inside
  <2>1. pc["worker"] \notin Inside
    BY <1>4 DEF Crossing, Inside
  <2>2. QED
    BY <1>2, <2>1 DEF IInv, Tasks, SessionOK
<1>7. (Contiguous /\ PublishedOnce /\ ListedIsReadable /\ CompletedIsFinished)'
  BY <1>1, PagesUntouched
<1>8. SessionOK'
  BY <1>1, <1>4, <1>5, <1>e DEF IInv, SessionOK
<1>9. Turns'
  BY <1>1, <1>2, <1>4, <1>5, <1>6 DEF IInv, Turns, Inside, Locked, Task, Agent
<1>10. Tasks'
  BY <1>1, <1>2, <1>4, <1>5, <1>6
     DEF IInv, Tasks, Starting, Inside, Locked, Final, Task, Agent
<1>11. Tree'
  BY <1>1, <1>4 DEF IInv, Tree, Starting
<1>12. Held'
  BY <1>1, <1>2, <1>4, <1>5, <1>6
     DEF IInv, Held, Turns, Inside, Locked, Current, Agent
<1>13. Fresh'
  BY <1>1, <1>2, <1>4, <1>5, <1>6 DEF IInv, Fresh, Tasks, Task, Agent
<1>14. InHand'
  <2>1. Handling("search")'
    BY <1>4 DEF Handling, Publishing
  <2>2. Handling("worker")'
    BY <1>1, <1>2, <1>4, <1>5, <1>6
       DEF IInv, InHand, Handling, Turns, Tasks, Inside, Locked, Publishing, Agent
  <2>3. QED
    BY <2>1, <2>2 DEF InHand, Agent
<1>15. Unpublished'
  BY <1>1, <1>2, <1>4, <1>5, <1>6
     DEF IInv, Unpublished, Turns, Inside, Locked, Publishing, Agent
<1>16. Purged'
  BY <1>1, <1>2, <1>4, <1>5, <1>6 DEF IInv, Purged, Turns, Inside, Locked, Publishing, Agent, Task
<1>17. Listing'
  BY <1>1, <1>4, <1>5 DEF IInv, Listing, Agent
<1>18. Finishing'
  BY <1>1, <1>2, <1>4, <1>5, <1>6 DEF IInv, Finishing, Tasks, Inside, Locked, Final, Agent
<1>19. Undisturbed'
  BY <1>1, <1>2, <1>4, <1>5, <1>6
     DEF IInv, Undisturbed, Tasks, Task, Inside, Locked, Final, Agent
<1>20. QED
  BY <1>7, <1>8, <1>9, <1>10, <1>11, <1>12, <1>13, <1>14, <1>15, <1>16, <1>17, <1>18, <1>19
     DEF IInv

(* Without a grep phase the search makes the last flush itself. *)
LEMMA LastFlushKeeps ==
  ASSUME IInv, crossed' = FALSE, LastFlush
  PROVE  IInv'
<1>1. UNCHANGED <<root, manifest, index, blocks, bufdir, buffer, staged, locked,
                  phases, waiting, found, sweep, closing, cancelling, stale, idle,
                  alive, cleared, dropped, events>>
  BY DEF LastFlush, tree, buf, rest, clients, clock, past
<1>2. /\ "grep" \notin phases
      /\ pc["search"] = "done" \/ (pc["search"] = "await" /\ waiting = {})
  BY DEF LastFlush
<1>3. PICK findings \in {{}} : Begin("search", "last", findings, TRUE)
  BY DEF LastFlush
<1>4. /\ pc' \in [Agent -> Steps] /\ pc'["worker"] = pc["worker"]
      /\ pc'["search"] = IF findings = {} THEN "flush" ELSE "stage"
  BY <1>3 DEF IInv, SessionOK, Begin, Goto, Steps, Agent
<1>5. /\ job' \in [Agent -> Job] /\ job'["worker"] = job["worker"]
      /\ job'["search"].task = "last" /\ job'["search"].todo = findings
      /\ job'["search"].final = TRUE /\ job'["search"].list = {}
  BY <1>3, BeginJob DEF IInv, Agent, Finding
<1>6. pc["worker"] \notin Inside \cup {"done", "failed"}
  BY DEF IInv, LastFlush, Turns
<1>7. ~Final /\ ~index.finished
  BY DEF IInv, LastFlush, Tasks, Finishing, Task
<1>8. (Contiguous /\ PublishedOnce /\ ListedIsReadable /\ CompletedIsFinished)'
  BY <1>1, PagesUntouched
<1>9. SessionOK'
  BY <1>1, <1>4, <1>5 DEF IInv, SessionOK
<1>10. Turns'
  BY <1>1, <1>2, <1>4, <1>5, <1>6 DEF IInv, Turns, Inside, Locked, Task, Agent
<1>11. Tasks'
  BY <1>1, <1>2, <1>4, <1>5, <1>6, <1>7
     DEF IInv, SessionOK, LastFlush, Tasks, Starting, Inside, Locked, Final, Task, Agent
<1>12. Tree'
  BY <1>1, <1>4 DEF IInv, Tree, Starting
<1>13. Held'
  BY <1>1, <1>2, <1>4, <1>5, <1>6, <1>7
     DEF IInv, Held, Turns, Inside, Locked, Current, Agent
<1>14. Fresh'
  BY <1>1, <1>2, <1>4, <1>5, <1>6 DEF IInv, Fresh, LastFlush, SessionOK, Task, Agent
<1>15. InHand'
  <2>1. Handling("search")'
    BY <1>4 DEF Handling, Publishing
  <2>2. Handling("worker")'
    BY <1>1, <1>2, <1>4, <1>5, <1>6, <1>7
       DEF IInv, InHand, Handling, Turns, Tasks, Inside, Locked, Publishing, Agent
  <2>3. QED
    BY <2>1, <2>2 DEF InHand, Agent
<1>16. Unpublished'
  BY <1>1, <1>2, <1>4, <1>5, <1>6, <1>7
     DEF IInv, Unpublished, Turns, Inside, Locked, Publishing, Agent
<1>17. Purged'
  BY <1>1, <1>2, <1>4, <1>5, <1>6, <1>7
     DEF IInv, Purged, Turns, Inside, Locked, Publishing, Agent, Task
<1>18. Listing'
  BY <1>1, <1>4, <1>5 DEF IInv, Listing, Agent
<1>19. Finishing'
  BY <1>1, <1>2, <1>4, <1>5, <1>6, <1>7 DEF IInv, Finishing, Inside, Locked, Final, Agent
<1>20. Undisturbed'
  BY <1>1, <1>2, <1>4, <1>5, <1>7 DEF IInv, Undisturbed, Task, Inside, Locked, Final, Agent
<1>21. QED
  BY <1>8, <1>9, <1>10, <1>11, <1>12, <1>13, <1>14, <1>15, <1>16, <1>17, <1>18, <1>19, <1>20
     DEF IInv

(* A task is over; nobody waits for a backend any more. *)
LEMMA EndTaskKeeps ==
  ASSUME IInv, crossed' = FALSE, Task = "semantic" => manifest # "none", EndTask
  PROVE  IInv'
<1>1. /\ pc' \in [Agent -> Steps] /\ pc'["search"] = "await"
      /\ pc'["worker"] = pc["worker"]
  BY DEF IInv, EndTask, Goto, SessionOK, Steps, Agent, FailWithoutManifest, Task
<1>2. UNCHANGED <<root, manifest, index, blocks, bufdir, buffer, staged, locked,
                  phases, job, found, sweep, closing, cancelling, stale, idle, alive,
                  cleared, dropped, events>>
  BY DEF EndTask, tree, buf, rest, clients, clock, past, FailWithoutManifest, Task
<1>3. pc["search"] = "done"
  BY DEF EndTask
<1>4. Task \in {"semantic", "grep"} /\ waiting' = waiting \ {Task}
  BY DEF IInv, EndTask, Task, Tasks, FailWithoutManifest
<1>5. \A b \in Agent : Current(b)' = Current(b)
  BY <1>2 DEF Current
<1>6. (Contiguous /\ PublishedOnce /\ ListedIsReadable /\ CompletedIsFinished)'
  BY <1>2, PagesUntouched
<1>7. SessionOK'
  BY <1>1, <1>2, <1>4 DEF IInv, SessionOK
<1>8. Turns'
  BY <1>1, <1>2, <1>3 DEF IInv, Turns
<1>9. Tasks'
  BY <1>1, <1>2, <1>3, <1>4 DEF IInv, Tasks, Starting, Inside, Locked, Final, Task, Agent
<1>10. Tree'
  BY <1>1, <1>2 DEF IInv, Tree, Starting
<1>11. Held'
  BY <1>1, <1>2, <1>3, <1>4, <1>5
     DEF IInv, Held, Turns, Tasks, Inside, Locked, Agent
<1>12. Fresh'
  BY <1>1, <1>2, <1>4 DEF IInv, Fresh, Task, Agent
<1>13. InHand'
  <2>1. Handling("search")'
    BY <1>1 DEF Handling, Publishing
  <2>2. Handling("worker")'
    BY <1>1, <1>2, <1>3, <1>4, <1>5
       DEF IInv, InHand, Handling, Turns, Tasks, Inside, Locked, Publishing, Agent
  <2>3. QED
    BY <2>1, <2>2 DEF InHand, Agent
<1>14. Unpublished'
  BY <1>1, <1>2, <1>3, <1>4, <1>5
     DEF IInv, Unpublished, Turns, Inside, Locked, Publishing, Agent
<1>15. Purged'
  BY <1>1, <1>2, <1>3, <1>4, <1>5 DEF IInv, Purged, Turns, Inside, Locked, Publishing, Agent, Task
<1>16. Listing'
  BY <1>1, <1>2 DEF IInv, Listing, Agent
<1>17. Finishing'
  BY <1>1, <1>2, <1>3 DEF IInv, Finishing, Final, Inside, Locked, Agent
<1>18. Undisturbed'
  BY <1>1, <1>2, <1>3, <1>4
     DEF IInv, Undisturbed, Final, Tasks, Task, Inside, Locked, Agent
<1>19. QED
  BY <1>6, <1>7, <1>8, <1>9, <1>10, <1>11, <1>12, <1>13, <1>14, <1>15, <1>16, <1>17, <1>18
     DEF IInv

(* The last task was a last flush, and it has finished the index unless    *)
(* the cleaner has been there (Undisturbed).                               *)
LEMMA CompleteKeeps ==
  ASSUME IInv, crossed' = FALSE, manifest # "none", Complete
  PROVE  IInv'
<1>1. /\ pc' \in [Agent -> Steps] /\ pc'["search"] = "over"
      /\ pc'["worker"] = pc["worker"]
  BY DEF IInv, Complete, Goto, SessionOK, Steps, Agent, FailWithoutManifest
<1>2. UNCHANGED <<root, index, blocks, bufdir, buffer, staged, locked, phases, job,
                  waiting, found, sweep, closing, cancelling, stale, idle, alive,
                  cleared, dropped, events>>
  BY DEF Complete, buf, rest, clients, clock, past, FailWithoutManifest
<1>3. /\ manifest' = "completed"
      /\ \/ pc["search"] = "done" /\ Task = "last"
         \/ /\ pc["search"] = "await" /\ waiting = {} /\ "grep" \in phases
            /\ Task \in {"semantic", "grep"}
  BY DEF IInv, Complete, FailWithoutManifest, Task, Tasks
<1>4. \A b \in Agent : Current(b)' = Current(b)
  BY <1>2 DEF Current
<1>5. SessionOK'
  BY <1>1, <1>2, <1>3 DEF IInv, SessionOK
<1>6. Turns'
  BY <1>1, <1>2, <1>3 DEF IInv, Turns
<1>7. Tasks'
  BY <1>1 DEF Tasks, Starting, Inside, Locked
<1>8. Tree'
  BY <1>1, <1>2 DEF IInv, Tree, Starting
<1>9. Held'
  BY <1>1, <1>2, <1>3, <1>4 DEF IInv, Held, Turns, Inside, Locked, Agent
<1>10. Fresh'
  BY <1>1, <1>2 DEF IInv, Fresh, Task, Agent
<1>11. InHand'
  <2>1. Handling("search")'
    BY <1>1 DEF Handling, Publishing
  <2>2. Handling("worker")'
    BY <1>1, <1>2, <1>3, <1>4
       DEF IInv, InHand, Handling, Turns, Tasks, Inside, Locked, Publishing, Agent
  <2>3. QED
    BY <2>1, <2>2 DEF InHand, Agent
<1>12. Unpublished'
  BY <1>1, <1>2, <1>3, <1>4 DEF IInv, Unpublished, Turns, Inside, Locked, Publishing, Agent
<1>13. Purged'
  BY <1>1, <1>2, <1>3, <1>4 DEF IInv, Purged, Turns, Inside, Locked, Publishing, Agent, Task
<1>14. Contiguous'
  BY <1>2 DEF IInv, Contiguous
<1>15. Listing'
  BY <1>1, <1>2 DEF IInv, Listing, Agent
<1>16. Finishing'
  BY <1>1, <1>2 DEF IInv, Finishing, Inside, Locked, Final, Agent
<1>17. Undisturbed'
  BY <1>1, <1>3 DEF Undisturbed, Inside, Locked, Task, Final, Agent
<1>18. PublishedOnce'
  BY <1>2 DEF IInv, PublishedOnce, Written
<1>19. ListedIsReadable'
  BY <1>2 DEF IInv, ListedIsReadable, Written
<1>20. CompletedIsFinished'
  BY <1>2, <1>3 DEF IInv, CompletedIsFinished, Undisturbed, Tasks, Inside, Locked, Final, Task
<1>21. QED
  BY <1>5, <1>6, <1>7, <1>8, <1>9, <1>10, <1>11, <1>12, <1>13, <1>14, <1>15, <1>16, <1>17,
    <1>18, <1>19, <1>20 DEF IInv

(* A search that failed takes its session away. *)
LEMMA RemoveSessionKeeps ==
  ASSUME IInv, crossed' = FALSE, RemoveSession
  PROVE  IInv'
<1>1. /\ pc' \in [Agent -> Steps] /\ pc'["search"] = "lost"
      /\ pc'["worker"] = pc["worker"]
  BY DEF IInv, RemoveSession, Goto, SessionOK, Steps, Agent
<1>2. UNCHANGED <<phases, job, waiting, found, sweep, closing, cancelling, stale,
                  idle, alive, cleared, dropped, events>>
  BY DEF RemoveSession, rest, clients, clock, past
<1>3. pc["search"] = "failed"
  BY DEF RemoveSession
<1>4. root' = FALSE /\ manifest' = "none" /\ index' = NoIndex /\ blocks' = NoBlocks
  BY DEF RemoveSession, RemoveAll
<1>5. bufdir' = FALSE /\ buffer' = {} /\ staged' = {} /\ locked' = FALSE
  BY DEF RemoveSession, RemoveAll
<1>6. \A p \in Position : blocks'[p] = {}
  BY <1>4 DEF NoBlocks
<1>7. index' \in [there : BOOLEAN, listed : SUBSET Position, finished : BOOLEAN]
  BY <1>4 DEF NoIndex
<1>8. ~index'.finished /\ index'.listed = {}
  BY <1>4 DEF NoIndex
<1>9. blocks' \in [Position -> SUBSET Finding]
  BY <1>4 DEF NoBlocks
<1>10. root' \in BOOLEAN /\ bufdir' \in BOOLEAN /\ locked' \in BOOLEAN /\ manifest' \in {"none"}
  BY <1>4, <1>5
<1>11. \A b \in Agent : Current(b)' = Current(b)
  BY DEF RemoveSession, Current
<1>12. SessionOK'
  <2>1. SessionOK
    BY DEF IInv
  <2>2. QED
    BY <2>1, <1>1, <1>2, <1>10, <1>5, <1>7, <1>9 DEF SessionOK
<1>13. Turns'
  BY <1>1, <1>2, <1>3 DEF IInv, Turns
<1>14. Tasks'
  BY <1>1 DEF Tasks, Starting, Inside, Locked
<1>15. Tree'
  BY <1>1, <1>5, <1>10 DEF Tree, Starting
<1>16. Held'
  BY <1>5 DEF Held
<1>17. Fresh'
  BY <1>1, <1>2, <1>5, <1>6 DEF IInv, Fresh, Task, Agent
<1>18. InHand'
  <2>1. Handling("search")'
    BY <1>1 DEF Handling, Publishing
  <2>2. Handling("worker")'
    BY <1>1, <1>2, <1>3, <1>4, <1>5, <1>6, <1>7, <1>8, <1>9, <1>10, <1>11
       DEF IInv, InHand, Handling, Turns, Tasks, Inside, Locked, Publishing, Agent
  <2>3. QED
    BY <2>1, <2>2 DEF InHand, Agent
<1>19. Unpublished'
  BY <1>6 DEF Unpublished
<1>20. Purged'
  BY <1>1, <1>2, <1>3, <1>4, <1>5, <1>6, <1>7, <1>8, <1>9, <1>10, <1>11
     DEF IInv, Purged, Turns, Inside, Locked, Publishing, Agent, Task
<1>21. Contiguous'
  BY <1>10 DEF Contiguous
<1>22. Listing'
  BY <1>4 DEF Listing
<1>23. Finishing'
  BY <1>1, <1>8 DEF IInv, Finishing, Inside, Locked, Final, Agent
<1>24. Undisturbed'
  BY <1>1, <1>2, <1>3 DEF IInv, Undisturbed, Inside, Locked, Task, Final, Agent
<1>25. PublishedOnce'
  BY <1>6 DEF PublishedOnce, Written
<1>26. ListedIsReadable'
  BY <1>10 DEF ListedIsReadable
<1>27. CompletedIsFinished'
  BY <1>10 DEF CompletedIsFinished
<1>28. QED
  BY <1>12, <1>13, <1>14, <1>15, <1>16, <1>17, <1>18, <1>19, <1>20, <1>21, <1>22, <1>23,
    <1>24, <1>25, <1>26, <1>27 DEF IInv

(* What the clock and the readers do. *)
Bystander == Cancel \/ GetPage \/ Age \/ Rest \/ Sweep \/ UNCHANGED vars

(* Clocks and readers leave the session alone. *)
LEMMA BystanderTyped ==
  ASSUME IInv, crossed' = FALSE, Bystander
  PROVE  /\ UNCHANGED <<tree, buf, agents, cleared, dropped, closing>>
         /\ sweep' \in BOOLEAN /\ cancelling' \in BOOLEAN /\ stale' \in BOOLEAN
         /\ idle' \in BOOLEAN /\ alive' \in BOOLEAN /\ events' \in Nat /\ events' <= MaxEvents[phases]
<1> USE DEF tree, buf, agents, clients, clock, past
<1>1. /\ sweep \in BOOLEAN /\ cancelling \in BOOLEAN /\ stale \in BOOLEAN
      /\ idle \in BOOLEAN /\ alive \in BOOLEAN /\ events \in Nat /\ events <= MaxEvents[phases]
  BY DEF IInv, SessionOK
<1>0. MaxEvents[phases] \in Nat
  BY EventsAreCounted DEF IInv, SessionOK
<1>2. ASSUME Event PROVE events' \in Nat /\ events' <= MaxEvents[phases]
  BY <1>0, <1>1, <1>2 DEF Event
<1>3. CASE Cancel
  BY <1>1, <1>2, <1>3 DEF Cancel
<1>4. CASE GetPage
  BY <1>1, <1>2, <1>4 DEF GetPage
<1>5. CASE Age
  BY <1>1, <1>2, <1>5 DEF Age, Interfere
<1>6. CASE Rest
  BY <1>1, <1>2, <1>6 DEF Rest, Interfere
<1>7. CASE Sweep
  BY <1>1, <1>7 DEF Sweep
<1>8. CASE UNCHANGED vars
  BY <1>1, <1>8 DEF vars, rest
<1>9. QED
  BY <1>3, <1>4, <1>5, <1>6, <1>7, <1>8 DEF Bystander

(* What clocks, readers and the sweep do keeps the invariant. *)
LEMMA BystanderKeeps ==
  ASSUME IInv, crossed' = FALSE, Bystander
  PROVE  IInv'
<1>1. UNCHANGED <<root, manifest, index, blocks, bufdir, buffer, staged, locked, phases, pc,
        job, waiting, found, cleared, dropped, closing>>
  BY BystanderTyped DEF tree, buf, agents
<1>2. /\ sweep' \in BOOLEAN /\ cancelling' \in BOOLEAN /\ stale' \in BOOLEAN
      /\ idle' \in BOOLEAN /\ alive' \in BOOLEAN /\ events' \in Nat /\ events' <= MaxEvents[phases]
  BY BystanderTyped
<1>3. \A b \in Agent : Current(b)' = Current(b)
  BY <1>1 DEF Current
<1>4. (Contiguous /\ PublishedOnce /\ ListedIsReadable /\ CompletedIsFinished)'
  BY <1>1, PagesUntouched
<1>5. SessionOK'
  BY <1>1, <1>2 DEF IInv, SessionOK
<1>6. Turns'
  BY <1>1 DEF IInv, Turns, Task
<1>7. Tasks'
  BY <1>1 DEF IInv, Tasks, Final, Task
<1>8. Tree'
  BY <1>1 DEF IInv, Tree
<1>9. Held'
  BY <1>1, <1>3 DEF IInv, Held
<1>10. Fresh'
  BY <1>1 DEF IInv, Fresh, Task
<1>11. InHand'
  <2>1. ASSUME NEW a \in Agent
        PROVE  Handling(a)'
    BY <1>1 DEF IInv, InHand, Handling
  <2>2. QED
    BY <2>1 DEF InHand
<1>12. Unpublished'
  BY <1>1 DEF IInv, Unpublished
<1>13. Purged'
  BY <1>1, <1>2, <1>3 DEF IInv, Purged, Turns, Inside, Locked, Publishing, Agent, Task
<1>14. Listing'
  BY <1>1 DEF IInv, Listing
<1>15. Finishing'
  BY <1>1 DEF IInv, Finishing, Final, Inside, Locked, Agent
<1>16. Undisturbed'
  BY <1>1, <1>3 DEF IInv, Undisturbed, Final, Agent, Task, Inside, Locked
<1>17. QED
  BY <1>4, <1>5, <1>6, <1>7, <1>8, <1>9, <1>10, <1>11, <1>12, <1>13, <1>14, <1>15, <1>16
     DEF IInv

(* The status becomes cancelled, unless the manifest has gone. *)
LEMMA SetCancelledKeeps ==
  ASSUME IInv, crossed' = FALSE, SetCancelled
  PROVE  IInv'
<1>1. UNCHANGED <<index, blocks, bufdir, buffer, staged, locked, phases, pc, job,
                  waiting, found, sweep, closing, stale, idle, alive, cleared,
                  dropped, events>>
  BY DEF SetCancelled, buf, clock, past, agents
<1>2. root' = TRUE /\ cancelling' = FALSE
  BY DEF SetCancelled
<1>3. (manifest' = "none" <=> manifest = "none") /\ manifest' \in {"none", "cancelled"}
  BY DEF SetCancelled
<1>4. \A b \in Agent : Current(b)' = Current(b)
  BY <1>1 DEF Current
<1>5. SessionOK'
  BY <1>1, <1>2, <1>3, <1>4, ZenonT(40) DEF IInv, SessionOK
<1>6. Turns'
  BY <1>1 DEF IInv, Turns, Task
<1>7. Tasks'
  BY <1>1 DEF IInv, Tasks, Final, Task
<1>8. Tree'
  BY <1>1, <1>2, <1>3 DEF IInv, Tree
<1>9. Held'
  BY <1>1, <1>4 DEF IInv, Held
<1>10. Fresh'
  BY <1>1 DEF IInv, Fresh, Task
<1>11. InHand'
  <2>1. ASSUME NEW a \in Agent
        PROVE  Handling(a)'
    BY <1>1, <1>3 DEF IInv, InHand, Handling
  <2>2. QED
    BY <2>1 DEF InHand
<1>12. Unpublished'
  BY <1>1 DEF IInv, Unpublished
<1>13. Purged'
  BY <1>1, <1>2, <1>3, <1>4 DEF IInv, Purged, Turns, Inside, Locked, Publishing, Agent, Task
<1>14. Contiguous'
  BY <1>1, <1>3 DEF IInv, Contiguous
<1>15. Listing'
  BY <1>1, <1>3 DEF IInv, Listing
<1>16. Finishing'
  BY <1>1 DEF IInv, Finishing, Final, Inside, Locked, Agent
<1>17. Undisturbed'
  BY <1>1, <1>3, <1>4 DEF IInv, Undisturbed, Final, Agent, Task, Inside, Locked
<1>18. PublishedOnce'
  BY <1>1 DEF IInv, PublishedOnce, Written
<1>19. ListedIsReadable'
  BY <1>1, <1>3 DEF IInv, ListedIsReadable, Written
<1>20. CompletedIsFinished'
  BY <1>3 DEF CompletedIsFinished
<1>21. QED
  BY <1>5, <1>6, <1>7, <1>8, <1>9, <1>10, <1>11, <1>12, <1>13, <1>14, <1>15, <1>16, <1>17,
    <1>18, <1>19, <1>20 DEF IInv

(* The status becomes closed. *)
LEMMA CloseKeeps ==
  ASSUME IInv, crossed' = FALSE, Close
  PROVE  IInv'
<1>1. UNCHANGED <<root, index, blocks, bufdir, buffer, staged, locked, phases, pc,
                  job, waiting, found, sweep, cancelling, stale, alive, cleared,
                  dropped>>
  BY DEF Close, buf, agents
<1>2. manifest # "none" /\ manifest' = "closed" /\ idle' = FALSE
  BY DEF Close
<1>3. closing' \subseteq Finding \cup {"lock"}
  BY DEF IInv, Close, SessionOK
<1>0. MaxEvents[phases] \in Nat
  BY EventsAreCounted DEF IInv, SessionOK
<1>4. events' \in Nat /\ events' <= MaxEvents[phases]
  BY <1>0 DEF IInv, Close, SessionOK, Event
<1>5. \A b \in Agent : Current(b)' = Current(b)
  BY <1>1 DEF Current
<1>6. SessionOK'
  <2>1. SessionOK
    BY DEF IInv
  <2>2. /\ (root \in BOOLEAN /\ bufdir \in BOOLEAN /\ locked \in BOOLEAN)'
        /\ (index \in [there : BOOLEAN, listed : SUBSET Position, finished : BOOLEAN])'
        /\ (blocks \in [Position -> SUBSET Finding] /\ buffer \subseteq Finding)'
    BY <1>1, <2>1 DEF SessionOK
  <2>3. /\ (staged \subseteq Finding /\ job \in [Agent -> Job] /\ pc \in [Agent -> Steps])'
        /\ (phases \in Requests /\ waiting \subseteq phases /\ found \subseteq Finding)'
        /\ (sweep \in BOOLEAN /\ cancelling \in BOOLEAN /\ stale \in BOOLEAN)'
        /\ (alive \in BOOLEAN /\ cleared \in BOOLEAN /\ dropped \subseteq Finding)'
    BY <1>1, <2>1 DEF SessionOK
  <2>4. /\ (manifest \in {"none", "running", "completed", "cancelled", "closed"})'
        /\ (idle \in BOOLEAN /\ closing \subseteq Finding \cup {"lock"})'
        /\ (events \in Nat /\ events <= MaxEvents[phases])'
    BY <1>1, <1>2, <1>3, <1>4
  <2>5. QED
    BY <2>2, <2>3, <2>4 DEF SessionOK
<1>7. Turns'
  BY <1>1 DEF IInv, Turns, Task
<1>8. Tasks'
  BY <1>1 DEF IInv, Tasks, Final, Task
<1>9. Tree'
  BY <1>1, <1>2 DEF IInv, Tree
<1>10. Held'
  BY <1>1, <1>5 DEF IInv, Held
<1>11. Fresh'
  BY <1>1 DEF IInv, Fresh, Task
<1>12. InHand'
  <2>1. ASSUME NEW a \in Agent
        PROVE  Handling(a)'
    BY <1>1, <1>2 DEF IInv, InHand, Handling
  <2>2. QED
    BY <2>1 DEF InHand
<1>13. Unpublished'
  BY <1>1 DEF IInv, Unpublished
<1>14. Purged'
  BY <1>1, <1>2, <1>3, <1>4, <1>5 DEF IInv, Purged, Turns, Inside, Locked, Publishing, Agent, Task
<1>15. Contiguous'
  BY <1>1, <1>2 DEF IInv, Contiguous
<1>16. Listing'
  BY <1>1, <1>2 DEF IInv, Listing
<1>17. Finishing'
  BY <1>1 DEF IInv, Finishing, Final, Inside, Locked, Agent
<1>18. Undisturbed'
  BY <1>1, <1>2, <1>5 DEF IInv, Undisturbed, Final, Agent, Task, Inside, Locked
<1>19. PublishedOnce'
  BY <1>1 DEF IInv, PublishedOnce, Written
<1>20. ListedIsReadable'
  BY <1>1, <1>2 DEF IInv, ListedIsReadable, Written
<1>21. CompletedIsFinished'
  BY <1>2 DEF CompletedIsFinished
<1>22. QED
  BY <1>6, <1>7, <1>8, <1>9, <1>10, <1>11, <1>12, <1>13, <1>14, <1>15, <1>16, <1>17, <1>18,
    <1>19, <1>20, <1>21 DEF IInv

(* A close removes a file of the buffer; a finding that goes is on record  *)
(* in dropped.                                                             *)
LEMMA UnlinkKeeps ==
  ASSUME IInv, crossed' = FALSE, NEW f, Unlink(f)
  PROVE  IInv'
<1>1. UNCHANGED <<root, manifest, index, blocks, bufdir, phases, pc, job, waiting,
                  found, sweep, cancelling, stale, idle, alive, cleared, events>>
  BY DEF Unlink, tree, clock, agents
<1>2. buffer' = buffer \ {f} /\ staged' = staged \ {f} /\ dropped' = dropped \cup ({f} \cap (buffer \cup staged))
  BY DEF Unlink
<1>3. locked' \in BOOLEAN /\ (locked' => locked)
  BY DEF IInv, Unlink, SessionOK
<1>4. closing' \subseteq Finding \cup {"lock"}
  BY DEF IInv, Unlink, SessionOK
<1>5. \A b \in Agent : Current(b)' = Current(b)
  BY <1>1 DEF Current
<1>6. (Contiguous /\ PublishedOnce /\ ListedIsReadable /\ CompletedIsFinished)'
  BY <1>1, PagesUntouched
<1>7. SessionOK'
  BY <1>1, <1>2, <1>3, <1>4 DEF IInv, SessionOK
<1>8. Turns'
  BY <1>1 DEF IInv, Turns, Task
<1>9. Tasks'
  BY <1>1 DEF IInv, Tasks, Final, Task
<1>10. Tree'
  BY <1>1, <1>2 DEF IInv, Tree
<1>11. Held'
  BY <1>1, <1>2, <1>3, <1>5 DEF IInv, Held
<1>12. Fresh'
  BY <1>1, <1>2 DEF IInv, Fresh, Task
<1>13. InHand'
  <2>1. ASSUME NEW a \in Agent
        PROVE  Handling(a)'
    BY <1>1, <1>2 DEF IInv, InHand, Handling
  <2>2. QED
    BY <2>1 DEF InHand
<1>14. Unpublished'
  BY <1>1, <1>2 DEF IInv, Unpublished
<1>15. Purged'
  BY <1>1, <1>2, <1>3, <1>4, <1>5 DEF IInv, Purged, Turns, Inside, Locked, Publishing, Agent, Task
<1>16. Listing'
  BY <1>1, <1>2 DEF IInv, Listing
<1>17. Finishing'
  BY <1>1, <1>2 DEF IInv, Finishing, Final, Inside, Locked, Agent
<1>18. Undisturbed'
  BY <1>1, <1>2, <1>5 DEF IInv, Undisturbed, Final, Agent, Task, Inside, Locked
<1>19. QED
  BY <1>6, <1>7, <1>8, <1>9, <1>10, <1>11, <1>12, <1>13, <1>14, <1>15, <1>16, <1>17, <1>18
     DEF IInv

(* A restart ends every thread and leaves the files as they are. *)
LEMMA RestartKeeps ==
  ASSUME IInv, crossed' = FALSE, Restart
  PROVE  IInv'
<1>1. UNCHANGED <<root, manifest, index, blocks, bufdir, buffer, staged, locked,
                  phases, job, waiting, found, stale, idle, cleared, dropped>>
  BY DEF Restart, tree, buf
<1>2. /\ pc' \in [Agent -> Steps] /\ pc'["search"] = "gone" /\ pc'["worker"] = "gone"
      /\ \A a \in Agent : pc'[a] = "gone"
  BY DEF Restart, Steps, Agent
<1>3. alive' = FALSE /\ sweep' = FALSE /\ cancelling' = FALSE /\ closing' = {}
  BY DEF Restart
<1>0. MaxEvents[phases] \in Nat
  BY EventsAreCounted DEF IInv, SessionOK
<1>4. events' \in Nat /\ events' <= MaxEvents[phases]
  BY <1>0 DEF IInv, Restart, SessionOK, Event
<1>5. \A b \in Agent : Current(b)' = Current(b)
  BY DEF Restart, Current
<1>6. (Contiguous /\ PublishedOnce /\ ListedIsReadable /\ CompletedIsFinished)'
  BY <1>1, PagesUntouched
<1>7. SessionOK'
  <2>1. pc' \in [Agent -> Steps] /\ events' \in Nat /\ events' <= MaxEvents[phases]'
    BY <1>1, <1>2, <1>4
  <2>2. SessionOK
    BY DEF IInv
  <2>3. /\ (root \in BOOLEAN /\ bufdir \in BOOLEAN /\ locked \in BOOLEAN)'
        /\ (manifest \in {"none", "running", "completed", "cancelled", "closed"})'
        /\ (index \in [there : BOOLEAN, listed : SUBSET Position, finished : BOOLEAN])'
    BY <1>1, <2>2 DEF SessionOK
  <2>4. /\ (blocks \in [Position -> SUBSET Finding] /\ buffer \subseteq Finding)'
        /\ (staged \subseteq Finding /\ job \in [Agent -> Job])'
        /\ (phases \in Requests /\ waiting \subseteq phases /\ found \subseteq Finding)'
    BY <1>1, <2>2 DEF SessionOK
  <2>5. (stale \in BOOLEAN /\ idle \in BOOLEAN /\ cleared \in BOOLEAN /\ dropped \subseteq Finding)'
    BY <1>1, <2>2 DEF SessionOK
  <2>6. (sweep \in BOOLEAN /\ cancelling \in BOOLEAN /\ alive \in BOOLEAN)'
        /\ (closing \subseteq Finding \cup {"lock"})'
    BY <1>3
  <2>7. QED
    BY <2>1, <2>3, <2>4, <2>5, <2>6 DEF SessionOK
<1>8. Turns'
  BY <1>1, <1>2, <1>3, <1>4, <1>5
     DEF IInv, Turns, Tasks, Starting, Inside, Locked, Final, Task, Agent
<1>9. Tasks'
  BY <1>2 DEF Tasks, Starting, Inside, Locked
<1>10. Tree'
  BY <1>1, <1>2 DEF IInv, Tree, Starting
<1>11. Held'
  BY <1>2 DEF Held
<1>12. Fresh'
  BY <1>1, <1>2 DEF IInv, Fresh, Task
<1>13. InHand'
  <2>1. ASSUME NEW a \in Agent
        PROVE  Handling(a)'
    BY <1>1, <1>2, <1>3, <1>4, <1>5 DEF IInv, InHand, Handling, Publishing
  <2>2. QED
    BY <2>1 DEF InHand
<1>14. Unpublished'
  BY <1>2 DEF Unpublished
<1>15. Purged'
  BY <1>2 DEF Purged, Inside, Locked, Publishing, Task, Agent
<1>16. Listing'
  BY <1>1, <1>2 DEF IInv, Listing
<1>17. Finishing'
  BY <1>1, <1>2, <1>3, <1>4, <1>5 DEF IInv, Finishing, Turns, Inside, Locked, Final, Agent
<1>18. Undisturbed'
  BY <1>2 DEF Undisturbed, Inside, Locked, Task, Final, Agent
<1>19. QED
  BY <1>6, <1>7, <1>8, <1>9, <1>10, <1>11, <1>12, <1>13, <1>14, <1>15, <1>16, <1>17, <1>18
     DEF IInv

(* The cleaner removes the session; what agents hold in their hands fits   *)
(* the empty directory.                                                    *)
LEMMA PurgeKeeps ==
  ASSUME IInv, crossed' = FALSE, Purge
  PROVE  IInv'
<1>1. UNCHANGED <<phases, pc, job, waiting, found, closing, cancelling, stale, idle,
                  alive, dropped, events>>
  BY DEF Purge, clock, agents
<1>2. root' = FALSE /\ manifest' = "none" /\ index' = NoIndex /\ blocks' = NoBlocks
  BY DEF Purge, RemoveAll
<1>3. bufdir' = FALSE /\ buffer' = {} /\ staged' = {} /\ locked' = FALSE
  BY DEF Purge, RemoveAll
<1>4. \A p \in Position : blocks'[p] = {}
  BY <1>2 DEF NoBlocks
<1>5. index' \in [there : BOOLEAN, listed : SUBSET Position, finished : BOOLEAN]
  BY <1>2 DEF NoIndex
<1>6. ~index'.finished /\ index'.listed = {}
  BY <1>2 DEF NoIndex
<1>7. blocks' \in [Position -> SUBSET Finding]
  BY <1>2 DEF NoBlocks
<1>8. root' \in BOOLEAN /\ bufdir' \in BOOLEAN /\ locked' \in BOOLEAN /\ manifest' \in {"none"}
  BY <1>2, <1>3
<1>9. sweep' \in BOOLEAN
  BY DEF IInv, Purge, Goto, tree, buf, rest, clients, clock, past
<1>10. cleared' \in BOOLEAN /\ (cleared' <=> cleared \/ root)
  BY DEF IInv, Purge, SessionOK
<1>11. ~cleared' => ~cleared /\ manifest = "none" /\ ~bufdir
  BY <1>10 DEF IInv, Tree
<1>12. \A b \in Agent : Current(b)' = Current(b)
  BY <1>1 DEF Current
<1>13. (Turns /\ Tasks)'
  BY <1>1 DEF IInv, Turns, Tasks, Task, Final
<1>14. SessionOK'
  <2>1. SessionOK
    BY DEF IInv
  <2>2. QED
    BY <2>1, <1>1, <1>8, <1>3, <1>5, <1>7, <1>10, <1>9 DEF SessionOK
<1>15. Tree'
  BY <1>1, <1>2, <1>3 DEF IInv, Tree
<1>16. Held'
  BY <1>3 DEF Held
<1>17. Fresh'
  BY <1>1, <1>3, <1>4 DEF IInv, Fresh, Task
<1>18. InHand'
  <2>1. ASSUME NEW a \in Agent
        PROVE  Handling(a)'
    BY <1>1, <1>4, <1>8 DEF IInv, InHand, Handling
  <2>2. QED
    BY <2>1 DEF InHand
<1>19. Unpublished'
  BY <1>4 DEF Unpublished
<1>20. Purged'
  BY <1>1, <1>2, <1>3, <1>4, <1>5, <1>6, <1>7, <1>8, <1>9, <1>10, <1>11, <1>12
     DEF IInv, Purged, Turns, Inside, Locked, Publishing, Agent, Task
<1>21. Contiguous'
  BY <1>8 DEF Contiguous
<1>22. Listing'
  BY <1>8 DEF Listing
<1>23. Finishing'
  BY <1>1, <1>3, <1>6 DEF IInv, Finishing, Final, Inside, Locked, Agent
<1>24. Undisturbed'
  BY <1>1, <1>11 DEF IInv, Undisturbed, Task, Inside, Locked, Final, Agent
<1>25. PublishedOnce'
  BY <1>4 DEF PublishedOnce, Written
<1>26. ListedIsReadable'
  BY <1>8 DEF ListedIsReadable
<1>27. CompletedIsFinished'
  BY <1>8 DEF CompletedIsFinished
<1>28. QED
  BY <1>13, <1>14, <1>15, <1>16, <1>17, <1>18, <1>19, <1>20, <1>21, <1>22, <1>23, <1>24,
    <1>25, <1>26, <1>27 DEF IInv

(* The tasks of the backends begin; for grep the worker sets off with      *)
(* findings of its own.                                                    *)
LEMMA StartTasksKeeps ==
  ASSUME IInv, crossed' = FALSE, "grep" \in phases => manifest # "none", StartTasks
  PROVE  IInv'
<1>1. UNCHANGED <<root, manifest, index, blocks, bufdir, buffer, staged, locked,
                  phases, found, sweep, closing, cancelling, stale, idle, alive,
                  cleared, dropped, events>>
  BY DEF StartTasks, tree, buf, rest, clients, clock, past, FailWithoutManifest
<1>2. pc["search"] = "done" /\ Task = "fulltext" /\ phases # {}
  BY DEF StartTasks, Task
<1>3. pc["worker"] = "idle" /\ ~Final
  BY DEF IInv, StartTasks, Tasks, Task
<1>5. phases \subseteq {"semantic", "grep"}
  BY PhasesAreKnown DEF IInv, SessionOK
<1>6. waiting' = phases
  BY DEF StartTasks, FailWithoutManifest
<1>7. /\ pc' \in [Agent -> Steps] /\ pc'["search"] = "await"
      /\ pc'["worker"] = IF "grep" \in phases THEN "stage" ELSE "idle"
  BY <1>3, <1>5 DEF IInv, StartTasks, Goto, SessionOK, Steps, Agent, FailWithoutManifest
<1>8. job' = IF "grep" \in phases THEN [job EXCEPT !["worker"].todo = Grep] ELSE job
  BY <1>5 DEF StartTasks, FailWithoutManifest
<1>9. job \in [Agent -> Job] /\ [job["worker"] EXCEPT !.todo = Grep] \in Job
  BY JobEdit
     DEF IInv, StartTasks, Goto, tree, buf, rest, clients, clock, past, SessionOK, Agent, Finding
<1>10. /\ job' \in [Agent -> Job] /\ job'["search"] = job["search"]
      /\ ~job'["worker"].final
      /\ job'["worker"].todo = IF "grep" \in phases THEN Grep ELSE job["worker"].todo
  BY <1>8, <1>9 DEF IInv, Turns, Agent
<1>11. (Contiguous /\ PublishedOnce /\ ListedIsReadable /\ CompletedIsFinished)'
  BY <1>1, PagesUntouched
<1>12. SessionOK'
  BY <1>1, <1>6, <1>7, <1>10 DEF IInv, SessionOK
<1>13. Turns'
  BY <1>1, <1>2, <1>7, <1>10 DEF IInv, Turns, Tasks, Inside, Task
<1>14. Tasks'
  BY <1>1, <1>2, <1>3, <1>6, <1>7, <1>10 DEF Tasks, Starting, Inside, Locked, Final, Task
<1>15. Tree'
  BY <1>1, <1>7 DEF IInv, Tree, Starting
<1>16. Held'
  BY <1>1, <1>2, <1>3, <1>5, <1>6, <1>7, <1>10 DEF IInv, Held, Turns, Inside, Locked, Agent
<1>17. Fresh'
  BY <1>1, <1>2, <1>3, <1>7, <1>10 DEF IInv, Fresh, Task, Agent
<1>18. InHand'
  <2>1. Handling("search")'
    BY <1>7 DEF Handling, Publishing
  <2>2. Handling("worker")'
    BY <1>7 DEF Handling, Publishing
  <2>3. QED
    BY <2>1, <2>2 DEF InHand, Agent
<1>19. Unpublished'
  BY <1>1, <1>2, <1>3, <1>5, <1>6, <1>7, <1>10
     DEF IInv, Unpublished, Turns, Inside, Locked, Publishing, Agent
<1>20. Purged'
  BY <1>1, <1>2, <1>3, <1>5, <1>6, <1>7, <1>10
     DEF IInv, Purged, Turns, Inside, Locked, Publishing, Agent, Task
<1>21. Listing'
  BY <1>1, <1>7 DEF IInv, Listing, Agent
<1>22. Finishing'
  BY <1>1, <1>2, <1>3, <1>7 DEF IInv, Finishing, Inside, Locked, Final, Agent
<1>23. Undisturbed'
  BY <1>1, <1>2, <1>7, <1>10 DEF IInv, Undisturbed, Final, Task, Inside, Locked, Agent
<1>24. QED
  BY <1>11, <1>12, <1>13, <1>14, <1>15, <1>16, <1>17, <1>18, <1>19, <1>20, <1>21, <1>22, <1>23
     DEF IInv

(* The search misses its manifest, its buffer or a finding only when the   *)
(* cleaner or a close has been there.                                      *)
LEMMA MissedWithReason ==
  ASSUME IInv, crossed' = FALSE, pc["search"] \in Inside \cup {"done", "await"},
         \/ manifest = "none"
         \/ ~bufdir /\ pc["search"] \notin {"return", "done", "await"}
         \/ pc["search"] = "rename" /\ Current("search") \notin staged
         \/ pc["search"] = "load" /\ ~(job["search"].list \subseteq buffer)
  PROVE  cleared \/ dropped # {}
  BY DEF IInv, Undisturbed, Inside, Locked

(* Nothing is staged while the buffer is deleted. *)
LEMMA DeletedAlone ==
  ASSUME IInv, crossed' = FALSE, NEW a \in Agent, pc[a] = "delete"
  PROVE  staged = {}
  BY DEF IInv, Held, Turns, Agent

(* A finding cannot be staged. *)
LEMMA StageFails ==
  ASSUME IInv, crossed' = FALSE, NEW a \in Agent, Stage(a), job[a].todo # {},
         ~(bufdir /\ (a = "worker" => manifest # "none"))
  PROVE  Fails(a)
<1>1. Fail(a) /\ UNCHANGED rest /\ root' \in BOOLEAN /\ (root => root')
  BY DEF IInv, SessionOK, Stage, FailWithoutManifest
<1>2. pc[a] = "stage"
  BY DEF Stage
<1>3. a = "search" => cleared \/ dropped # {}
  BY <1>2, MissedWithReason DEF Inside
<1>4. a = "worker" /\ pc[a] \in Publishing => ~bufdir
  BY <1>2 DEF Publishing
<1>5. QED
  BY <1>1, <1>2, <1>3, <1>4 DEF Fails, Inside

(* A staged finding is gone. *)
LEMMA RenameFails ==
  ASSUME IInv, crossed' = FALSE, NEW a \in Agent, Rename(a), Current(a) \notin staged
  PROVE  Fails(a)
<1>1. Fail(a) /\ UNCHANGED rest /\ root' \in BOOLEAN /\ (root => root')
  BY DEF IInv, SessionOK, Rename
<1>2. pc[a] = "rename"
  BY DEF Rename
<1>3. a = "search" => cleared \/ dropped # {}
  BY <1>2, MissedWithReason DEF Inside
<1>4. a = "worker" /\ pc[a] \in Publishing => ~bufdir
  BY <1>2 DEF Publishing
<1>5. QED
  BY <1>1, <1>2, <1>3, <1>4 DEF Fails, Inside

(* There is no buffer to flush. *)
LEMMA FlushFails ==
  ASSUME IInv, crossed' = FALSE, NEW a \in Agent, Flush(a), ~bufdir
  PROVE  Fails(a)
<1>1. Fail(a) /\ UNCHANGED rest /\ root' \in BOOLEAN /\ (root => root')
  BY DEF IInv, SessionOK, Flush
<1>2. pc[a] = "flush"
  BY DEF Flush
<1>3. a = "search" => cleared \/ dropped # {}
  BY <1>2, MissedWithReason DEF Inside
<1>4. a = "worker" /\ pc[a] \in Publishing => ~bufdir
  BY <1>2
<1>5. QED
  BY <1>1, <1>2, <1>3 DEF Fails, Inside

(* There is no buffer to measure. *)
LEMMA MeasureFails ==
  ASSUME IInv, crossed' = FALSE, NEW a \in Agent, Measure(a), ~bufdir
  PROVE  Fails(a)
<1>1. Fail(a) /\ UNCHANGED rest /\ root' \in BOOLEAN /\ (root => root')
  BY DEF IInv, SessionOK, Measure
<1>2. pc[a] = "measure"
  BY DEF Measure
<1>3. a = "search" => cleared \/ dropped # {}
  BY <1>2, MissedWithReason DEF Inside, Locked
<1>4. a = "worker" /\ pc[a] \in Publishing => ~bufdir
  BY <1>2
<1>5. QED
  BY <1>1, <1>2, <1>3 DEF Fails, Inside, Locked

(* A finding on the list is gone. *)
LEMMA LoadFails ==
  ASSUME IInv, crossed' = FALSE, NEW a \in Agent, Load(a), ~(job[a].list \subseteq buffer)
  PROVE  Fails(a)
<1>1. Fail(a) /\ UNCHANGED rest /\ root' \in BOOLEAN /\ (root => root')
  BY DEF IInv, SessionOK, Load
<1>2. pc[a] = "load"
  BY DEF Load
<1>3. a = "search" => cleared \/ dropped # {}
  BY <1>2, MissedWithReason DEF Inside, Locked
<1>4. a = "worker" /\ pc[a] \in Publishing => ~bufdir
  BY <1>2 DEF Publishing
<1>5. QED
  BY <1>1, <1>2, <1>3, <1>4 DEF Fails, Inside, Locked

(* There is no manifest for the metrics. *)
LEMMA MetricsFails ==
  ASSUME IInv, crossed' = FALSE, NEW a \in Agent, Metrics(a), manifest = "none"
  PROVE  Fails(a)
<1>1. Fail(a) /\ UNCHANGED rest /\ root' \in BOOLEAN /\ (root => root')
  BY DEF Metrics, FailWithoutManifest
<1>2. pc[a] = "metrics"
  BY DEF Metrics
<1>3. a = "search" => cleared \/ dropped # {}
  BY <1>2, MissedWithReason DEF Inside, Locked
<1>4. a = "worker" /\ pc[a] \in Publishing => ~bufdir
  BY <1>2 DEF IInv, Purged, Publishing
<1>5. QED
  BY <1>1, <1>2, <1>3, <1>4 DEF Fails, Inside, Locked

(* The buffer is gone before its findings. *)
LEMMA RemoveFindingsFails ==
  ASSUME IInv, crossed' = FALSE, NEW a \in Agent, RemoveFindings(a), ~bufdir
  PROVE  Fails(a)
<1>1. Fail(a) /\ UNCHANGED rest /\ root' \in BOOLEAN /\ (root => root')
  BY DEF IInv, SessionOK, RemoveFindings
<1>2. pc[a] = "remove"
  BY DEF RemoveFindings
<1>3. a = "search" => cleared \/ dropped # {}
  BY <1>2, MissedWithReason DEF Inside, Locked
<1>4. a = "worker" /\ pc[a] \in Publishing => ~bufdir
  BY <1>2
<1>5. QED
  BY <1>1, <1>2, <1>3 DEF Fails, Inside, Locked

(* There is no buffer to delete. *)
LEMMA DeleteBufferFails ==
  ASSUME IInv, crossed' = FALSE, NEW a \in Agent, DeleteBuffer(a), ~bufdir
  PROVE  Fails(a)
<1>1. Fail(a) /\ UNCHANGED rest /\ root' \in BOOLEAN /\ (root => root')
  BY DEF IInv, SessionOK, DeleteBuffer
<1>2. pc[a] = "delete"
  BY DEF DeleteBuffer
<1>3. a = "search" => cleared \/ dropped # {}
  BY <1>2, MissedWithReason DEF Inside, Locked
<1>4. a = "worker" /\ pc[a] \in Publishing => ~bufdir
  BY <1>2
<1>5. QED
  BY <1>1, <1>2, <1>3 DEF Fails, Inside, Locked

(* There is no manifest when grep begins. *)
LEMMA StartTasksFails ==
  ASSUME IInv, crossed' = FALSE, StartTasks, manifest = "none", "grep" \in phases
  PROVE  Fails("search")
<1>1. Fail("search") /\ UNCHANGED rest /\ root' \in BOOLEAN /\ (root => root')
  BY DEF StartTasks, FailWithoutManifest
<1>2. pc["search"] = "done"
  BY DEF StartTasks
<1>3. cleared \/ dropped # {}
  BY <1>2, MissedWithReason
<1>4. QED
  BY <1>1, <1>2, <1>3 DEF Fails

(* There is no manifest when the semantic search ends. *)
LEMMA EndTaskFails ==
  ASSUME IInv, crossed' = FALSE, EndTask, manifest = "none", Task = "semantic"
  PROVE  Fails("search")
<1>1. Fail("search") /\ UNCHANGED rest /\ root' \in BOOLEAN /\ (root => root')
  BY DEF EndTask, FailWithoutManifest, Task
<1>2. pc["search"] = "done"
  BY DEF EndTask
<1>3. cleared \/ dropped # {}
  BY <1>2, MissedWithReason
<1>4. QED
  BY <1>1, <1>2, <1>3 DEF Fails

(* There is no manifest to complete. *)
LEMMA CompleteFails ==
  ASSUME IInv, crossed' = FALSE, Complete, manifest = "none"
  PROVE  Fails("search")
<1>1. Fail("search") /\ UNCHANGED rest /\ root' \in BOOLEAN /\ (root => root')
  BY DEF Complete, FailWithoutManifest
<1>2. pc["search"] = "done" \/ (pc["search"] = "await" /\ waiting = {})
  BY DEF Complete
<1>3. cleared \/ dropped # {}
  BY <1>2, MissedWithReason
<1>4. QED
  BY <1>1, <1>2, <1>3 DEF Fails

(* A step of the assembler keeps the invariant, whether it fails or not. *)
LEMMA AssembleKeeps ==
  ASSUME IInv, crossed' = FALSE, NEW a \in Agent, Assemble(a)
  PROVE  IInv'
<1>1. CASE Enter(a)
  BY <1>1, EnterKeeps
<1>2. CASE TakeLock(a)
  BY <1>2, TakeLockKeeps
<1>3. CASE Measure(a)
  BY <1>3, MeasureKeeps, MeasureFails, FailKeeps
<1>4. CASE Load(a)
  BY <1>4, LoadKeeps, LoadFails, FailKeeps
<1>5. CASE WriteBlock(a)
  BY <1>5, WriteBlockKeeps
<1>6. CASE AppendIndex(a)
  BY <1>6, AppendIndexKeeps
<1>7. CASE Metrics(a)
  BY <1>7, MetricsKeeps, MetricsFails, FailKeeps
<1>8. CASE RemoveFindings(a)
  BY <1>8, RemoveFindingsKeeps, RemoveFindingsFails, FailKeeps
<1>9. CASE Finish(a)
  BY <1>9, FinishKeeps
<1>10. CASE DeleteBuffer(a)
  <2>1. staged = {}
    BY <1>10, DeletedAlone DEF DeleteBuffer
  <2>2. QED
    BY <1>10, <2>1, DeleteBufferKeeps, DeleteBufferFails, FailKeeps
<1>11. CASE Release(a)
  BY <1>11, ReleaseKeeps
<1>12. CASE Return(a)
  BY <1>12, ReturnKeeps
<1>13. QED
  BY <1>1, <1>2, <1>3, <1>4, <1>5, <1>6, <1>7, <1>8, <1>9, <1>10, <1>11, <1>12 DEF Assemble

(* So does a step of an agent that stages, renames and flushes. *)
LEMMA WorkKeeps ==
  ASSUME IInv, crossed' = FALSE, NEW a \in Agent, Work(a)
  PROVE  IInv'
<1>1. CASE Stage(a)
  BY <1>1, StageKeeps, StageFails, FailKeeps
<1>2. CASE Rename(a)
  BY <1>2, RenameKeeps, RenameFails, FailKeeps
<1>3. CASE Flush(a)
  BY <1>3, FlushKeeps, FlushFails, FailKeeps
<1>4. CASE Assemble(a)
  BY <1>4, AssembleKeeps
<1>5. QED
  BY <1>1, <1>2, <1>3, <1>4 DEF Work

(* A step of the thread of the search keeps the invariant. *)
LEMMA SearchKeeps ==
  ASSUME IInv, crossed' = FALSE, ~Crossing', Search
  PROVE  IInv'
<1>1. "search" \in Agent
  BY DEF Agent
<1>2. CASE Provision \/ WriteManifest \/ OpenBuffer
  BY <1>2, ProvisionKeeps, WriteManifestKeeps, OpenBufferKeeps
<1>3. CASE StartTasks
  BY <1>1, <1>3, StartTasksKeeps, StartTasksFails, FailKeeps
<1>4. CASE SemanticAnswers
  BY <1>4, SemanticAnswersKeeps
<1>5. CASE GrepEnds
  BY <1>5, GrepEndsKeeps
<1>6. CASE EndTask
  BY <1>1, <1>6, EndTaskKeeps, EndTaskFails, FailKeeps
<1>7. CASE LastFlush
  BY <1>7, LastFlushKeeps
<1>8. CASE Complete
  BY <1>1, <1>8, CompleteKeeps, CompleteFails, FailKeeps
<1>9. CASE RemoveSession
  BY <1>9, RemoveSessionKeeps
<1>10. CASE Work("search")
  BY <1>1, <1>10, WorkKeeps
<1>11. QED
  BY <1>2, <1>3, <1>4, <1>5, <1>6, <1>7, <1>8, <1>9, <1>10 DEF Search

(* Every step that does not cross the sources keeps the invariant. *)
LEMMA NextKeeps ==
  ASSUME IInv, crossed' = FALSE, [Next]_vars
  PROVE  IInv'
<1>1. CASE Search /\ History
  <2>1. ~Crossing'
    BY <1>1, Zenon DEF History
  <2>2. QED
    BY <1>1, <2>1, SearchKeeps
<1>2. CASE Work("worker")
  BY <1>2, WorkKeeps DEF Agent
<1>3. CASE Bystander
  BY <1>3, BystanderKeeps
<1>4. CASE SetCancelled \/ Close \/ Restart \/ Purge
  BY <1>4, SetCancelledKeeps, CloseKeeps, RestartKeeps, PurgeKeeps
<1>5. CASE \E f \in closing : Unlink(f)
  BY <1>5, UnlinkKeeps
<1>6. QED
  BY <1>1, <1>2, <1>3, <1>4, <1>5 DEF Next, Step, Bystander

(* The invariant holds before the search has made its directory. *)
LEMMA InitInv ==
  ASSUME Init
  PROVE  IInv
<1>1. NoJob \in Job
  BY DEF NoJob, Job
<1>2. /\ pc["search"] = "provision" /\ pc["worker"] = "idle"
      /\ job = [a \in Agent |-> NoJob] /\ pc \in [Agent -> Steps]
  BY DEF Init, Agent, Steps
<1>3. job \in [Agent -> Job]
  BY <1>1, <1>2
<1>4. \A a \in Agent : job[a].task = "none" /\ job[a].todo = {} /\ ~job[a].final
  BY <1>2 DEF NoJob
<1>5. \A a \in Agent : pc[a] \in {"provision", "idle"}
  BY <1>2 DEF Agent
<1>6. \A p \in Position : blocks[p] = {}
  BY DEF Init, NoBlocks
<1>7. index.listed = {} /\ ~index.finished
  BY DEF Init, NoIndex
<1>8. SessionOK
  <2>1. index \in [there : BOOLEAN, listed : SUBSET Position, finished : BOOLEAN]
    BY DEF Init, NoIndex
  <2>2. blocks \in [Position -> SUBSET Finding]
    BY DEF Init, NoBlocks
  <2>3. /\ root \in BOOLEAN /\ bufdir \in BOOLEAN /\ locked \in BOOLEAN
        /\ manifest \in {"none", "running", "completed", "cancelled", "closed"}
        /\ buffer \subseteq Finding /\ staged \subseteq Finding
        /\ phases \in Requests /\ waiting \subseteq phases /\ found \subseteq Finding
        /\ sweep \in BOOLEAN /\ cancelling \in BOOLEAN
        /\ closing \subseteq Finding \cup {"lock"}
        /\ stale \in BOOLEAN /\ idle \in BOOLEAN /\ alive \in BOOLEAN
        /\ cleared \in BOOLEAN /\ dropped \subseteq Finding
    BY DEF Init
  <2>4. events \in Nat /\ events <= MaxEvents[phases]
    BY EventsAreCounted DEF Init
  <2>5. QED
    BY <1>2, <1>3, <2>1, <2>2, <2>3, <2>4 DEF SessionOK
<1>9. Turns /\ Tasks
  BY <1>4 DEF Init, Turns, Tasks, Task, Agent, Inside, Locked, Starting
<1>10. Tree /\ Held /\ Fresh
  BY <1>4, <1>6 DEF Init, Tree, Held, Fresh, Agent
<1>11. InHand /\ Unpublished /\ Purged /\ Contiguous /\ Listing
  BY <1>2, <1>5, <1>6 DEF Init, InHand, Handling, Unpublished, Purged, Publishing, Contiguous,
    Listing, Inside, Locked
<1>12. Finishing /\ Undisturbed
  BY <1>2, <1>7 DEF Finishing, Undisturbed, Inside, Locked
<1>13. PublishedOnce /\ ListedIsReadable /\ CompletedIsFinished /\ crossed = FALSE
  <2>1. Written = {} /\ manifest = "none" /\ crossed = FALSE
    BY <1>6 DEF Init, Written
  <2>2. QED
    BY <2>1 DEF PublishedOnce, ListedIsReadable, CompletedIsFinished
<1>14. QED
  BY <1>8, <1>9, <1>10, <1>11, <1>12, <1>13 DEF IInv

(* What has crossed stays crossed. *)
LEMMA Remembers ==
  ASSUME Guarded, [Next]_vars
  PROVE  crossed' \in BOOLEAN /\ (crossed' = FALSE => IInv)
<1>1. CASE UNCHANGED vars
  BY <1>1 DEF Guarded, vars
<1>2. CASE Next
  <2>1. crossed' = (crossed \/ Crossing')
    BY <1>2 DEF Next, History
  <2>2. QED
    BY <2>1 DEF Guarded
<1>3. QED
  BY <1>1, <1>2

(* As long as the sources have not crossed, the invariant holds.  The      *)
(* theorems below follow from its parts.                                   *)
THEOREM InvariantHolds == Spec => []Guarded
<1>1. Init => Guarded
  BY InitInv DEF Guarded, IInv
<1>2. Guarded /\ [Next]_vars => Guarded'
  <2> SUFFICES ASSUME Guarded, [Next]_vars
               PROVE  Guarded'
    OBVIOUS
  <2>1. crossed' \in BOOLEAN /\ (crossed' = FALSE => IInv)
    BY Remembers DEF Guarded
  <2>2. QED
    BY <2>1, NextKeeps DEF Guarded
<1>3. QED
  BY <1>1, <1>2, PTL DEF Spec

(* No finding is on two pages, whatever is in between the block and        *)
(* remove_findings.                                                        *)
THEOREM FindingsArePublishedOnce ==
  Spec => []PublishedOnce
<1>1. Guarded => PublishedOnce
  BY DEF Guarded, IInv, PublishedOnce
<1>2. QED
  BY <1>1, InvariantHolds, PTL

(* A finished index lists pages with everything that was found and not     *)
(* thrown away by a close: what is found is in the buffer, listed or       *)
(* dropped (Listing), and with a finished index the buffer is empty        *)
(* (Finishing).                                                            *)
THEOREM FinishedIndexIsComplete ==
  Spec => []FinishedIsComplete
<1>1. Guarded => FinishedIsComplete
  BY DEF Guarded, IInv, Listing, Finishing, FinishedIsComplete
<1>2. QED
  BY <1>1, InvariantHolds, PTL

(* A completed search has a finished index, unless the cleaner took it. *)
THEOREM CompletedSearchIsFinished ==
  Spec => []CompletedIsFinished
<1>1. Guarded => CompletedIsFinished
  BY DEF Guarded, IInv, CompletedIsFinished
<1>2. QED
  BY <1>1, InvariantHolds, PTL

(* A page that is listed can be read. *)
THEOREM ListedBlocksAreReadable ==
  Spec => []ListedIsReadable
<1>1. Guarded => ListedIsReadable
  BY DEF Guarded, IInv, ListedIsReadable
<1>2. QED
  BY <1>1, InvariantHolds, PTL

(* A search removes its own session only after the cleaner, a close or a   *)
(* crossing of its sources.                                                *)
THEOREM SearchIsLostWithReason ==
  Spec => []NotLostWithoutReason
<1>1. Guarded => NotLostWithoutReason
  BY DEF Guarded, IInv, Undisturbed, NotLostWithoutReason
<1>2. QED
  BY <1>1, InvariantHolds, PTL

(* What is published stays: a block goes to a free place, an entry into an *)
(* index that is not finished, and everything else that touches them       *)
(* removes the whole session.                                              *)
LEMMA StepKeepsPages ==
  ASSUME IInv, crossed' = FALSE, Next, manifest' # "none"
  PROVE  /\ \A p \in Written : blocks'[p] = blocks[p]
         /\ index.finished => index' = index
<1>1. ASSUME NEW a \in Agent, WriteBlock(a)
      PROVE  (\A p \in Written : blocks'[p] = blocks[p]) /\ index' = index
  <2>1. pc[a] = "write" /\ UNCHANGED <<manifest, index>>
    BY <1>1 DEF WriteBlock
  <2>2. blocks[job[a].pos] = {} /\ blocks' = [blocks EXCEPT ![job[a].pos] = job[a].list]
    BY <1>1, <2>1 DEF IInv, InHand, Handling, WriteBlock
  <2>3. QED
    BY <2>1, <2>2 DEF Written
<1>2. ASSUME NEW a \in Agent, AppendIndex(a) \/ Finish(a)
      PROVE  blocks' = blocks /\ ~index.finished
  <2>1. pc[a] \in {"append index", "finish"} /\ blocks' = blocks
    BY <1>2 DEF AppendIndex, Finish
  <2>2. ~index.finished
    BY <2>1 DEF IInv, Finishing, Inside, Locked, Agent
  <2>3. QED
    BY <2>1, <2>2
<1>3. ASSUME NEW a \in Agent, Work(a)
      PROVE  \/ \E b \in Agent : WriteBlock(b) \/ AppendIndex(b) \/ Finish(b)
             \/ UNCHANGED <<index, blocks>>
  BY <1>3 DEF Work, Assemble, Stage, Rename, Flush, Enter, TakeLock, Measure, Load, Metrics,
    RemoveFindings, DeleteBuffer, Release, Return, Fail, FailWithoutManifest, tree
<1>4. CASE Search
  <2>1. CASE Work("search")
    BY <1>1, <1>2, <1>3, <2>1 DEF Agent
  <2>2. CASE ~Work("search")
    <3>1. UNCHANGED <<index, blocks>>
      BY <1>4, <2>2 DEF Search, Provision, WriteManifest, OpenBuffer, StartTasks,
        SemanticAnswers, GrepEnds, EndTask, LastFlush, Complete, RemoveSession, RemoveAll,
        Fail, FailWithoutManifest, tree
    <3>2. QED
      BY <3>1
  <2>3. QED
    BY <2>1, <2>2
<1>5. CASE Work("worker")
  BY <1>1, <1>2, <1>3, <1>5 DEF Agent
<1>6. CASE ~Search /\ ~Work("worker")
  <2>1. UNCHANGED <<index, blocks>>
    BY <1>6 DEF Next, Step, Cancel, SetCancelled, Close, Unlink, GetPage, Age, Rest, Restart, Sweep,
      Purge, RemoveAll, tree
  <2>2. QED
    BY <2>1
<1>7. QED
  BY <1>4, <1>5, <1>6

(* A page never changes once it is there, and a finished index never grows *)
(* ("immutable result blocks").                                            *)
THEOREM PublishedPagesAreImmutable ==
  Spec => PagesAreImmutable
<1>1. Guarded /\ [Next]_vars =>
        [~crossed' /\ manifest' # "none" =>
           /\ \A p \in Written : blocks'[p] = blocks[p]
           /\ index.finished => index' = index]_vars
  <2> SUFFICES ASSUME Guarded, Next, ~crossed', manifest' # "none"
               PROVE  /\ \A p \in Written : blocks'[p] = blocks[p]
                      /\ index.finished => index' = index
    OBVIOUS
  <2>1. crossed' = FALSE
    BY Remembers
  <2>2. QED
    BY <2>1, Remembers, StepKeepsPages
<1>2. QED
  BY <1>1, InvariantHolds, PTL DEF Spec, PagesAreImmutable

=============================================================================
