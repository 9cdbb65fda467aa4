------------------------- MODULE TransactionsProofs -------------------------
(***************************************************************************)
(* The safety invariants of Transactions for any number of threads,        *)
(* connections, batches and attempts.                                      *)
(***************************************************************************)
EXTENDS Transactions, TLAPS

(* What a call knows of its own transaction at each of its steps: nothing  *)
(* has been committed before the commit; what its connection has written   *)
(* are all the batches before the next one, as long as it is open.         *)
NothingStored(t) == \A i \in 1..Len(stored[t]) : stored[t][i] = 0
AllStored(t) == \A i \in 1..Len(stored[t]) : stored[t][i] = 1

CallOK(t) ==
  /\ pc[t] \in {"idle", "begin"} <=> job[t].conn = None
  /\ pc[t] # "idle" => /\ Len(stored[t]) = Len(job[t].rows)
                       /\ result[t] = "none"
  /\ job[t].next \in 1..(Len(job[t].rows) + 1)
  /\ pc[t] \in {"begin", "register"} => job[t].next = 1
  /\ pc[t] \in {"call", "blocked"} => job[t].next <= Len(job[t].rows)
  /\ pc[t] = "committing" => job[t].next = Len(job[t].rows) + 1
  /\ pc[t] \in {"begin", "register", "next", "call", "blocked", "committing", "rollback"}
       => NothingStored(t)
  /\ NothingStored(t) \/ AllStored(t)
  /\ pc[t] = "teardown" => /\ job[t].then = "ok" => AllStored(t)
                           /\ job[t].then = "retry" => NothingStored(t)
  /\ pc[t] \in {"teardown", "rollback"} /\ job[t].then = "retry" =>
       job[t].attempt < MaxAttempts
  /\ pc[t] = "rollback" => job[t].then # "ok"
  /\ result[t] = "ok" => AllStored(t)

WorkOK(t) ==
  pc[t] \in {"next", "call", "blocked", "committing"} /\ job[t].conn \in open =>
    \A i \in 1..(job[t].next - 1) : job[t].rows[i] \in work[job[t].conn]

OneOwner ==
  \A t, u \in Thread : job[t].conn # None /\ job[t].conn = job[u].conn => t = u

(* A connection is in one place: registered, being made or ended by its    *)
(* caller, or with a sweeper.                                              *)
InOnePlace(c) ==
  /\ Owners(c) # {} => /\ c \notin registered
                       /\ c \notin todo["closer"]
                       /\ \A s \in Sweeper : victim[s] # c
  /\ c \in registered => /\ c \notin todo["closer"]
                         /\ \A s \in Sweeper : victim[s] # c
  /\ c \in todo["closer"] => \A s \in Sweeper : victim[s] # c
  /\ \A s, z \in Sweeper : victim[s] = c /\ victim[z] = c => s = z

(* A new manager is made only after close_all has ended. *)
ClosedBefore == up => todo["closer"] = {}

IInv ==
  /\ TypeOK /\ ClosedBefore
  /\ \A t \in Thread : CallOK(t)
  /\ \A t \in Thread : WorkOK(t)
  /\ OneOwner
  /\ \A c \in Conn : InOnePlace(c)
  /\ ConnectionsAreAccountedFor

-----------------------------------------------------------------------------
USE NoneIsNothing

LEMMA NoJobIsAJob == NoJob \in Job
<1>1. <<>> \in Seq(Row) /\ 1 \in Nat /\ 1 \in 1..MaxAttempts
  BY AttemptsAreCounted
<1> QED
  BY <1>1 DEF NoJob, Job

LEMMA Start == Init => IInv
<1> SUFFICES ASSUME Init PROVE IInv
  OBVIOUS
<1>1. TypeOK
  BY NoJobIsAJob, FaultsAreNat DEF Init, TypeOK, Steps, Sweeper
<1>2. ASSUME NEW t \in Thread
      PROVE  CallOK(t)
  <2>1. Len(stored[t]) = 0 /\ Len(job[t].rows) = 0 /\ job[t].next = 1
    BY DEF Init, NoJob
  <2>2. pc[t] = "idle" /\ job[t].conn = None /\ result[t] = "none"
    BY DEF Init, NoJob
  <2> QED
    BY <2>1, <2>2 DEF CallOK, NothingStored, AllStored
<1>3. \A t \in Thread : WorkOK(t)
  BY DEF Init, WorkOK
<1>4. OneOwner
  BY DEF Init, OneOwner, NoJob
<1>5. ASSUME NEW c \in Conn
      PROVE  InOnePlace(c)
  BY DEF Init, InOnePlace, Owners, Sweeper
<1>6. ConnectionsAreAccountedFor
  BY DEF Init, ConnectionsAreAccountedFor
<1>7. ClosedBefore
  BY DEF Init, ClosedBefore, Sweeper
<1> QED
  BY <1>1, <1>2, <1>3, <1>4, <1>5, <1>6, <1>7 DEF IInv

(* What a step of thread t leaves as it is for the others. *)
OthersKeep(t) ==
  \A u \in Thread : u # t => /\ pc'[u] = pc[u] /\ job'[u] = job[u]
                              /\ stored'[u] = stored[u] /\ result'[u] = result[u]

(* ... and of the transactions of others. *)
OtherWorkKept(t) ==
  \A d \in Conn : d # job[t].conn /\ d \in open' => d \in open /\ work[d] \subseteq work'[d]

LEMMA CallsOfOthers ==
  ASSUME IInv, NEW t \in Thread, OthersKeep(t), CallOK(t)'
  PROVE  \A u \in Thread : CallOK(u)'
<1> SUFFICES ASSUME NEW u \in Thread, u # t
             PROVE  CallOK(u)'
  OBVIOUS
<1>1. /\ pc'[u] = pc[u] /\ job'[u] = job[u]
      /\ stored'[u] = stored[u] /\ result'[u] = result[u]
  BY DEF OthersKeep
<1>2. CallOK(u)
  BY DEF IInv
<1> QED
  BY <1>1, <1>2 DEF CallOK, NothingStored, AllStored

LEMMA WorkOfOthers ==
  ASSUME IInv, NEW t \in Thread, OthersKeep(t), OtherWorkKept(t), WorkOK(t)'
  PROVE  \A u \in Thread : WorkOK(u)'
<1> SUFFICES ASSUME NEW u \in Thread, u # t
             PROVE  WorkOK(u)'
  OBVIOUS
<1>1. /\ pc'[u] = pc[u] /\ job'[u] = job[u]
  BY DEF OthersKeep
<1>2. CASE job[u].conn = None
  BY <1>1, <1>2 DEF IInv, CallOK, WorkOK
<1>3. CASE job[u].conn # None
  <2>1. job[u].conn # job[t].conn
    BY <1>3 DEF IInv, OneOwner
  <2>2. job[u].conn \in Conn
    BY <1>3 DEF IInv, TypeOK, Job
  <2> QED
    BY <1>1, <2>1, <2>2 DEF IInv, OtherWorkKept, WorkOK
<1> QED
  BY <1>2, <1>3

(* t is the one to end its connection. *)
Holds(t) == job[t].conn # None /\ pc[t] \in {"register", "committing", "teardown"}

(* A step of t takes its own connection from one place to the next.        *)
OwnConnMoves(t) ==
  LET c == job[t].conn
  IN  /\ Holds(t)' => c \notin registered' /\ (Holds(t) \/ c \in registered)
      /\ c \in registered' => c \in registered \/ Holds(t)
      /\ c \in open' => /\ c \in open
                        /\ c \in registered \/ Holds(t) => c \in registered' \/ Holds(t)'

OtherConnsStay(t) ==
  /\ \A d \in Conn : d # job[t].conn =>
       /\ d \in registered' <=> d \in registered
       /\ d \in open' <=> d \in open
  /\ UNCHANGED <<up, todo, victim>>

(* Nearly every step of a thread is of this kind. *)
LEMMA ThreadStep ==
  ASSUME IInv, NEW t \in Thread, OthersKeep(t), job'[t].conn \in {job[t].conn, None},
         TypeOK', CallOK(t)', WorkOK(t)', OtherWorkKept(t), OwnConnMoves(t),
         OtherConnsStay(t)
  PROVE  IInv'
<1>i. /\ TypeOK /\ ConnectionsAreAccountedFor /\ OneOwner /\ ClosedBefore
      /\ \A c \in Conn : InOnePlace(c)
  BY DEF IInv
<1>1. OneOwner'
  <2>1. \A u \in Thread : job'[u].conn \in {job[u].conn, None}
    BY DEF OthersKeep
  <2> QED
    BY <1>i, <2>1 DEF OneOwner
<1>2. ASSUME NEW c \in Conn, c # job[t].conn
      PROVE  Owners(c)' = Owners(c)
  <2>1. job'[t].conn # c
    BY <1>2
  <2>2. \A u \in Thread : u # t => pc'[u] = pc[u] /\ job'[u] = job[u]
    BY DEF OthersKeep
  <2> QED
    BY <1>2, <2>1, <2>2 DEF Owners
<1>3. ASSUME NEW c \in Conn, c = job[t].conn
      PROVE  /\ Owners(c)' = IF Holds(t)' THEN {t} ELSE {}
             /\ Owners(c) = IF Holds(t) THEN {t} ELSE {}
  <2>1. \A u \in Thread : u # t => job[u].conn # c
    BY <1>i, <1>3 DEF OneOwner
  <2>2. \A u \in Thread : u # t => job'[u].conn # c
    BY <2>1 DEF OthersKeep
  <2>3. Owners(c) = IF Holds(t) THEN {t} ELSE {}
    BY <1>3, <2>1 DEF Owners, Holds
  <2>4. Holds(t)' => job'[t].conn = c
    BY <1>3 DEF Holds
  <2>5. Owners(c)' = IF Holds(t)' THEN {t} ELSE {}
    <3>1. CASE job'[t].conn = c
      BY <1>3, <2>2, <3>1 DEF Owners, Holds
    <3>2. CASE job'[t].conn # c
      BY <2>2, <2>4, <3>2 DEF Owners
    <3> QED
      BY <3>1, <3>2
  <2> QED
    BY <2>3, <2>5
<1>4. ASSUME NEW c \in Conn
      PROVE  InOnePlace(c)'
  <2>1. InOnePlace(c) /\ todo' = todo /\ victim' = victim
    BY <1>i DEF OtherConnsStay
  <2>2. CASE c # job[t].conn
    BY <1>2, <2>1, <2>2 DEF InOnePlace, OtherConnsStay
  <2>3. CASE c = job[t].conn
    BY <1>3, <2>1, <2>3 DEF InOnePlace, OwnConnMoves
  <2> QED
    BY <2>2, <2>3
<1>5. ASSUME NEW c \in open'
      PROVE  \/ c \in registered' \/ Owners(c)' # {}
             \/ \E s \in Sweeper : victim'[s] = c
             \/ c \in todo'["closer"]
  <2>1. c \in Conn /\ todo' = todo /\ victim' = victim
    BY DEF OtherConnsStay, TypeOK
  <2>2. CASE c # job[t].conn
    BY <1>i, <1>2, <2>1, <2>2 DEF ConnectionsAreAccountedFor, OtherConnsStay
  <2>3. CASE c = job[t].conn
    BY <1>i, <1>3, <2>1, <2>3 DEF ConnectionsAreAccountedFor, OwnConnMoves
  <2> QED
    BY <2>2, <2>3
<1>6. ConnectionsAreAccountedFor'
  BY <1>5 DEF ConnectionsAreAccountedFor
<1>7. ClosedBefore'
  BY <1>i DEF ClosedBefore, OtherConnsStay
<1> QED
  BY <1>1, <1>4, <1>6, <1>7, CallsOfOthers, WorkOfOthers DEF IInv

-----------------------------------------------------------------------------
(* The calls: begin *)
LEMMA CallStep ==
  ASSUME IInv, NEW t \in Thread, Call(t)
  PROVE  IInv'
<1>i. TypeOK /\ CallOK(t)
  BY DEF IInv
<1>1. PICK rows \in Programs[t] :
        /\ job' = [job EXCEPT ![t] = [NoJob EXCEPT !.rows = rows]]
        /\ stored' = [stored EXCEPT ![t] = [i \in 1..Len(rows) |-> 0]]
  BY DEF Call
<1>2. rows \in Seq(Row) /\ rows # <<>> /\ Len(rows) \in Nat
  BY ProgramsWriteRows
<1>3. /\ [NoJob EXCEPT !.rows = rows] \in Job
      /\ [i \in 1..Len(rows) |-> 0] \in Seq(Nat)
      /\ Len([i \in 1..Len(rows) |-> 0]) = Len(rows)
  <2>1. [NoJob EXCEPT !.rows = rows] \in Job
    BY <1>2, NoJobIsAJob DEF Job, NoJob
  <2>2. [i \in 1..Len(rows) |-> 0] \in Seq(Nat)
    BY <1>2
  <2>3. Len([i \in 1..Len(rows) |-> 0]) = Len(rows)
    BY <1>2
  <2> QED
    BY <2>1, <2>2, <2>3
<1>4. /\ job'[t].conn = None /\ job'[t].next = 1 /\ job'[t].rows = rows
      /\ stored'[t] = [i \in 1..Len(rows) |-> 0]
      /\ pc[t] = "idle" /\ pc'[t] = "begin" /\ result'[t] = "none"
  BY <1>i, <1>1 DEF TypeOK, NoJob, Call, Goto
<1>5. /\ OthersKeep(t)
      /\ UNCHANGED <<up, registered, older, expired, todo, victim, open, work, faults>>
  BY <1>i, <1>1 DEF OthersKeep, TypeOK, Call, Goto, manager, server
<1>6. TypeOK'
  BY <1>i, <1>1, <1>3, <1>5 DEF TypeOK, Call, Goto, Steps
<1>7. CallOK(t)'
  BY <1>2, <1>3, <1>4 DEF CallOK, NothingStored
<1>8. WorkOK(t)' /\ OtherWorkKept(t) /\ OtherConnsStay(t)
  BY <1>4, <1>5 DEF WorkOK, OtherWorkKept, OtherConnsStay
<1>9. OwnConnMoves(t)
  BY <1>4, <1>5 DEF OwnConnMoves, Holds
<1> QED
  BY <1>4, <1>5, <1>6, <1>7, <1>8, <1>9, ThreadStep

LEMMA OpenStep ==
  ASSUME IInv, NEW t \in Thread, Open(t)
  PROVE  IInv'
<1>i. /\ TypeOK /\ CallOK(t) /\ OneOwner /\ ConnectionsAreAccountedFor /\ ClosedBefore
      /\ \A c \in Conn : InOnePlace(c)
      /\ \A u \in Thread : WorkOK(u)
  BY DEF IInv
<1>1. PICK c \in FreeConns : job' = [job EXCEPT ![t].conn = c] /\ open' = open \cup {c}
  BY DEF Open, Some
<1>2. /\ c \in Conn /\ c \notin open /\ c \notin registered
      /\ \A u \in Thread : job[u].conn # c
      /\ \A s \in Sweeper : c \notin todo[s] /\ victim[s] # c
  BY DEF FreeConns
<1>3. /\ pc[t] = "begin" /\ pc'[t] = "register"
      /\ pc' = [pc EXCEPT ![t] = "register"]
      /\ job'[t] = [job[t] EXCEPT !.conn = c]
  BY <1>i, <1>1 DEF TypeOK, Open, Goto
<1>4. /\ job'[t].conn = c /\ job'[t].next = job[t].next /\ job'[t].rows = job[t].rows
      /\ job'[t] \in Job
  <2>1. job[t] \in Job
    BY <1>i DEF TypeOK
  <2> QED
    BY <1>2, <1>3, <2>1 DEF Job
<1>5. \A u \in Thread : u # t => pc'[u] = pc[u] /\ job'[u] = job[u]
  BY <1>i, <1>1, <1>3 DEF TypeOK
<1>6. UNCHANGED <<up, registered, older, expired, todo, victim, work, stored, result, faults>>
  BY DEF Open, manager, caller
<1>7. TypeOK'
  BY <1>i, <1>1, <1>2, <1>3, <1>4, <1>6 DEF TypeOK, Steps
<1>8. CallOK(t)' /\ OthersKeep(t)
  <2>1. OthersKeep(t)
    BY <1>5, <1>6 DEF OthersKeep
  <2> QED
    BY <1>i, <1>2, <1>3, <1>4, <1>6, <2>1 DEF CallOK, NothingStored, AllStored
<1>9. ASSUME NEW u \in Thread
      PROVE  WorkOK(u)'
  <2>1. CASE u = t
    BY <1>3, <2>1 DEF WorkOK
  <2>2. CASE u # t
    <3>1. pc'[u] = pc[u] /\ job'[u] = job[u] /\ work' = work /\ job[u].conn # c
      BY <1>2, <1>5, <1>6, <2>2
    <3>2. job[u].conn \in open' => job[u].conn \in open
      BY <1>1, <3>1
    <3> QED
      BY <1>i, <3>1, <3>2 DEF WorkOK
  <2> QED
    BY <2>1, <2>2
<1>10. OneOwner'
  BY <1>i, <1>2, <1>4, <1>5 DEF OneOwner
<1>11. job[t].conn = None
  BY <1>i, <1>3 DEF CallOK
<1>12. Owners(c)' = {t}
  <2>1. \A u \in Thread : job'[u].conn = c <=> u = t
    BY <1>2, <1>4, <1>5
  <2> QED
    BY <1>3, <2>1 DEF Owners
<1>13. ASSUME NEW d \in Conn, d # c
       PROVE  Owners(d)' = Owners(d)
  BY <1>4, <1>5, <1>11, <1>13 DEF Owners
<1>14. ASSUME NEW d \in Conn
       PROVE  InOnePlace(d)'
  <2>1. CASE d = c
    BY <1>2, <1>6, <2>1 DEF InOnePlace, Sweeper
  <2>2. CASE d # c
    BY <1>i, <1>6, <1>13, <2>2 DEF InOnePlace
  <2> QED
    BY <2>1, <2>2
<1>15. ASSUME NEW d \in open'
       PROVE  \/ d \in registered' \/ Owners(d)' # {}
              \/ \E s \in Sweeper : victim'[s] = d
              \/ d \in todo'["closer"]
  <2>1. CASE d = c
    BY <1>12, <2>1
  <2>2. CASE d # c
    BY <1>i, <1>1, <1>6, <1>13, <2>2 DEF ConnectionsAreAccountedFor, TypeOK
  <2> QED
    BY <2>1, <2>2
<1>16. ClosedBefore'
  BY <1>i, <1>6 DEF ClosedBefore
<1> QED
  BY <1>7, <1>8, <1>9, <1>10, <1>14, <1>15, <1>16, CallsOfOthers
  DEF IInv, ConnectionsAreAccountedFor

-----------------------------------------------------------------------------
(* The ways a call moves on *)
LEMMA AfterTransientFacts ==
  ASSUME NEW t \in Thread
  PROVE  /\ AfterTransient(t) \in {"retry", "error"}
         /\ AfterTransient(t) = "retry" => job[t].attempt < MaxAttempts
  BY DEF AfterTransient

LEMMA LeaveFacts ==
  ASSUME TypeOK, NEW t \in Thread, CallOK(t), pc[t] # "idle",
         NEW how \in {"ok", "retry", "error"}, Leave(t, how), UNCHANGED stored,
         how = "ok" => AllStored(t),
         how = "retry" => NothingStored(t) /\ job[t].attempt < MaxAttempts
  PROVE  /\ pc' \in [Thread -> Steps] /\ job' \in [Thread -> Job]
         /\ result' \in [Thread -> {"none", "ok", "error"}]
         /\ job'[t].conn = None /\ CallOK(t)' /\ WorkOK(t)' /\ ~Holds(t)'
         /\ OthersKeep(t)
<1>1. CASE how = "retry"
  <2> DEFINE j == [job[t] EXCEPT !.conn = None, !.next = 1, !.attempt = @ + 1, !.then = "error"]
  <2>1. /\ job[t] \in Job /\ job[t].attempt + 1 \in 1..MaxAttempts
        /\ 1 \in 1..(Len(job[t].rows) + 1) /\ 1 \in Nat
    BY <1>1, AttemptsAreCounted DEF TypeOK, Job
  <2>2. j \in Job /\ j.conn = None /\ j.next = 1 /\ j.rows = job[t].rows
    BY <2>1 DEF Job
  <2>3. /\ job' = [job EXCEPT ![t] = j] /\ pc' = [pc EXCEPT ![t] = "begin"]
        /\ result' = result
    BY <1>1 DEF Leave, Goto
  <2> HIDE DEF j
  <2>4. job'[t] = j /\ pc'[t] = "begin" /\ stored' = stored
    BY <2>3 DEF TypeOK
  <2>5. pc' \in [Thread -> Steps] /\ job' \in [Thread -> Job] /\ OthersKeep(t)
    BY <2>2, <2>3, <2>4 DEF TypeOK, Steps, OthersKeep
  <2>6. CallOK(t)'
    BY <1>1, <2>1, <2>2, <2>3, <2>4 DEF CallOK, NothingStored, AllStored
  <2>7. WorkOK(t)' /\ ~Holds(t)'
    BY <2>2, <2>4 DEF WorkOK, Holds
  <2> QED
    BY <2>2, <2>3, <2>4, <2>5, <2>6, <2>7 DEF TypeOK
<1>2. CASE how # "retry"
  <2>1. /\ job' = [job EXCEPT ![t] = NoJob] /\ pc' = [pc EXCEPT ![t] = "idle"]
        /\ result' = [result EXCEPT ![t] = how]
    BY <1>2 DEF Leave, Goto
  <2>2. /\ job'[t] = NoJob /\ pc'[t] = "idle" /\ result'[t] = how /\ stored' = stored
    BY <2>1 DEF TypeOK
  <2>3. /\ pc' \in [Thread -> Steps] /\ job' \in [Thread -> Job] /\ OthersKeep(t)
        /\ result' \in [Thread -> {"none", "ok", "error"}]
    BY <1>2, <2>1, <2>2, NoJobIsAJob DEF TypeOK, Steps, OthersKeep
  <2>4. NoJob.conn = None /\ NoJob.next = 1 /\ Len(NoJob.rows) = 0 /\ NoJob.then = "error"
    BY DEF NoJob
  <2>5. CallOK(t)'
    BY <1>2, <2>2, <2>4 DEF CallOK, NothingStored, AllStored
  <2>6. WorkOK(t)' /\ ~Holds(t)'
    BY <2>2, <2>4 DEF WorkOK, Holds
  <2> QED
    BY <2>2, <2>3, <2>4, <2>5, <2>6
<1> QED
  BY <1>1, <1>2

LEMMA RaiseFacts ==
  ASSUME TypeOK, NEW t \in Thread, CallOK(t), pc[t] \in {"next", "call", "blocked"},
         NEW then \in {"retry", "error"}, Raise(t, then), UNCHANGED caller,
         then = "retry" => job[t].attempt < MaxAttempts
  PROVE  /\ pc' \in [Thread -> Steps] /\ job' \in [Thread -> Job]
         /\ job'[t].conn = job[t].conn /\ CallOK(t)' /\ WorkOK(t)' /\ ~Holds(t)'
         /\ OthersKeep(t)
<1>1. job' = [job EXCEPT ![t].then = then] /\ pc' = [pc EXCEPT ![t] = "rollback"]
  BY DEF Raise, Goto
<1>2. job'[t] = [job[t] EXCEPT !.then = then] /\ pc'[t] = "rollback" /\ job[t] \in Job
  BY <1>1 DEF TypeOK
<1>3. /\ job'[t] \in Job /\ job'[t].conn = job[t].conn /\ job'[t].next = job[t].next
      /\ job'[t].rows = job[t].rows /\ job'[t].attempt = job[t].attempt
      /\ job'[t].then = then
  BY <1>2 DEF Job
<1>4. stored' = stored /\ result' = result
  BY DEF caller
<1>5. pc' \in [Thread -> Steps] /\ job' \in [Thread -> Job] /\ OthersKeep(t)
  BY <1>1, <1>3, <1>4 DEF TypeOK, Steps, OthersKeep
<1>6. CallOK(t)'
  BY <1>2, <1>3, <1>4 DEF CallOK, NothingStored, AllStored
<1> QED
  BY <1>2, <1>3, <1>5, <1>6 DEF WorkOK, Holds

(* The commit of a call that has run all its batches stores them all. *)
LEMMA StoreFacts ==
  ASSUME TypeOK, NEW t \in Thread, CallOK(t), WorkOK(t), pc[t] = "committing",
         job[t].conn \in open, Store(t)
  PROVE  /\ stored' \in [Thread -> Seq(Nat)] /\ AllStored(t)'
         /\ Len(stored'[t]) = Len(stored[t])
         /\ \A u \in Thread : u # t => stored'[u] = stored[u]
<1> DEFINE n == Len(stored[t])
<1>1. /\ stored[t] \in Seq(Nat) /\ n \in Nat /\ n = Len(job[t].rows)
      /\ job[t].next = n + 1 /\ NothingStored(t)
  BY DEF TypeOK, CallOK
<1>2. \A i \in 1..n : job[t].rows[i] \in work[job[t].conn]
  BY <1>1 DEF WorkOK
<1>3. stored'[t] = [i \in 1..n |-> stored[t][i] +
                      (IF job[t].rows[i] \in work[job[t].conn] THEN 1 ELSE 0)]
  BY DEF Store, TypeOK
<1>4. \A i \in 1..n : stored[t][i] = 0
  BY <1>1 DEF NothingStored
<1>5. stored'[t] = [i \in 1..n |-> 1]
  BY <1>2, <1>3, <1>4
<1> HIDE DEF n
<1>6. [i \in 1..n |-> 1] \in Seq(Nat)
  BY <1>1
<1>7. Len([i \in 1..n |-> 1]) = n
  BY <1>1
<1>8. \A u \in Thread : u # t => stored'[u] = stored[u]
  BY DEF Store, TypeOK
<1>9. stored' \in [Thread -> Seq(Nat)]
  BY <1>5, <1>6, <1>8 DEF TypeOK, Store
<1>10. AllStored(t)'
  BY <1>5, <1>7 DEF AllStored
<1> QED
  BY <1>5, <1>7, <1>8, <1>9, <1>10 DEF n

-----------------------------------------------------------------------------
(* The other steps of a thread *)
LEMMA BeginFailsStep ==
  ASSUME IInv, NEW t \in Thread, BeginFails(t)
  PROVE  IInv'
<1>i. TypeOK /\ CallOK(t)
  BY DEF IInv
<1>1. /\ UNCHANGED <<up, registered, older, expired, todo, victim, open, work, stored>>
      /\ pc[t] = "begin" /\ Leave(t, "error") /\ faults' \in 0..MaxFaults
  BY <1>i, FaultsAreNat DEF BeginFails, manager, server, TypeOK, Fault
<1>2. /\ pc' \in [Thread -> Steps] /\ job' \in [Thread -> Job]
      /\ result' \in [Thread -> {"none", "ok", "error"}]
      /\ job'[t].conn = None /\ CallOK(t)' /\ WorkOK(t)' /\ ~Holds(t)' /\ OthersKeep(t)
  BY <1>i, <1>1, LeaveFacts
<1>3. TypeOK'
  BY <1>i, <1>1, <1>2 DEF TypeOK
<1>4. OtherWorkKept(t) /\ OwnConnMoves(t) /\ OtherConnsStay(t)
  BY <1>1, <1>2 DEF OtherWorkKept, OwnConnMoves, OtherConnsStay, Holds
<1> QED
  BY <1>2, <1>3, <1>4, ThreadStep

LEMMA RegisterStep ==
  ASSUME IInv, NEW t \in Thread, Register(t)
  PROVE  IInv'
<1>i. TypeOK /\ CallOK(t)
  BY DEF IInv
<1> DEFINE c == job[t].conn
<1>1. /\ pc[t] = "register" /\ c \in Conn /\ job[t] \in Job
      /\ c # None /\ pc' = [pc EXCEPT ![t] = "next"]
      /\ job' = [job EXCEPT ![t].table = "live"]
      /\ UNCHANGED <<up, todo, victim, stored, result, faults>>
  BY <1>i DEF Register, Goto, caller, CallOK, TypeOK, Job
<1>2. job'[t] = [job[t] EXCEPT !.table = "live"] /\ pc'[t] = "next"
  BY <1>i, <1>1 DEF TypeOK
<1>a. job'[t] \in Job
  BY <1>1, <1>2 DEF Job
<1>3. /\ job'[t] \in Job /\ job'[t].conn = job[t].conn /\ job'[t].next = job[t].next
      /\ job'[t].rows = job[t].rows /\ job'[t].then = job[t].then
  BY <1>1, <1>2, <1>a DEF Job
<1>4. /\ registered' \in SUBSET Conn /\ expired' \in SUBSET registered'
      /\ open' \in SUBSET Conn /\ work' \in [Conn -> SUBSET Row]
      /\ \A d \in Conn : d # c => /\ d \in registered' <=> d \in registered
                                  /\ d \in open' <=> d \in open
                                  /\ work'[d] = work[d]
      /\ c \in open' => c \in open /\ c \in registered'
  <2>1. CASE job[t].table = "dropped"
    BY <1>i, <1>1, <2>1 DEF Register, TypeOK, End
  <2>2. CASE job[t].table # "dropped"
    BY <1>i, <1>1, <2>2 DEF Register, TypeOK, server
  <2> QED
    BY <2>1, <2>2
<1>b. older' \in [Conn -> SUBSET Conn]
  <2>1. CASE job[t].table = "dropped"
    BY <1>i, <2>1 DEF Register, TypeOK
  <2>2. CASE job[t].table # "dropped"
    <3>1. older' = [d \in Conn |-> IF d = c THEN registered ELSE older[d] \ {c}]
      BY <2>2 DEF Register
    <3> QED
      BY <1>i, <3>1 DEF TypeOK
  <2> QED
    BY <2>1, <2>2
<1>5. OthersKeep(t)
  BY <1>i, <1>1 DEF OthersKeep, TypeOK
<1>6. TypeOK'
  BY <1>i, <1>1, <1>3, <1>4, <1>b DEF TypeOK, Steps
<1>7. CallOK(t)'
  BY <1>i, <1>1, <1>2, <1>3 DEF CallOK, NothingStored, AllStored
<1>8. WorkOK(t)'
  <2>1. job'[t].next = 1
    BY <1>i, <1>1, <1>3 DEF CallOK
  <2> QED
    BY <2>1 DEF WorkOK
<1>9. OtherWorkKept(t) /\ OwnConnMoves(t) /\ OtherConnsStay(t)
  BY <1>1, <1>2, <1>3, <1>4 DEF OtherWorkKept, OwnConnMoves, OtherConnsStay, Holds
<1> QED
  BY <1>3, <1>5, <1>6, <1>7, <1>8, <1>9, ThreadStep

LEMMA LookUpStep ==
  ASSUME IInv, NEW t \in Thread, LookUp(t)
  PROVE  IInv'
<1>i. TypeOK /\ CallOK(t) /\ WorkOK(t)
  BY DEF IInv
<1>1. /\ pc[t] = "next" /\ job[t].next <= Len(job[t].rows)
      /\ UNCHANGED <<up, registered, older, expired, todo, victim, open, work, stored, result, faults>>
      /\ UNCHANGED caller
  BY DEF LookUp, MoreToDo, manager, server, caller
<1>2. /\ pc' \in [Thread -> Steps] /\ job' \in [Thread -> Job]
      /\ job'[t].conn = job[t].conn /\ CallOK(t)' /\ WorkOK(t)' /\ ~Holds(t)' /\ OthersKeep(t)
  <2>1. CASE job[t].conn \in registered
    <3>1. pc' = [pc EXCEPT ![t] = "call"] /\ job' = job
      BY <2>1 DEF LookUp, Goto
    <3>2. pc'[t] = "call"
      BY <1>i, <3>1 DEF TypeOK
    <3>3. pc' \in [Thread -> Steps] /\ OthersKeep(t)
      BY <1>i, <1>1, <3>1 DEF TypeOK, Steps, OthersKeep
    <3>4. CallOK(t)' /\ WorkOK(t)'
      BY <1>i, <1>1, <3>1, <3>2 DEF CallOK, NothingStored, AllStored, WorkOK
    <3> QED
      BY <1>i, <3>1, <3>2, <3>3, <3>4 DEF TypeOK, Holds
  <2>2. CASE job[t].conn \notin registered
    <3>1. Raise(t, "error")
      BY <2>2 DEF LookUp
    <3> QED
      BY <1>i, <1>1, <3>1, RaiseFacts
  <2> QED
    BY <2>1, <2>2
<1>3. TypeOK'
  BY <1>i, <1>1, <1>2 DEF TypeOK
<1>4. OtherWorkKept(t) /\ OwnConnMoves(t) /\ OtherConnsStay(t)
  BY <1>1, <1>2 DEF OtherWorkKept, OwnConnMoves, OtherConnsStay, Holds
<1> QED
  BY <1>2, <1>3, <1>4, ThreadStep

LEMMA ExecuteStep ==
  ASSUME IInv, NEW t \in Thread, Execute(t)
  PROVE  IInv'
<1>i. TypeOK /\ CallOK(t) /\ WorkOK(t)
  BY DEF IInv
<1> DEFINE c == job[t].conn
           n == job[t].next
<1>1. /\ pc[t] \in {"call", "blocked"} /\ c \in open /\ c \in Conn /\ job[t] \in Job
      /\ pc' = [pc EXCEPT ![t] = "next"]
      /\ job' = [job EXCEPT ![t].next = n + 1]
      /\ work' = [work EXCEPT ![c] = work[c] \cup {job[t].rows[n]}]
      /\ UNCHANGED <<up, registered, older, expired, todo, victim, open, stored, result, faults>>
  BY <1>i DEF Execute, Goto, manager, caller, TypeOK, Wanted
<1>2. /\ n \in Nat /\ n >= 1 /\ n <= Len(job[t].rows) /\ Len(job[t].rows) \in Nat
      /\ job[t].rows \in Seq(Row) /\ job[t].rows[n] \in Row
  BY <1>i, <1>1 DEF CallOK, Job
<1>3. job'[t] = [job[t] EXCEPT !.next = n + 1] /\ pc'[t] = "next"
  BY <1>i, <1>1 DEF TypeOK
<1>4. /\ job'[t] \in Job /\ job'[t].conn = c /\ job'[t].next = n + 1
      /\ job'[t].rows = job[t].rows /\ job'[t].then = job[t].then
  BY <1>1, <1>2, <1>3 DEF Job
<1>5. work' \in [Conn -> SUBSET Row] /\ work'[c] = work[c] \cup {job[t].rows[n]}
  BY <1>i, <1>1, <1>2 DEF TypeOK
<1>6. OthersKeep(t)
  BY <1>i, <1>1 DEF OthersKeep, TypeOK
<1>7. TypeOK'
  BY <1>i, <1>1, <1>4, <1>5 DEF TypeOK, Steps
<1>8. CallOK(t)'
  BY <1>i, <1>1, <1>2, <1>3, <1>4 DEF CallOK, NothingStored, AllStored
<1>9. WorkOK(t)'
  <2>1. \A i \in 1..n - 1 : job[t].rows[i] \in work[c]
    BY <1>i, <1>1 DEF WorkOK
  <2>2. \A i \in 1..n : job[t].rows[i] \in work'[c]
    BY <1>2, <1>5, <2>1
  <2>3. job'[t].next - 1 = n
    BY <1>2, <1>4
  <2> QED
    BY <1>4, <2>2, <2>3 DEF WorkOK
<1>10. OtherWorkKept(t) /\ OwnConnMoves(t) /\ OtherConnsStay(t)
  BY <1>i, <1>1, <1>3 DEF OtherWorkKept, OwnConnMoves, OtherConnsStay, Holds, TypeOK
<1> QED
  BY <1>4, <1>6, <1>7, <1>8, <1>9, <1>10, ThreadStep

LEMMA BlockStep ==
  ASSUME IInv, NEW t \in Thread, Block(t)
  PROVE  IInv'
<1>i. TypeOK /\ CallOK(t) /\ WorkOK(t)
  BY DEF IInv
<1>1. /\ pc[t] = "call" /\ pc' = [pc EXCEPT ![t] = "blocked"] /\ job' = job
      /\ UNCHANGED <<up, registered, older, expired, todo, victim, open, work, stored, result, faults>>
  BY DEF Block, Goto, manager, server, caller
<1>2. pc'[t] = "blocked" /\ OthersKeep(t)
  BY <1>i, <1>1 DEF TypeOK, OthersKeep
<1>3. TypeOK'
  BY <1>i, <1>1 DEF TypeOK, Steps
<1>4. CallOK(t)' /\ WorkOK(t)'
  BY <1>i, <1>1, <1>2 DEF CallOK, NothingStored, AllStored, WorkOK
<1>5. OtherWorkKept(t) /\ OwnConnMoves(t) /\ OtherConnsStay(t)
  BY <1>1, <1>2 DEF OtherWorkKept, OwnConnMoves, OtherConnsStay, Holds
<1> QED
  BY <1>1, <1>2, <1>3, <1>4, <1>5, ThreadStep

(* The three ways in which a statement fails *)
LEMMA FailureStep ==
  ASSUME IInv, NEW t \in Thread, Deadlock(t) \/ StatementFails(t)
  PROVE  IInv'
<1>i. TypeOK /\ CallOK(t)
  BY DEF IInv
<1>1. /\ pc[t] \in {"call", "blocked"}
      /\ UNCHANGED <<up, registered, older, expired, todo, victim, open, stored, result>>
      /\ UNCHANGED caller /\ faults' \in 0..MaxFaults
      /\ work' \in {work, [work EXCEPT ![job[t].conn] = {}]}
  BY <1>i, FaultsAreNat
  DEF Deadlock, StatementFails, manager, caller, TypeOK, Fault
<1>2. \E then \in {"retry", "error"} :
        Raise(t, then) /\ (then = "retry" => job[t].attempt < MaxAttempts)
  BY AfterTransientFacts DEF Deadlock, StatementFails
<1>3. /\ pc' \in [Thread -> Steps] /\ job' \in [Thread -> Job]
      /\ job'[t].conn = job[t].conn /\ CallOK(t)' /\ WorkOK(t)' /\ ~Holds(t)' /\ OthersKeep(t)
  BY <1>i, <1>1, <1>2, RaiseFacts
<1>4. TypeOK'
  BY <1>i, <1>1, <1>3 DEF TypeOK
<1>5. OtherWorkKept(t) /\ OwnConnMoves(t) /\ OtherConnsStay(t)
  BY <1>i, <1>1, <1>3 DEF OtherWorkKept, OwnConnMoves, OtherConnsStay, Holds, TypeOK
<1> QED
  BY <1>3, <1>4, <1>5, ThreadStep

LEMMA CommitStep ==
  ASSUME IInv, NEW t \in Thread, Commit(t)
  PROVE  IInv'
<1>i. TypeOK /\ CallOK(t) /\ WorkOK(t)
  BY DEF IInv
<1> DEFINE c == job[t].conn
<1>1. /\ pc[t] = "next" /\ ~(job[t].next <= Len(job[t].rows)) /\ c \in Conn /\ c # None
      /\ registered' = registered \ {c} /\ expired' = expired \ {c}
      /\ UNCHANGED <<up, older, todo, victim, open, work, stored, result, faults>>
      /\ UNCHANGED caller
  BY <1>i DEF Commit, MoreToDo, Unregister, server, caller, CallOK, TypeOK, Job
<1>2. CASE c \in registered
  <2>1. pc' = [pc EXCEPT ![t] = "committing"] /\ job' = job
    BY <1>2 DEF Commit, Goto
  <2>2. pc'[t] = "committing" /\ OthersKeep(t)
    BY <1>i, <1>1, <2>1 DEF TypeOK, OthersKeep
  <2>3. TypeOK'
    BY <1>i, <1>1, <2>1 DEF TypeOK, Steps
  <2>4. job[t].next = Len(job[t].rows) + 1
    <3>1. Len(job[t].rows) \in Nat
      BY <1>i DEF TypeOK, Job
    <3> QED
      BY <1>i, <1>1, <3>1 DEF CallOK
  <2>5. CallOK(t)' /\ WorkOK(t)'
    BY <1>i, <1>1, <2>1, <2>2, <2>4 DEF CallOK, NothingStored, AllStored, WorkOK
  <2>6. OtherWorkKept(t) /\ OwnConnMoves(t) /\ OtherConnsStay(t)
    BY <1>1, <1>2, <2>1, <2>2 DEF OtherWorkKept, OwnConnMoves, OtherConnsStay, Holds
  <2> QED
    BY <2>1, <2>2, <2>3, <2>5, <2>6, ThreadStep
<1>3. CASE c \notin registered
  <2>1. Raise(t, "error")
    BY <1>3 DEF Commit
  <2>2. /\ pc' \in [Thread -> Steps] /\ job' \in [Thread -> Job]
        /\ job'[t].conn = c /\ CallOK(t)' /\ WorkOK(t)' /\ ~Holds(t)' /\ OthersKeep(t)
    BY <1>i, <1>1, <2>1, RaiseFacts
  <2>3. TypeOK'
    BY <1>i, <1>1, <2>2 DEF TypeOK
  <2>4. OtherWorkKept(t) /\ OwnConnMoves(t) /\ OtherConnsStay(t)
    BY <1>1, <1>3, <2>2 DEF OtherWorkKept, OwnConnMoves, OtherConnsStay, Holds
  <2> QED
    BY <2>2, <2>3, <2>4, ThreadStep
<1> QED
  BY <1>2, <1>3

LEMMA CommittedStep ==
  ASSUME IInv, NEW t \in Thread, Committed(t)
  PROVE  IInv'
<1>i. TypeOK /\ CallOK(t) /\ WorkOK(t)
  BY DEF IInv
<1> DEFINE c == job[t].conn
<1>1. /\ pc[t] = "committing" /\ c \in open /\ c \in Conn /\ job[t] \in Job
      /\ pc' = [pc EXCEPT ![t] = "teardown"] /\ job' = [job EXCEPT ![t].then = "ok"]
      /\ work' = [work EXCEPT ![c] = {}] /\ Store(t)
      /\ UNCHANGED <<up, registered, older, expired, todo, victim, open, result, faults>>
  BY <1>i DEF Committed, Goto, manager, TypeOK
<1>2. job'[t] = [job[t] EXCEPT !.then = "ok"] /\ pc'[t] = "teardown"
  BY <1>i, <1>1 DEF TypeOK
<1>3. /\ job'[t] \in Job /\ job'[t].conn = c /\ job'[t].next = job[t].next
      /\ job'[t].rows = job[t].rows /\ job'[t].then = "ok"
  BY <1>1, <1>2 DEF Job
<1>4. /\ stored' \in [Thread -> Seq(Nat)] /\ AllStored(t)'
      /\ Len(stored'[t]) = Len(stored[t])
      /\ \A u \in Thread : u # t => stored'[u] = stored[u]
  BY <1>i, <1>1, StoreFacts
<1>5. OthersKeep(t)
  BY <1>i, <1>1, <1>4 DEF OthersKeep, TypeOK
<1>6. TypeOK'
  BY <1>i, <1>1, <1>3, <1>4 DEF TypeOK, Steps
<1>7. CallOK(t)' /\ WorkOK(t)'
  BY <1>i, <1>1, <1>2, <1>3, <1>4 DEF CallOK, WorkOK
<1>8. OtherWorkKept(t) /\ OwnConnMoves(t) /\ OtherConnsStay(t)
  <2>1. c # None /\ c \notin registered
    BY <1>i, <1>1 DEF IInv, InOnePlace, Owners
  <2> QED
    BY <1>i, <1>1, <1>2, <1>3, <2>1 DEF OtherWorkKept, OwnConnMoves, OtherConnsStay, Holds, TypeOK
<1> QED
  BY <1>3, <1>5, <1>6, <1>7, <1>8, ThreadStep

LEMMA CommitFailsStep ==
  ASSUME IInv, NEW t \in Thread, CommitFails(t)
  PROVE  IInv'
<1>i. TypeOK /\ CallOK(t) /\ WorkOK(t)
  BY DEF IInv
<1> DEFINE c == job[t].conn
<1>1. /\ pc[t] = "committing" /\ c \in Conn /\ c # None /\ job[t] \in Job
      /\ pc' = [pc EXCEPT ![t] = "teardown"] /\ job' = [job EXCEPT ![t].then = "error"]
      /\ UNCHANGED <<up, registered, older, expired, todo, victim, result>>
      /\ work' \in {work, [work EXCEPT ![c] = {}]} /\ open' \in {open, open \ {c}}
      /\ faults' \in 0..MaxFaults
      /\ stored' = stored \/ (c \in open /\ Store(t))
  BY <1>i, FaultsAreNat
  DEF CommitFails, Goto, manager, server, Fault, TypeOK, Job, CallOK
<1>2. job'[t] = [job[t] EXCEPT !.then = "error"] /\ pc'[t] = "teardown"
  BY <1>i, <1>1 DEF TypeOK
<1>3. /\ job'[t] \in Job /\ job'[t].conn = job[t].conn /\ job'[t].next = job[t].next
      /\ job'[t].rows = job[t].rows /\ job'[t].then = "error"
  BY <1>1, <1>2 DEF Job
<1>4. /\ stored' \in [Thread -> Seq(Nat)]
      /\ NothingStored(t)' \/ AllStored(t)'
      /\ Len(stored'[t]) = Len(stored[t])
      /\ \A u \in Thread : u # t => stored'[u] = stored[u]
  <2>1. CASE stored' = stored
    BY <1>i, <2>1 DEF TypeOK, CallOK, NothingStored, AllStored
  <2>2. CASE c \in open /\ Store(t)
    BY <1>i, <1>1, <2>2, StoreFacts
  <2> QED
    BY <1>1, <2>1, <2>2
<1>5. OthersKeep(t)
  BY <1>i, <1>1, <1>4 DEF OthersKeep, TypeOK
<1>6. TypeOK'
  <2>1. pc' \in [Thread -> Steps] /\ job' \in [Thread -> Job]
    BY <1>i, <1>1, <1>3 DEF TypeOK, Steps
  <2>2. work' \in [Conn -> SUBSET Row] /\ open' \in SUBSET Conn
    BY <1>i, <1>1 DEF TypeOK
  <2>3. stored' \in [Thread -> Seq(Nat)]
    BY <1>4
  <2> QED
    BY <1>i, <1>1, <2>1, <2>2, <2>3 DEF TypeOK
<1>7. CallOK(t)' /\ WorkOK(t)'
  BY <1>i, <1>1, <1>2, <1>3, <1>4 DEF CallOK, WorkOK
<1>8. OtherWorkKept(t) /\ OwnConnMoves(t) /\ OtherConnsStay(t)
  <2>1. c \notin registered
    BY <1>i, <1>1 DEF IInv, InOnePlace, Owners
  <2> QED
    BY <1>i, <1>1, <1>2, <1>3, <2>1
    DEF OtherWorkKept, OwnConnMoves, OtherConnsStay, Holds, TypeOK
<1> QED
  BY <1>3, <1>5, <1>6, <1>7, <1>8, ThreadStep

LEMMA TeardownStep ==
  ASSUME IInv, NEW t \in Thread, Teardown(t)
  PROVE  IInv'
<1>i. TypeOK /\ CallOK(t)
  BY DEF IInv
<1>1. /\ pc[t] = "teardown" /\ Leave(t, job[t].then)
      /\ open' = open \ {job[t].conn} /\ work' = [work EXCEPT ![job[t].conn] = {}]
      /\ UNCHANGED <<up, registered, older, expired, todo, victim, stored, faults>>
  BY DEF Teardown, End, manager
<1>2. job[t].then \in {"ok", "retry", "error"}
  BY <1>i DEF TypeOK, Job
<1>3. /\ job[t].then = "ok" => AllStored(t)
      /\ job[t].then = "retry" => NothingStored(t) /\ job[t].attempt < MaxAttempts
  BY <1>i, <1>1 DEF CallOK
<1>4. /\ pc' \in [Thread -> Steps] /\ job' \in [Thread -> Job]
      /\ result' \in [Thread -> {"none", "ok", "error"}]
      /\ job'[t].conn = None /\ CallOK(t)' /\ WorkOK(t)' /\ ~Holds(t)' /\ OthersKeep(t)
  BY <1>i, <1>1, <1>2, <1>3, LeaveFacts
<1>5. TypeOK'
  BY <1>i, <1>1, <1>4 DEF TypeOK
<1>6. OtherWorkKept(t) /\ OwnConnMoves(t) /\ OtherConnsStay(t)
  BY <1>i, <1>1, <1>4 DEF OtherWorkKept, OwnConnMoves, OtherConnsStay, TypeOK
<1> QED
  BY <1>4, <1>5, <1>6, ThreadStep

LEMMA RollbackStep ==
  ASSUME IInv, NEW t \in Thread, Rollback(t)
  PROVE  IInv'
<1>i. TypeOK /\ CallOK(t)
  BY DEF IInv
<1> DEFINE c == job[t].conn
<1>1. /\ pc[t] = "rollback" /\ registered' = registered \ {c} /\ expired' = expired \ {c}
      /\ UNCHANGED <<up, older, todo, victim, open, work, stored, faults>>
      /\ c \in Conn /\ c # None
  BY <1>i DEF Rollback, Unregister, server, CallOK, TypeOK, Job
<1>2. CASE c \in registered
  <2>1. pc' = [pc EXCEPT ![t] = "teardown"] /\ job' = job /\ result' = result
    BY <1>2 DEF Rollback, Goto
  <2>2. pc'[t] = "teardown" /\ OthersKeep(t)
    BY <1>i, <1>1, <2>1 DEF TypeOK, OthersKeep
  <2>3. TypeOK'
    BY <1>i, <1>1, <2>1 DEF TypeOK, Steps
  <2>4. CallOK(t)' /\ WorkOK(t)'
    BY <1>i, <1>1, <2>1, <2>2 DEF CallOK, NothingStored, AllStored, WorkOK
  <2>5. OtherWorkKept(t) /\ OwnConnMoves(t) /\ OtherConnsStay(t)
    BY <1>1, <1>2, <2>1, <2>2 DEF OtherWorkKept, OwnConnMoves, OtherConnsStay, Holds
  <2> QED
    BY <2>1, <2>2, <2>3, <2>4, <2>5, ThreadStep
<1>3. CASE c \notin registered
  <2>1. Leave(t, "error")
    BY <1>3 DEF Rollback
  <2>2. /\ pc' \in [Thread -> Steps] /\ job' \in [Thread -> Job]
        /\ result' \in [Thread -> {"none", "ok", "error"}]
        /\ job'[t].conn = None /\ CallOK(t)' /\ WorkOK(t)' /\ ~Holds(t)' /\ OthersKeep(t)
    BY <1>i, <1>1, <2>1, LeaveFacts
  <2>3. TypeOK'
    BY <1>i, <1>1, <2>2 DEF TypeOK
  <2>4. OtherWorkKept(t) /\ OwnConnMoves(t) /\ OtherConnsStay(t)
    BY <1>1, <1>3, <2>2 DEF OtherWorkKept, OwnConnMoves, OtherConnsStay, Holds
  <2> QED
    BY <2>2, <2>3, <2>4, ThreadStep
<1> QED
  BY <1>2, <1>3

LEMMA AbandonStep ==
  ASSUME IInv, NEW t \in Thread, Abandon(t)
  PROVE  IInv'
<1>i. TypeOK /\ CallOK(t)
  BY DEF IInv
<1>1. /\ UNCHANGED <<up, registered, older, expired, todo, victim, open, work, stored>>
      /\ pc[t] = "next" /\ Leave(t, "error") /\ faults' \in 0..MaxFaults
  BY <1>i, FaultsAreNat DEF Abandon, manager, server, TypeOK, Fault
<1>2. /\ pc' \in [Thread -> Steps] /\ job' \in [Thread -> Job]
      /\ result' \in [Thread -> {"none", "ok", "error"}]
      /\ job'[t].conn = None /\ CallOK(t)' /\ WorkOK(t)' /\ ~Holds(t)' /\ OthersKeep(t)
  BY <1>i, <1>1, LeaveFacts
<1>3. TypeOK'
  BY <1>i, <1>1, <1>2 DEF TypeOK
<1>4. OtherWorkKept(t) /\ OwnConnMoves(t) /\ OtherConnsStay(t)
  BY <1>1, <1>2 DEF OtherWorkKept, OwnConnMoves, OtherConnsStay, Holds
<1> QED
  BY <1>2, <1>3, <1>4, ThreadStep

-----------------------------------------------------------------------------
(* The manager, its sweepers and the server leave the calls as they are. *)
CallsKeep ==
  /\ UNCHANGED <<pc, stored, result>>
  /\ \A t \in Thread :
       /\ job'[t].conn = job[t].conn /\ job'[t].rows = job[t].rows
       /\ job'[t].next = job[t].next /\ job'[t].attempt = job[t].attempt
       /\ job'[t].then = job[t].then

LEMMA SystemStep ==
  ASSUME IInv, CallsKeep, TypeOK', ClosedBefore',
         \A c \in Conn : c \in open' => c \in open /\ work[c] \subseteq work'[c],
         (\A c \in Conn : Owners(c)' = Owners(c)) =>
           (\A c \in Conn : InOnePlace(c)') /\ ConnectionsAreAccountedFor'
  PROVE  IInv'
<1>i. OneOwner /\ TypeOK
  BY DEF IInv
<1>1. ASSUME NEW c \in Conn
      PROVE  Owners(c)' = Owners(c)
  BY DEF CallsKeep, Owners
<1>2. ASSUME NEW t \in Thread
      PROVE  CallOK(t)'
  <2>1. CallOK(t)
    BY DEF IInv
  <2> QED
    BY <2>1 DEF CallsKeep, CallOK, NothingStored, AllStored
<1>3. ASSUME NEW t \in Thread
      PROVE  WorkOK(t)'
  <2>1. WorkOK(t)
    BY DEF IInv
  <2>2. job[t].conn \in Conn \/ job[t].conn \notin open'
    BY DEF TypeOK
  <2> QED
    BY <2>1, <2>2 DEF CallsKeep, WorkOK
<1>4. OneOwner'
  BY <1>i DEF OneOwner, CallsKeep
<1> QED
  BY <1>1, <1>2, <1>3, <1>4 DEF IInv

Accounted(c) ==
  \/ c \in registered \/ Owners(c) # {} \/ c \in todo["closer"]
  \/ \E s \in Sweeper : victim[s] = c

(* Steps that leave the calls and the server alone *)
LEMMA ManagerStep ==
  ASSUME IInv,
         \/ \E c \in Conn : Expire(c) \/ Reap(c) \/ Close(c)
         \/ Sweep \/ Connect
  PROVE  IInv'
<1>i. /\ TypeOK /\ ConnectionsAreAccountedFor /\ ClosedBefore
      /\ \A c \in Conn : InOnePlace(c)
  BY DEF IInv
<1>1. UNCHANGED <<open, work, pc, job, stored, result, faults>>
  BY DEF Expire, Reap, Close, Sweep, Connect, server, caller
<1>2. CallsKeep
  BY <1>1 DEF CallsKeep
<1>3. TypeOK' /\ ClosedBefore'
  <2>1. ASSUME NEW c \in Conn, Expire(c)
        PROVE  TypeOK' /\ ClosedBefore'
    BY <1>i, <1>1, <2>1 DEF Expire, TypeOK, ClosedBefore
  <2>2. ASSUME NEW c \in Conn, Reap(c)
        PROVE  TypeOK' /\ ClosedBefore'
    BY <1>i, <1>1, <2>2 DEF Reap, Unregister, TypeOK, Sweeper, ClosedBefore
  <2>3. ASSUME NEW c \in Conn, Close(c)
        PROVE  TypeOK' /\ ClosedBefore'
    BY <1>i, <1>1, <2>3 DEF Close, TypeOK, Sweeper, ClosedBefore
  <2>4. CASE Sweep
    BY <1>i, <1>1, <2>4 DEF Sweep, TypeOK, Sweeper, ClosedBefore
  <2>5. CASE Connect
    BY <1>i, <1>1, <2>5 DEF Connect, Resting, TypeOK, Sweeper, ClosedBefore
  <2> QED
    BY <2>1, <2>2, <2>3, <2>4, <2>5
<1>4. ASSUME \A c \in Conn : Owners(c)' = Owners(c), NEW d \in Conn
      PROVE  /\ InOnePlace(d)'
             /\ d \in open' => Accounted(d)'
  <2>1. /\ InOnePlace(d) /\ Owners(d)' = Owners(d) /\ open' = open
        /\ d \in open => Accounted(d)
    BY <1>i, <1>1, <1>4 DEF ConnectionsAreAccountedFor, Accounted
  <2>2. /\ todo \in [Sweeper -> SUBSET Conn] /\ victim \in [Sweeper -> Conn \cup {None}]
        /\ Sweeper = {"reaper", "closer"}
    BY <1>i DEF TypeOK, Sweeper
  <2>3. CASE Sweep \/ Connect \/ \E c \in Conn : Expire(c)
    <3>1. /\ registered' = registered /\ victim' = victim
          /\ todo'["closer"] = todo["closer"]
      BY <2>2, <2>3 DEF Sweep, Connect, Expire
    <3> QED
      BY <2>1, <3>1 DEF InOnePlace, Accounted
  <2>4. ASSUME NEW c \in Conn, Reap(c)
        PROVE  /\ InOnePlace(d)'
               /\ d \in open' => Accounted(d)'
    <3>1. /\ todo'["closer"] = todo["closer"] /\ registered' = registered \ {c}
          /\ victim["reaper"] = None /\ victim'["closer"] = victim["closer"]
          /\ victim'["reaper"] = IF c \in registered THEN c ELSE None
      BY <2>2, <2>4 DEF Reap, IsNext, Unregister
    <3>2. CASE d = c
      BY <2>1, <2>2, <3>1, <3>2 DEF InOnePlace, Accounted
    <3>3. CASE d # c
      BY <2>1, <2>2, <3>1, <3>3 DEF InOnePlace, Accounted
    <3> QED
      BY <3>2, <3>3
  <2>5. ASSUME NEW c \in Conn, Close(c)
        PROVE  /\ InOnePlace(d)'
               /\ d \in open' => Accounted(d)'
    <3>1. /\ c \in todo["closer"] /\ todo'["closer"] = todo["closer"] \ {c}
          /\ registered' = registered
          /\ victim["closer"] = None /\ victim'["reaper"] = victim["reaper"]
          /\ victim'["closer"] = c
      BY <2>2, <2>5 DEF Close, IsNext
    <3>2. CASE d = c
      BY <2>1, <2>2, <3>1, <3>2 DEF InOnePlace, Accounted
    <3>3. CASE d # c
      BY <2>1, <2>2, <3>1, <3>3 DEF InOnePlace, Accounted
    <3> QED
      BY <3>2, <3>3
  <2> QED
    BY <2>3, <2>4, <2>5
<1>5. (\A c \in Conn : Owners(c)' = Owners(c)) =>
        (\A c \in Conn : InOnePlace(c)') /\ ConnectionsAreAccountedFor'
  <2> SUFFICES ASSUME \A c \in Conn : Owners(c)' = Owners(c)
               PROVE  (\A c \in Conn : InOnePlace(c)') /\ ConnectionsAreAccountedFor'
    OBVIOUS
  <2>1. open' \subseteq Conn
    BY <1>3 DEF TypeOK
  <2> QED
    BY <1>4, <2>1 DEF ConnectionsAreAccountedFor, Accounted
<1> QED
  BY <1>1, <1>2, <1>3, <1>5, SystemStep

LEMMA TearDownStep ==
  ASSUME IInv, NEW s \in Sweeper, TearDown(s)
  PROVE  IInv'
<1>i. /\ TypeOK /\ ConnectionsAreAccountedFor /\ ClosedBefore
      /\ \A c \in Conn : InOnePlace(c)
  BY DEF IInv
<1>1. /\ UNCHANGED <<up, registered, older, expired, todo, pc, job, stored, result, faults>>
      /\ victim[s] \in Conn /\ victim[s] # None /\ victim' = [victim EXCEPT ![s] = None]
      /\ open' = open \ {victim[s]} /\ work' = [work EXCEPT ![victim[s]] = {}]
  BY <1>i DEF TearDown, End, caller, TypeOK
<1>2. CallsKeep
  BY <1>1 DEF CallsKeep
<1>3. TypeOK' /\ ClosedBefore'
  BY <1>i, <1>1 DEF TypeOK, ClosedBefore
<1>4. \A c \in Conn : c \in open' => c \in open /\ work[c] \subseteq work'[c]
  BY <1>i, <1>1 DEF TypeOK
<1>5. \A z \in Sweeper : victim'[z] = IF z = s THEN None ELSE victim[z]
  BY <1>i, <1>1 DEF TypeOK
<1>6. ASSUME \A c \in Conn : Owners(c)' = Owners(c)
      PROVE  (\A c \in Conn : InOnePlace(c)') /\ ConnectionsAreAccountedFor'
  <2>1. ASSUME NEW c \in Conn
        PROVE  InOnePlace(c)'
    <3>1. InOnePlace(c)
      BY <1>i
    <3> QED
      BY <1>1, <1>5, <1>6, <3>1 DEF InOnePlace
  <2>2. ConnectionsAreAccountedFor'
    BY <1>i, <1>1, <1>5, <1>6 DEF ConnectionsAreAccountedFor, TypeOK
  <2> QED
    BY <2>1, <2>2
<1> QED
  BY <1>2, <1>3, <1>4, <1>6, SystemStep

LEMMA DisconnectStep ==
  ASSUME IInv, Disconnect
  PROVE  IInv'
<1>i. /\ TypeOK /\ ConnectionsAreAccountedFor /\ ClosedBefore
      /\ \A c \in Conn : InOnePlace(c)
  BY DEF IInv
<1>1. /\ up /\ up' = FALSE /\ registered' = {} /\ expired' = {}
      /\ todo' = [todo EXCEPT !["closer"] = registered]
      /\ UNCHANGED <<older, open, work, victim, pc, stored, result>> /\ faults' \in 0..MaxFaults
  BY <1>i, FaultsAreNat DEF Disconnect, Fault, TypeOK, server, caller
<1>2. \A t \in Thread : job'[t] = [job[t] EXCEPT
          !.table = IF pc[t] = "register" THEN "dropped" ELSE job[t].table]
  BY DEF Disconnect
<1>3. ASSUME NEW t \in Thread
      PROVE  /\ job'[t] \in Job
             /\ job'[t].conn = job[t].conn /\ job'[t].rows = job[t].rows
             /\ job'[t].next = job[t].next /\ job'[t].attempt = job[t].attempt
             /\ job'[t].then = job[t].then
  <2>1. job[t] \in Job
    BY <1>i DEF TypeOK
  <2>2. job'[t] \in Job
    BY <1>2, <2>1 DEF Job
  <2> QED
    BY <1>2, <2>1, <2>2 DEF Job
<1>4. job' \in [Thread -> Job]
  BY <1>3 DEF Disconnect
<1>5. CallsKeep
  BY <1>1, <1>3 DEF CallsKeep
<1>6. TypeOK' /\ ClosedBefore'
  BY <1>i, <1>1, <1>4 DEF TypeOK, ClosedBefore, Sweeper
<1>7. todo["closer"] = {} /\ todo'["closer"] = registered
  BY <1>i, <1>1 DEF ClosedBefore, TypeOK, Sweeper
<1>8. ASSUME \A c \in Conn : Owners(c)' = Owners(c)
      PROVE  (\A c \in Conn : InOnePlace(c)') /\ ConnectionsAreAccountedFor'
  <2>1. ASSUME NEW c \in Conn
        PROVE  InOnePlace(c)'
    <3>1. InOnePlace(c)
      BY <1>i
    <3> QED
      BY <1>1, <1>7, <1>8, <3>1 DEF InOnePlace
  <2>2. ConnectionsAreAccountedFor'
    BY <1>i, <1>1, <1>7, <1>8 DEF ConnectionsAreAccountedFor, TypeOK
  <2> QED
    BY <2>1, <2>2
<1> QED
  BY <1>1, <1>5, <1>6, <1>8, SystemStep

LEMMA LoseConnectionStep ==
  ASSUME IInv, NEW d \in Conn, LoseConnection(d)
  PROVE  IInv'
<1>i. /\ TypeOK /\ ConnectionsAreAccountedFor /\ ClosedBefore
      /\ \A c \in Conn : InOnePlace(c)
  BY DEF IInv
<1>1. /\ UNCHANGED <<up, registered, older, expired, todo, victim, pc, job, stored, result>>
      /\ open' = open \ {d} /\ work' = [work EXCEPT ![d] = {}] /\ faults' \in 0..MaxFaults
  BY <1>i, FaultsAreNat DEF LoseConnection, End, Fault, TypeOK, manager, caller
<1>2. CallsKeep
  BY <1>1 DEF CallsKeep
<1>3. TypeOK' /\ ClosedBefore'
  BY <1>i, <1>1 DEF TypeOK, ClosedBefore
<1>4. \A c \in Conn : c \in open' => c \in open /\ work[c] \subseteq work'[c]
  BY <1>i, <1>1 DEF TypeOK
<1>5. ASSUME \A c \in Conn : Owners(c)' = Owners(c)
      PROVE  (\A c \in Conn : InOnePlace(c)') /\ ConnectionsAreAccountedFor'
  BY <1>i, <1>1, <1>5 DEF InOnePlace, ConnectionsAreAccountedFor, TypeOK
<1> QED
  BY <1>2, <1>3, <1>4, <1>5, SystemStep

LEMMA Stutter == IInv /\ UNCHANGED vars => IInv'
<1> SUFFICES ASSUME IInv, UNCHANGED vars PROVE IInv'
  OBVIOUS
<1>i. /\ TypeOK /\ ConnectionsAreAccountedFor /\ ClosedBefore
      /\ \A c \in Conn : InOnePlace(c)
  BY DEF IInv
<1>1. CallsKeep /\ TypeOK' /\ ClosedBefore'
  BY <1>i DEF vars, CallsKeep, TypeOK, ClosedBefore
<1>2. \A c \in Conn : c \in open' => c \in open /\ work[c] \subseteq work'[c]
  BY DEF vars
<1>3. ASSUME \A c \in Conn : Owners(c)' = Owners(c)
      PROVE  (\A c \in Conn : InOnePlace(c)') /\ ConnectionsAreAccountedFor'
  BY <1>i, <1>3 DEF vars, InOnePlace, ConnectionsAreAccountedFor, TypeOK
<1> QED
  BY <1>1, <1>2, <1>3, SystemStep

-----------------------------------------------------------------------------
LEMMA InductiveStep == IInv /\ [Next]_vars => IInv'
<1> SUFFICES ASSUME IInv, [Next]_vars PROVE IInv'
  OBVIOUS
<1>1. ASSUME NEW t \in Thread, Call(t) \/ Proceed(t) \/ Abandon(t)
      PROVE  IInv'
  BY <1>1, CallStep, LookUpStep, CommitStep, AbandonStep DEF Proceed
<1>2. ASSUME NEW t \in Thread, Driver(t)
      PROVE  IInv'
  BY <1>2, OpenStep, BeginFailsStep, RegisterStep, ExecuteStep, BlockStep, FailureStep,
     CommittedStep, CommitFailsStep, TeardownStep, RollbackStep DEF Driver
<1>3. ASSUME NEW c \in Conn, Expire(c) \/ LoseConnection(c)
      PROVE  IInv'
  BY <1>3, ManagerStep, LoseConnectionStep
<1>4. ASSUME Reaper \/ Closer
      PROVE  IInv'
  <2>1. "reaper" \in Sweeper /\ "closer" \in Sweeper
    BY DEF Sweeper
  <2> QED
    BY <1>4, <2>1, ManagerStep, TearDownStep DEF Reaper, Closer
<1>5. ASSUME Disconnect \/ Connect
      PROVE  IInv'
  BY <1>5, ManagerStep, DisconnectStep
<1> QED
  BY <1>1, <1>2, <1>3, <1>4, <1>5, Stutter DEF Next

LEMMA Inductive == Spec => []IInv
BY Start, InductiveStep, PTL DEF Spec

(* The type invariant of Transactions. *)
THEOREM TypeCorrect == Spec => []TypeOK
<1>1. IInv => TypeOK
  BY DEF IInv
<1> QED
  BY <1>1, Inductive, PTL

(* A logical write of any number of batches is committed as a whole or not *)
(* at all, however the reaper, close_all and lost connections interfere    *)
(* (execute_batch with a transaction_id, commit_transaction).              *)
THEOREM Atomic == Spec => []EffectIsAtomic
<1>1. IInv => EffectIsAtomic
  BY DEF IInv, CallOK, NothingStored, AllStored, EffectIsAtomic
<1> QED
  BY <1>1, Inductive, PTL

(* With any number of attempts no batch is committed more than once        *)
(* (execute_logical_write_operation and its handlers).                     *)
THEOREM NoRepeat == Spec => []NeverAppliedTwice
<1>1. IInv => NeverAppliedTwice
  BY DEF IInv, CallOK, NothingStored, AllStored, NeverAppliedTwice
<1> QED
  BY <1>1, Inductive, PTL

(* What commit_transaction reported as done is in the database.            *)
THEOREM SuccessIsTrue == Spec => []SuccessMeansCommitted
<1>1. IInv => SuccessMeansCommitted
  BY DEF IInv, CallOK, AllStored, SuccessMeansCommitted
<1> QED
  BY <1>1, Inductive, PTL

(* The manager never loses sight of a connection it has opened.            *)
THEOREM NothingLeaks == Spec => []ConnectionsAreAccountedFor
<1>1. IInv => ConnectionsAreAccountedFor
  BY DEF IInv
<1> QED
  BY <1>1, Inductive, PTL

(* The pop under the manager's lock decides who ends a transaction: its    *)
(* owner, the reaper or close_all, and only that one does.                 *)
THEOREM OneTeardown == Spec => []TornDownOnce
<1>1. IInv => TornDownOnce
  BY DEF IInv, InOnePlace, TornDownOnce
<1> QED
  BY <1>1, Inductive, PTL
=============================================================================
