-------------------------- MODULE MCFilePipeline --------------------------
(* Two files of a project; what may happen to them is bounded by a row of  *)
(* counters per run.                                                       *)
EXTENDS FilePipeline, TLC

CONSTANTS f1, f2

MCFile == {f1, f2}
NoneEditable == {}
OneEditable == {f1}

Times(edits, moves, faults, expiries, restarts) ==
  [k \in Counters |->
     CASE k = "edits" -> edits [] k = "moves" -> moves [] k = "faults" -> faults
       [] k = "expiries" -> expiries [] k = "restarts" -> restarts]

AllOnce == Times(2, 1, 1, 1, 1)
OneFault == Times(2, 0, 1, 0, 0)
TwoEdits == Times(2, 0, 0, 0, 0)

OneBroken == {2}
NoneBroken == {}

Symmetric == Permutations(File)
=============================================================================
