----------------------------- MODULE MCFileLock -----------------------------
(* Instances of FileLock for TLC. *)
EXTENDS FileLock, TLC
CONSTANTS p1, p2, t1, t2, t3

(* two processes, two threads in the first one *)
TwoAndOne == (t1 :> p1) @@ (t2 :> p1) @@ (t3 :> p2)
OneEach == (t1 :> p1) @@ (t2 :> p2)
=============================================================================
