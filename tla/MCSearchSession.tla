--------------------------- MODULE MCSearchSession ---------------------------
EXTENDS SearchSession

MCFulltext == {"f1"}
MCSemantic == {"s1"}
MCGrep == {"g1"}

(* Two threads at work make many more interleavings than one. *)
MCMaxEvents ==
  [request \in Requests |->
     IF request = {"semantic", "grep"} THEN 0 ELSE IF request = {"grep"} THEN 1 ELSE 2]
=============================================================================
