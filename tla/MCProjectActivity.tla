------------------------ MODULE MCProjectActivity ------------------------
(* An instance of ProjectActivity for TLC: a watcher and two indexers. *)
EXTENDS ProjectActivity, TLC
CONSTANTS w1, i1, i2
Ttl == (w1 :> 2) @@ (i1 :> 1) @@ (i2 :> 1)
TtlTwo == (w1 :> 2) @@ (i1 :> 1)
=============================================================================
