--------------------------- MODULE MCProjectRename ---------------------------
(* ProjectRename for TLC: three names, so that a stale root is neither the *)
(* present nor the next one.                                               *)
EXTENDS ProjectRename
=============================================================================
