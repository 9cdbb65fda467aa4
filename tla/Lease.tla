------------------------------- MODULE Lease -------------------------------
(***************************************************************************)
(* What a project activity lease promises: the project belongs to one      *)
(* owner or to nobody, and it passes from one owner to another only        *)
(* through a moment in which it belongs to nobody.                         *)
(***************************************************************************)
CONSTANTS Owner, None
VARIABLE holder

Init == holder = None

Grant(o) == holder = None /\ holder' = o
Lapse(o) == holder = o /\ holder' = None     \* released or expired

Next == \E o \in Owner : Grant(o) \/ Lapse(o)
Spec == Init /\ [][Next]_holder
=============================================================================
