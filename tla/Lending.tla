------------------------------- MODULE Lending -------------------------------
(***************************************************************************)
(* What a connection pool promises: a slot is lent to one user at a time,  *)
(* and comes back before it is lent again; a closed pool lends nothing.    *)
(***************************************************************************)
CONSTANTS Pool, Slot, User, None
VARIABLES user, closed

Init == /\ user = [p \in Pool |-> [s \in Slot |-> None]]
        /\ closed = [p \in Pool |-> FALSE]

Lend(p, s, u) ==
  /\ ~closed[p]
  /\ user[p][s] = None
  /\ user' = [user EXCEPT ![p][s] = u]
  /\ UNCHANGED closed

Return(p, s) ==
  /\ user[p][s] # None
  /\ user' = [user EXCEPT ![p][s] = None]
  /\ UNCHANGED closed

Close(p) == closed' = [closed EXCEPT ![p] = TRUE] /\ UNCHANGED user

(* a pool is replaced when all it lent has come back *)
Renew(p) ==
  /\ \A s \in Slot : user[p][s] = None
  /\ closed' = [closed EXCEPT ![p] = FALSE]
  /\ UNCHANGED user

Next == \E p \in Pool :
  \/ Close(p) \/ Renew(p)
  \/ \E s \in Slot : Return(p, s) \/ \E u \in User : Lend(p, s, u)

Spec == Init /\ [][Next]_<<user, closed>>
=============================================================================
