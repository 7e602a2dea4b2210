----------------------------- MODULE UserStatus -----------------------------
(***************************************************************************)
(* What moderation promises of an account: it enrols as pending and then   *)
(* moves along VALID_TRANSITIONS of services/moderation.py, one moderator  *)
(* decision at a time.  Moderation implements it with requests that        *)
(* overlap; Access takes it for the users that viewers act for.            *)
(***************************************************************************)
CONSTANTS Users, None
VARIABLE status  \* status[u]: users.status, None before u enrols

Statuses == {"pending", "approved", "rejected", "blocked"}

VALID_TRANSITIONS ==
  [pending  |-> {"approved", "rejected", "blocked"},
   approved |-> {"blocked", "rejected"},
   rejected |-> {"approved", "blocked"},
   blocked  |-> {"approved", "rejected"}]

Init == status = [u \in Users |-> None]

Enroll(u) == status[u] = None /\ status' = [status EXCEPT ![u] = "pending"]

Change(u) ==
  /\ status[u] \in Statuses
  /\ \E new \in VALID_TRANSITIONS[status[u]] : status' = [status EXCEPT ![u] = new]

Next == \E u \in Users : Enroll(u) \/ Change(u)

Spec == Init /\ [][Next]_status
=============================================================================
