------------------------------ MODULE MCAccess ------------------------------
(* Finite instances of Access for TLC.  It notes the facts that the        *)
(* properties ask for, and no others.                                      *)
EXTENDS Access, TLC

MCNoting ==
  ({"approved", "access", "served", "named", "on", "active"} \X {"held"})
  \cup (({"approved", "served", "named", "on", "active", "direct"} \cup Groups) \X {"failed"})

Symmetry == Permutations(Users) \cup Permutations(Streams) \cup Permutations(Paths)
=============================================================================
