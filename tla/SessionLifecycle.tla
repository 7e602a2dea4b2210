-------------------------- MODULE SessionLifecycle --------------------------
(***************************************************************************)
(* What the product promises of an ingest session (README.md:14-19, the    *)
(* status column of models.py:97-111): a publication that is created, goes *)
(* live, ends and may start again, whose key may be rotated, and that a    *)
(* revocation ends for good.  IngestControl implements it as long as the   *)
(* requests on one session do not overlap.                                 *)
(***************************************************************************)
CONSTANT SessionIds
VARIABLE phase

Open == {"created", "live", "ended"}

Init == phase = [s \in SessionIds |-> "none"]

Moves(s, from, to) == phase[s] \in from /\ phase' = [phase EXCEPT ![s] = to]

Register(s) == Moves(s, {"none"}, "created")
Publish(s) == Moves(s, Open, "live")
Unpublish(s) == Moves(s, Open, "ended")
Rotate(s) == Moves(s, Open, "created")
Revoke(s) == Moves(s, Open, "revoked")

Next == \E s \in SessionIds :
  Register(s) \/ Publish(s) \/ Unpublish(s) \/ Rotate(s) \/ Revoke(s)

Spec == Init /\ [][Next]_phase
=============================================================================
