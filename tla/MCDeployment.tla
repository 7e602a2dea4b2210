---------------------------- MODULE MCDeployment ----------------------------
(* Deployment on a small instance: its sets of model values are symmetric. *)
EXTENDS Deployment, TLC

Symmetry ==
  Permutations(Workers) \cup Permutations(StreamIds) \cup Permutations(AdminIds)
============================================================================
