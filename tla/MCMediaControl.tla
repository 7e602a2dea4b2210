-------------------------- MODULE MCMediaControl ---------------------------
(* Finite instances of MediaControl for TLC.                               *)
EXTENDS MediaControl, TLC

CONSTANTS p1, a1, a2

\* The paths the two sessions would be given when a publish creates a stream.
MCAutoPath == [s \in SessionIds |-> IF s = 1 THEN a1 ELSE a2]

\* No stream is edited in these instances: a rename is IngestControl's concern.
MCPatches == {NoStreamChange}

\* For the run without liveness properties.
Symmetry == Permutations(Workers) \cup Permutations(Keys)
============================================================================
