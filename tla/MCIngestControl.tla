-------------------------- MODULE MCIngestControl --------------------------
(* Finite instances of IngestControl for TLC.                              *)
EXTENDS IngestControl, FiniteSets, TLC

CONSTANTS p1, a1, a2

\* Two sessions at most; the path each would be given when created by a publish.
MCAutoPath == [s \in SessionIds |-> IF s = 1 THEN a1 ELSE a2]

\* Disable, rename, and name or drop the source.
MCPatches ==
  {[NoStreamChange EXCEPT !.visibility = "disabled"],
   [NoStreamChange EXCEPT !.path = p1],
   [NoStreamChange EXCEPT !.source = 1],
   [NoStreamChange EXCEPT !.source = None]}

\* Two bodies that between them change all that other requests read of a stream:
\* one disables, renames and drops the source, one switches on, whatever the
\* visibility.
MCRacingPatches ==
  {[NoStreamChange EXCEPT !.visibility = "disabled", !.path = p1, !.source = None],
   [NoStreamChange EXCEPT !.active = "yes"]}

Symmetry == Permutations(Workers) \cup Permutations(Keys)
============================================================================
