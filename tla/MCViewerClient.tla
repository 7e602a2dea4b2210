--------------------------- MODULE MCViewerClient ---------------------------
(* ViewerClient on a small instance: its sets of model values are symmetric. *)
EXTENDS ViewerClient, TLC

Symmetry == Permutations(Codes) \cup Permutations(Tasks) \cup Permutations(Connections)
============================================================================
