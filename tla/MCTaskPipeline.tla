--------------------------- MODULE MCTaskPipeline ---------------------------
(* TLC's view of TaskPipeline: requests are interchangeable (for safety).   *)
EXTENDS TaskPipeline, TLC

Symmetry == Permutations(Requests)
=============================================================================
