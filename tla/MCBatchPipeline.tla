--------------------------- MODULE MCBatchPipeline ---------------------------
(* Small instances of BatchPipeline for TLC.                                *)
EXTENDS BatchPipeline, TLC

\* Submissions and START events are interchangeable.
Symmetry == Permutations(Subs) \cup Permutations(StartEvents)
=============================================================================
