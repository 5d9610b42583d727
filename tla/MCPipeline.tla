----------------------------- MODULE MCPipeline -----------------------------
(* The small instances of PhotoPipeline. *)
EXTENDS PhotoPipeline, TLC

\* One event has all the photos.
OneEvent == [k \in Keys |-> "event"]

Symmetry == Permutations(PhotoIds) \cup Permutations(Desks) \cup Permutations(Files)
=============================================================================
