------------------------- MODULE MCEmbeddingJobs -------------------------
(* Instances of EmbeddingJobs for TLC. *)
EXTENDS EmbeddingJobs, TLC

CONSTANTS q1, q2, j1, j2, p1, p2, none

Perms == Permutations(Requests) \cup Permutations(Jobs)
=============================================================================
