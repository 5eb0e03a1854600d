------------------------ MODULE MCDocumentProcessing ------------------------
(* Instances of DocumentProcessing for TLC. *)
EXTENDS DocumentProcessing, TLC

CONSTANTS q1, q2, q3, w1, w2, t1, t2, t3, none

Perms == Permutations({q1, q2, q3}) \cup Permutations({w1, w2})
           \cup Permutations({t1, t2, t3})
=============================================================================
