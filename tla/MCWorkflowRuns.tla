--------------------------- MODULE MCWorkflowRuns ---------------------------
(* Instances of WorkflowRuns for TLC. *)
EXTENDS WorkflowRuns, TLC

CONSTANTS r1, r2, q1, q2, w1, w2, w3, t1, t2, t3, none

Perms == Permutations(Requests) \cup Permutations(Workers)
           \cup Permutations(TaskIds)

OnlyRun      == [r \in Runs |-> {"run"}]
RunAndResume == [r \in Runs |-> {"run", "resume"}]
=============================================================================
