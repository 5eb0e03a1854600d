-------------------------- MODULE TopologicalOrder --------------------------
(***************************************************************************)
(* What the DAG engine promises, without its database: an execution of a   *)
(* workflow settles steps in groups, a step only when all the steps it     *)
(* depends on are settled, never unsettles one, and is done only when      *)
(* every step is settled.  A step is settled when it was executed, or      *)
(* skipped by its condition, or found completed by an earlier execution.   *)
(***************************************************************************)
CONSTANTS Steps, Executions

VARIABLES
    graph,     \* the steps every step depends on
    settled,   \* what each execution has settled
    phase      \* of each execution

vars == <<graph, settled, phase>>

Init ==
    /\ settled = [e \in Executions |-> {}]
    /\ phase = [e \in Executions |-> "new"]

\* An execution starts with what earlier ones have completed.
Begin(e) ==
    /\ phase[e] = "new"
    /\ phase' = [phase EXCEPT ![e] = "running"]
    /\ \E done \in SUBSET Steps : settled' = [settled EXCEPT ![e] = done]
    /\ UNCHANGED graph

Settle(e) ==
    /\ phase[e] = "running"
    /\ \E group \in SUBSET (Steps \ settled[e]) :
          /\ \A x \in group : graph[x] \subseteq settled[e]
          /\ settled' = [settled EXCEPT ![e] = @ \cup group]
    /\ UNCHANGED <<graph, phase>>

Finish(e) ==
    /\ phase[e] = "running" /\ settled[e] = Steps
    /\ phase' = [phase EXCEPT ![e] = "done"]
    /\ UNCHANGED <<graph, settled>>

\* A step failed, the workflow is invalid, or the process died.
Abort(e) ==
    /\ phase[e] \in {"new", "running", "done"}
    /\ phase' = [phase EXCEPT ![e] = "aborted"]
    /\ UNCHANGED <<graph, settled>>

Next == \E e \in Executions : Begin(e) \/ Settle(e) \/ Finish(e) \/ Abort(e)

Spec == Init /\ [][Next]_vars
=============================================================================
