------------------------ MODULE MCWorkflowRunsPlans ------------------------
(* Two plans for the users of WorkflowRuns: races of run, cancel and       *)
(* resume on r1, without faults; or faults under run, stream, cancel and   *)
(* delete of r2, which has no steps.  A behaviour keeps to one of them.    *)
EXTENDS MCWorkflowRuns

PlannedOps == [r \in Runs |-> IF r = r1 THEN {"run", "cancel", "resume"}
                                        ELSE {"run", "stream", "cancel", "delete"}]

\* One resume at a time: the races of two engines are runs_double_execution's.
Resuming(q) == req[q].pc = "resume" \/ req[q].kind = "resume"

\* A request that will be answered 409 changes nothing.
InVain(q) == /\ req[q].pc \in {"cancel", "resume"}
             /\ req[q].seen \notin Allowed(req[q].pc)

\* One cancel at a time, too: they all write the same.
Races  == /\ status[r2] = "absent" /\ faults = 0 /\ stale = {}
          /\ \E q \in Requests : ~Resuming(q)
          /\ \E q \in Requests : req[q].pc \notin {"cancel", "revoke"}
          /\ \A q \in Requests : ~InVain(q)
Faulty == status[r1] = "absent"

KeepsToAPlan == Races \/ Faulty
=============================================================================
