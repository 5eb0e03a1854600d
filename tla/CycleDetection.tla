--------------------------- MODULE CycleDetection ---------------------------
(***************************************************************************)
(* DAGEngine.detect_cycles: the depth-first search, one step per call of   *)
(* dfs, per early return and per return.  Python iterates over the steps   *)
(* and over a set of dependencies: any order may be taken here.            *)
(***************************************************************************)
EXTENDS Naturals, Sequences, DependencyGraphs

CONSTANTS
    Steps,     \* ids of the workflow's steps
    Graphs     \* the values of depends_on to consider

ASSUME GraphsAssumption == Graphs \subseteq [Steps -> SUBSET Steps]

VARIABLES
    graph,
    roots,     \* the steps the outer loop has not called dfs on
    visited,
    stack,
    calls,     \* the calls of dfs under way, the innermost last
    verdict

vars == <<graph, roots, visited, stack, calls, verdict>>

Frame == [node: Steps, left: SUBSET Steps]

Init ==
    /\ graph \in Graphs
    /\ roots = Steps
    /\ visited = {}
    /\ stack = {}
    /\ calls = <<>>
    /\ verdict = "searching"

Top == calls[Len(calls)]

\* The open calls when the innermost one goes on to its dependency n.
Under(n) == [calls EXCEPT ![Len(calls)] = [Top EXCEPT !.left = Top.left \ {n}]]

\* Mutant: every node met twice counts as a cycle.
DfsVisitedIsCycle(n, under) ==
    IF n \in visited
    THEN verdict' = "cycle" /\ calls' = under /\ UNCHANGED <<visited, stack>>
    ELSE /\ visited' = visited \cup {n}
         /\ stack' = stack \cup {n}
         /\ calls' = Append(under, [node |-> n, left |-> graph[n]])
         /\ UNCHANGED verdict

\* dfs(n), called with the frames `under' already open
Dfs(n, under) ==
    \/ /\ n \in stack
       /\ verdict' = "cycle"
       /\ calls' = under
       /\ UNCHANGED <<visited, stack>>
    \/ /\ n \in visited \ stack
       /\ calls' = under
       /\ UNCHANGED <<visited, stack, verdict>>
    \/ /\ n \notin visited \cup stack
       /\ visited' = visited \cup {n}
       /\ stack' = stack \cup {n}
       /\ calls' = Append(under, [node |-> n, left |-> graph[n]])
       /\ UNCHANGED verdict

\* for node in graph: dfs(node)
CallRoot(n) ==
    /\ verdict = "searching" /\ calls = <<>>
    /\ n \in roots
    /\ roots' = roots \ {n}
    /\ Dfs(n, calls)
    /\ UNCHANGED graph

\* Mutant: the loop calls dfs on the same dependency again.
CallDepAgain(n) ==
    /\ verdict = "searching" /\ calls # <<>>
    /\ n \in Top.left
    /\ Dfs(n, calls)
    /\ UNCHANGED <<graph, roots>>

\* for dep in graph.get(node, []): dfs(dep)
CallDep(n) ==
    /\ verdict = "searching" /\ calls # <<>>
    /\ n \in Top.left
    /\ Dfs(n, Under(n))
    /\ UNCHANGED <<graph, roots>>

Return ==
    /\ verdict = "searching" /\ calls # <<>>
    /\ Top.left = {}
    /\ stack' = stack \ {Top.node}
    /\ calls' = SubSeq(calls, 1, Len(calls) - 1)
    /\ UNCHANGED <<graph, roots, visited, verdict>>

\* Mutant: only the part of the graph below one step is searched.
AcceptAfterFirst ==
    /\ verdict = "searching" /\ calls = <<>> /\ roots # Steps
    /\ verdict' = "acyclic"
    /\ UNCHANGED <<graph, roots, visited, stack, calls>>

Accept ==
    /\ verdict = "searching" /\ calls = <<>> /\ roots = {}
    /\ verdict' = "acyclic"
    /\ UNCHANGED <<graph, roots, visited, stack, calls>>

Next == (\E n \in Steps : CallRoot(n) \/ CallDep(n)) \/ Return \/ Accept

Spec == Init /\ [][Next]_vars

\* A plain computation: it goes on.
FairSpec == Spec /\ WF_vars(Next)
-----------------------------------------------------------------------------
(* Properties *)

\* Well formed; `stack' holds the nodes of the calls under way.
TypeOK ==
    /\ graph \in Graphs
    /\ roots \subseteq Steps /\ visited \subseteq Steps
    /\ stack = {calls[i].node : i \in DOMAIN calls}
    /\ calls \in Seq(Frame)
    /\ verdict \in {"searching", "cycle", "acyclic"}

\* A workflow is rejected only when it has a cycle: a step reached twice
\* along different paths (a diamond) is none.
RejectsOnlyCycles == verdict = "cycle" => HasCycle(graph)

\* A workflow is accepted only when it has none, whichever step the search
\* starts from and in whatever order it goes.
AcceptsOnlyAcyclic == verdict = "acyclic" => ~HasCycle(graph)

\* The search ends.
Decides == <>(verdict # "searching")
=============================================================================
