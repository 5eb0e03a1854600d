-------------------------- MODULE DependencyGraphs --------------------------
(* The workflow steps' depends_on as a function from steps to sets of ids. *)

\* Some steps all depend on one another: none of them can be the first.
HasCycle(g) ==
    \E c \in (SUBSET DOMAIN g) \ {{}} : \A x \in c : g[x] \cap c # {}
=============================================================================
