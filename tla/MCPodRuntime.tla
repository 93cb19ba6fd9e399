----------------------------- MODULE MCPodRuntime -----------------------------
(* PodRuntime for TLC: callers, containers and pods are interchangeable.    *)
EXTENDS PodRefinement, TLC

Symmetry == Permutations(Callers) \cup Permutations(Containers) \cup Permutations(Pods)

\* Every request may fail.
AllFaults == Requests

\* Every request may fail but the one after the deletion of a container.
MostFaults == Requests \ {"sandbox"}
=============================================================================
