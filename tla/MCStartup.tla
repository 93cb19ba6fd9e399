------------------------------ MODULE MCStartup ------------------------------
(* Startup for TLC: one other profile per container, and interchangeable    *)
(* containers.                                                              *)
EXTENDS Startup, TLC

MCOthers == <<"default">>

Symmetry == Permutations(Containers)
=============================================================================
