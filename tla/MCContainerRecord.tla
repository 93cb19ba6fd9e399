--------------------------- MODULE MCContainerRecord ---------------------------
(* ContainerRecord for TLC: the callers are interchangeable.                *)
EXTENDS ContainerRecord, TLC

Symmetry == Permutations(Callers)
=============================================================================
