----------------------------- MODULE MCImageStore -----------------------------
(* ImageStore for TLC: callers, names and fingerprints are interchangeable. *)
EXTENDS ImageStore, TLC

Symmetry == Permutations(Callers) \cup Permutations(Names) \cup Permutations(Hashes)
=============================================================================
