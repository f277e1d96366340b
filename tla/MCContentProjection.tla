------------------------ MODULE MCContentProjection ------------------------
(* Small instances of ContentProjection for TLC. *)
EXTENDS ContentProjection, TLC

CONSTANTS t1, t2, h1, h2

\* Neither paths nor contents are told apart.
Symmetry == Permutations(Targets) \cup Permutations(Hashes)
=============================================================================
