------------------------- MODULE MCJobHousekeeping --------------------------
(* Constants of JobHousekeeping for TLC. *)
EXTENDS JobHousekeeping, TLC

\* Workers are interchangeable.
Symmetry == Permutations(Workers)
=============================================================================
