----------------------------- MODULE MCJobQueue -----------------------------
(* Constants of JobQueue for TLC. *)
EXTENDS JobQueue, TLC

\* Workers and fingerprints are interchangeable; ids are not (FIFO order).
Symmetry == Permutations(Workers) \cup Permutations(Fingerprints)
=============================================================================
