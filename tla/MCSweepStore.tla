---------------------------- MODULE MCSweepStore ----------------------------
(* Constants of SweepStore for TLC. *)
EXTENDS SweepStore

\* The one edit is of the class.
ClassEdited == <<1, 2>>
=============================================================================
