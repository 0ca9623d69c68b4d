------------------------------ MODULE MCStream ------------------------------
(* Instances of Stream for TLC. *)
EXTENDS Stream, TLC

\* The viewers are interchangeable.
Symmetric == Permutations(Viewer)
=============================================================================
