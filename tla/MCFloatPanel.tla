----------------------------- MODULE MCFloatPanel -----------------------------
(* FloatPanel for TLC: the sessions of a student are interchangeable. *)
EXTENDS FloatPanel, TLC

Symmetry == Permutations(Sessions)

=============================================================================
