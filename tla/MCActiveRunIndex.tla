--------------------------- MODULE MCActiveRunIndex ---------------------------
(* Finalizers are interchangeable; reservations are numbered and are not.   *)
EXTENDS ActiveRunIndex, TLC

Symmetry == Permutations(Finalizers)
=============================================================================
