----------------------------- MODULE MCFinalizer -----------------------------
(* Launchers are told apart by the model checker only. *)
EXTENDS Finalizer
=============================================================================
