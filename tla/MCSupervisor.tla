----------------------------- MODULE MCSupervisor -----------------------------
(* A repair changes two contracts that are not neighbours, the first in the *)
(* middle of the planning; or, where convergence is checked, just this one. *)
EXTENDS Supervisor, TLC

MCContractChanges == {{"architect_design", "tester"}}

OneContractChange == {{"architect_design"}}

Symmetry == Permutations(Supervisors) \cup Permutations(Manifests)
=============================================================================
