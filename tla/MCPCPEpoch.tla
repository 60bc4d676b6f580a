------------------------------ MODULE MCPCPEpoch ------------------------------
(* Instances of PCPEpoch for TLC. *)
EXTENDS PCPEpoch, TLC

(* Concurrent calls are interchangeable. *)
Symmetry == Permutations(Observers)
=============================================================================
