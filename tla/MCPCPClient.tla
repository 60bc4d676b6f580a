----------------------------- MODULE MCPCPClient -----------------------------
(* Instances of PCPClient for TLC. *)
EXTENDS PCPClient, TLC

(* Callers, nonces and ports are interchangeable: no definition tells one   *)
(* from another.  Used by the runs that check no liveness property.         *)
Symmetry ==
    Permutations(Callers) \cup Permutations(Nonces) \cup Permutations(Ports)
=============================================================================
