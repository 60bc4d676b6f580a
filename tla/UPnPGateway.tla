------------------------------ MODULE UPnPGateway -----------------------------
(***************************************************************************)
(* The life of a UPnP gateway object: a search finds the device            *)
(* (UnicastSearch), hands the object over, and from then on goroutines     *)
(* create and delete mappings with it (UPnPMapping).  When the program     *)
(* starts again or discovers the gateway again, the search begins anew and *)
(* the new object knows nothing of the mappings of the old one.            *)
(***************************************************************************)
EXTENDS UPnPMapping, UnicastSearch, TLC

ASSUME SearchAssumption ==
    /\ OwnLocations \subseteq Locations
    /\ Targets \in Nat \ {0}
    /\ MaxAnswers \in Nat /\ MaxServices \in Nat

vars == <<mappingVars, searchVars>>

Init == MappingInit /\ SearchInit

\* Calls need an object; the device and its other users do not.
Uses ==
    /\ at = "inUse" /\ MappingNext
    /\ UNCHANGED searchVars

Rediscovers == BeginsAnew /\ Restart

Next ==
    \/ SearchNext /\ UNCHANGED mappingVars
    \/ Uses
    \/ Rediscovers

Spec == Init /\ [][Next]_vars

Symmetry ==
    Permutations(Callers) \cup Permutations(InternalPorts)
      \cup Permutations(ExtPorts)
=============================================================================
