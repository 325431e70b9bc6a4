------------------------------ MODULE MCCaches ------------------------------
(***************************************************************************)
(* The two caches of the library, for TLC: they share no state, and a      *)
(* behaviour takes the steps of one while the other rests as it is at the  *)
(* start.                                                                  *)
(***************************************************************************)
EXTENDS MCClusterCache, MCConfigCache

VARIABLE part

MCInit ==
    /\ part \in {"clusters", "configuration"}
    /\ Init
    /\ part = "clusters" \/ (store = NoObjects /\ secret = NoObjects)
    /\ ConfigInit
    /\ part = "configuration" \/ exists

MCNext ==
    \/ part = "clusters" /\ Next /\ UNCHANGED <<part, configVars>>
    \/ part = "configuration" /\ ConfigNext /\ UNCHANGED <<part, vars>>

MCSpec == MCInit /\ [][MCNext]_<<part, vars, configVars>>
=============================================================================
