------------------------- MODULE MCClusterResources -------------------------
(***************************************************************************)
(* ClusterResources for TLC: a release r2 whose objects have lost a field  *)
(* that those of r1 have.                                                  *)
(***************************************************************************)
EXTENDS ClusterResources

CONSTANTS r1, r2, spec, status

MCTemplate ==
    [r \in Releases |-> [i \in 1 .. N |->
        [f \in Fields |-> IF r = r1 /\ f = spec THEN Provider ELSE None]]]
=============================================================================
