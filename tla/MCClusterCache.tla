--------------------------- MODULE MCClusterCache ---------------------------
(***************************************************************************)
(* Instances of ClusterCache for TLC: the operator's namespace has the     *)
(* resources K1 and K2, another namespace has a namesake of K1, called F1. *)
(***************************************************************************)
EXTENDS ClusterCache, TLC

CONSTANTS K1, K2, F1, N1, N2

MCOneName == (K1 :> N1)
MCNamesake == (K1 :> N1 @@ K2 :> N2 @@ F1 :> N1)
=============================================================================
