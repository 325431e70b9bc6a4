---------------------- MODULE MCToolchainClusterHealth ----------------------
(***************************************************************************)
(* Instances of ToolchainClusterHealth for TLC.                            *)
(***************************************************************************)
EXTENDS ToolchainClusterHealth
=============================================================================
