-------------------------- MODULE MCTierGenerator --------------------------
(***************************************************************************)
(* TierGenerator for TLC: tiers and parameters are interchangeable.        *)
(***************************************************************************)
EXTENDS TierGenerator, TLC

MCSymmetry == Permutations(Tiers) \cup Permutations(Params)
=============================================================================
