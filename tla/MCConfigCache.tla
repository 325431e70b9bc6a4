--------------------------- MODULE MCConfigCache ---------------------------
(***************************************************************************)
(* ConfigCache for TLC: goroutines are interchangeable.                    *)
(***************************************************************************)
EXTENDS ConfigCache, TLC

MCLoaders == Permutations(Loaders)
=============================================================================
