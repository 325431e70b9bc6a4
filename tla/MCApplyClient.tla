--------------------------- MODULE MCApplyClient ---------------------------
(***************************************************************************)
(* ApplyClient for TLC: goroutines are interchangeable, and so are specs,  *)
(* labels, addresses and secrets.  A behaviour applies either a Service,   *)
(* by several goroutines and with calls that fail, or the other objects    *)
(* together, by one goroutine at a time and without; the spec of a         *)
(* ServiceAccount, which is never sent, is not edited.                     *)
(***************************************************************************)
EXTENDS ApplyClient, TLC

VARIABLE scene   \* the objects that are applied

MCInit == Init /\ scene \in {Services, ServiceAccounts \cup Others}

MCNext ==
    /\ \/ \E k \in scene : OthersDo(k)
       \/ \E p \in Procs :
            /\ scene = Services \/ \A q \in Procs \ {p} : pc[q] = "idle"
            /\ Applies(p, scene)
    /\ scene = Services \/ (faults' = 0 /\ edited' \subseteq Others)
    /\ UNCHANGED scene

MCSpec == MCInit /\ [][MCNext]_<<vars, scene>>

MCSymmetry ==
    Permutations(Procs) \cup Permutations(Specs) \cup Permutations(Labels)
        \cup Permutations(IPs) \cup Permutations(Refs)
=============================================================================
