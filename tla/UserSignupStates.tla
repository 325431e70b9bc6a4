------------------------- MODULE UserSignupStates -------------------------
(***************************************************************************)
(* pkg/states: the setters of UserSignup.Spec.States, called in any order  *)
(* by the controllers, the registration service and administrators.  The   *)
(* states are a slice: append at the end, remove of the first occurrence.  *)
(***************************************************************************)
EXTENDS SequencesExt

CONSTANT None

VARIABLES
    states, \* UserSignup.Spec.States
    last    \* history: the last setter and its argument

vars == <<states, last>>

StateOf(setter) ==
    CASE setter = "SetApprovedManually" -> "approved"
      [] setter = "SetVerificationRequired" -> "verificationRequired"
      [] setter = "SetDeactivating" -> "deactivating"
      [] setter = "SetDeactivated" -> "deactivated"
      [] setter = "SetRejected" -> "rejected"

Init == states = <<>> /\ last = None

(* append, unless the state is there.                                      *)
AppendedAlways(s, state) == Append(s, state)
Appended(s, state) == IF Contains(s, state) THEN s ELSE Append(s, state)

(* setState; RemoveFirst is remove: the first occurrence goes.             *)
setState(s, state, val) == IF val THEN Appended(s, state) ELSE RemoveFirst(s, state)

(* setState(..., false) for the states that become unset when a setter has *)
(* set its own.                                                            *)
Unset(s, state) == setState(s, state, FALSE)
UnsetByDeactivatedApprovedKept(s) == Unset(s, "deactivating")
UnsetByDeactivated(s) == Unset(Unset(s, "approved"), "deactivating")
UnsetByApproved(s) == Unset(Unset(Unset(s, "verificationRequired"), "deactivating"), "deactivated")
UnsetByDeactivating(s) == Unset(s, "deactivated")

(* A setter sets its state to val and leaves the states as result.         *)
Sets(setter, val, result) ==
    /\ states' = result
    /\ last' = [setter |-> setter, val |-> val]

SetApprovedManually(val) ==
    LET s == setState(states, "approved", val)
    IN  Sets("SetApprovedManually", val, IF val THEN UnsetByApproved(s) ELSE s)
SetVerificationRequired(val) ==
    Sets("SetVerificationRequired", val, setState(states, "verificationRequired", val))
SetDeactivating(val) ==
    LET s == setState(states, "deactivating", val)
    IN  Sets("SetDeactivating", val, IF val THEN UnsetByDeactivating(s) ELSE s)
SetDeactivated(val) ==
    LET s == setState(states, "deactivated", val)
    IN  Sets("SetDeactivated", val, IF val THEN UnsetByDeactivated(s) ELSE s)
SetRejected(val) == Sets("SetRejected", val, setState(states, "rejected", val))

Next ==
    \E val \in BOOLEAN :
        \/ SetApprovedManually(val)
        \/ SetVerificationRequired(val)
        \/ SetDeactivating(val)
        \/ SetDeactivated(val)
        \/ SetRejected(val)

Spec == Init /\ [][Next]_vars

(***************************************************************************)
(* Properties.                                                             *)
(***************************************************************************)

(* No sequence of calls makes a user deactivated and at the same time      *)
(* approved or about to be deactivated.                                    *)
DeactivatedExcludes ==
    Contains(states, "deactivated") =>
        ~Contains(states, "approved") /\ ~Contains(states, "deactivating")

(* What the last setter did holds, whatever was called before: the getter  *)
(* of its state returns the value that was set.  (A state listed twice     *)
(* would survive remove, which drops the first occurrence only.)           *)
LastSetterHolds ==
    last # None => (Contains(states, StateOf(last.setter)) <=> last.val)
=============================================================================
