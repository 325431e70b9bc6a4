--------------------------- MODULE ManagedObjects ---------------------------
(***************************************************************************)
(* What server-side apply is used for in pkg/client and in the controller  *)
(* of controllers/toolchainclusterresources: the objects of a template     *)
(* share their fields with other writers.  To apply an object is one step, *)
(* after which it has the fields of the template and those that others     *)
(* have set, and no others; no other step of the operator shows.           *)
(***************************************************************************)
CONSTANTS Objects, Fields, Values, None

VARIABLES
    exists,   \* the objects in the cluster
    value,    \* the values of their fields, None if a field is not set
    foreign,  \* the fields that other writers manage
    desired   \* the template: the fields of each object

vars == <<exists, value, foreign, desired>>

Contents == [Objects -> [Fields -> Values \cup {None}]]

Init ==
    /\ exists \in SUBSET Objects
    /\ value \in Contents
    /\ foreign = [i \in Objects |-> {}]
    /\ desired \in Contents

(* The operator makes the object what the template says, keeps the fields  *)
(* of others and drops those that earlier templates had.                   *)
Merged(i) ==
    [f \in Fields |-> IF desired[i][f] # None THEN desired[i][f]
                      ELSE IF f \in foreign[i] THEN value[i][f] ELSE None]

Apply(i) ==
    /\ exists' = exists \cup {i}
    /\ value' = [value EXCEPT ![i] = Merged(i)]
    /\ foreign' = [foreign EXCEPT ![i] = {f \in @ : desired[i][f] \in {None, value[i][f]}}]
    /\ UNCHANGED desired

(* Another writer sets or removes a field, or deletes the object.          *)
Write(i, f, v) ==
    /\ i \in exists
    /\ value' = [value EXCEPT ![i][f] = v]
    /\ foreign' = [foreign EXCEPT ![i] = IF v = None THEN @ \ {f} ELSE @ \cup {f}]
    /\ UNCHANGED <<exists, desired>>

Delete(i) ==
    /\ exists' = exists \ {i}
    /\ value' = [value EXCEPT ![i] = [f \in Fields |-> None]]
    /\ foreign' = [foreign EXCEPT ![i] = {}]
    /\ UNCHANGED desired

(* An earlier release of the operator, without server-side apply.          *)
EarlierWrite(i, f, v) ==
    /\ exists' = exists \cup {i}
    /\ value' = [value EXCEPT ![i][f] = v]
    /\ foreign' = [foreign EXCEPT ![i] = IF v = value[i][f] THEN @ ELSE @ \ {f}]
    /\ UNCHANGED desired

(* Another release with other templates.                                   *)
Release ==
    /\ desired' \in Contents
    /\ UNCHANGED <<exists, value, foreign>>

Next ==
    \/ \E i \in Objects :
        \/ Apply(i)
        \/ Delete(i)
        \/ \E f \in Fields, v \in Values \cup {None} : Write(i, f, v) \/ EarlierWrite(i, f, v)
    \/ Release

Spec == Init /\ [][Next]_vars
=============================================================================
