--------------------------- MODULE SpaceBindings ---------------------------
(***************************************************************************)
(* pkg/spacebinding: ListForSpace walks from a Space up its parents, with  *)
(* one call for the SpaceBindings and one for the parent at each level,    *)
(* and merges what it finds.  Others bind users, move and delete spaces    *)
(* and switch inheritance meanwhile.  Each Space is judged by the copy     *)
(* that the walk has read of it.                                           *)
(***************************************************************************)
EXTENDS Naturals, Sequences, Functions

CONSTANTS
    Spaces, MasterUserRecords, Roles,
    NoSpace,    \* the empty ParentSpace
    NoRole,
    MaxMoves,   \* bound on the changes made by others
    MaxErrors   \* bound on the calls that fail

ASSUME SpaceAssumption == NoSpace \notin Spaces /\ NoRole \notin Roles

VARIABLES
    live,       \* the Spaces that are there
    parent,     \* Spec.ParentSpace
    disabled,   \* those with Spec.DisableInheritance
    role,       \* the role that the SpaceBinding of a user and a Space gives, NoRole without one
    walk,       \* ListForSpace: where it is, the Space it has read and, for each user, the
                \* bindings it has found, in their order
    asked,      \* the Space the caller asked for
    touched,    \* history: something was changed since the caller asked
    moves, errors

clusterVars == <<live, parent, disabled, role>>
listerVars == <<clusterVars, walk, asked, touched, moves, errors>>

(* Of any Spaces there is one whose parent is not among them.              *)
Acyclic(up) == \A set \in (SUBSET Spaces) \ {{}} : \E s \in set : up[s] \notin set

Copy(s) == [name |-> s, parent |-> parent[s], disabled |-> s \in disabled]

ListerInit ==
    /\ live = Spaces
    /\ parent \in [Spaces -> Spaces \cup {NoSpace}] /\ Acyclic(parent)
    /\ disabled \in SUBSET Spaces
    /\ role \in [Spaces -> [MasterUserRecords -> Roles \cup {NoRole}]]
    /\ asked \in Spaces
    /\ walk = [at |-> "list", space |-> Copy(asked), found |-> [u \in MasterUserRecords |-> <<>>]]
    /\ touched = FALSE
    /\ moves \in 0 .. MaxMoves /\ errors = 0

(***************************************************************************)
(* The others.                                                             *)
(***************************************************************************)

Moved ==
    /\ moves < MaxMoves
    /\ moves' = moves + 1
    /\ touched' = TRUE
    /\ UNCHANGED <<walk, asked, errors>>

(* NewSpaceBinding: the name is made of the Space and the user, so that    *)
(* there is one for both; WithRole.                                        *)
NewSpaceBinding(s, u, r) ==
    /\ role[s][u] # r
    /\ role' = [role EXCEPT ![s][u] = r]
    /\ UNCHANGED <<live, parent, disabled>>

MoveSpace(s, p) ==
    /\ parent[s] # p
    /\ parent' = [parent EXCEPT ![s] = p]
    /\ Acyclic(parent')
    /\ UNCHANGED <<live, disabled, role>>

SetInheritance(s) ==
    /\ disabled' \in {disabled \cup {s}, disabled \ {s}} \ {disabled}
    /\ UNCHANGED <<live, parent, role>>

DeleteSpace(s) ==
    /\ s \in live
    /\ live' = live \ {s}
    /\ UNCHANGED <<parent, disabled, role>>

(***************************************************************************)
(* ListForSpace.                                                           *)
(***************************************************************************)

(* ListSpaceBindingsFunc: the bindings of one Space, by user.              *)
Bound(s) == {u \in MasterUserRecords : role[s][u] # NoRole}
ListSpaceBindings(s) ==
    [u \in MasterUserRecords |->
        IF u \in Bound(s) THEN <<[space |-> s, role |-> role[s][u]]>> ELSE <<>>]

(* Each binding that was found nearer removes the last of the parent's     *)
(* bindings of the same user.                                              *)
WithoutLast(bindings, n) == SubSeq(bindings, 1, Len(bindings) - n)

AppendAll(found, parents) == [u \in MasterUserRecords |-> found[u] \o parents[u]]
mergeSpaceBindings(found, parents) ==
    [u \in MasterUserRecords |-> found[u] \o WithoutLast(parents[u], Len(found[u]))]

Fails == errors < MaxErrors /\ errors' = errors + 1
Returns(outcome, found) == walk' = [walk EXCEPT !.at = outcome, !.found = found]

StopsAtTop(space) == space.parent = NoSpace
StopsAt(space) == space.parent = NoSpace \/ space.disabled

List ==
    /\ walk.at = "list"
    /\ \/ LET found == mergeSpaceBindings(walk.found, ListSpaceBindings(walk.space.name)) IN
          /\ Returns(IF StopsAt(walk.space) THEN "returned" ELSE "get", found)
          /\ UNCHANGED errors
       \/ Fails /\ Returns("failed", walk.found)
    /\ UNCHANGED <<clusterVars, asked, touched, moves>>

SameSpace(space) == space.name
ParentSpace(space) == space.parent

(* GetSpaceFunc for the parent and the recursive call.                     *)
GetParentSpace ==
    /\ walk.at = "get"
    /\ \/ /\ ParentSpace(walk.space) \in live
          /\ walk' = [walk EXCEPT !.at = "list", !.space = Copy(ParentSpace(@))]
          /\ UNCHANGED errors
       \/ ParentSpace(walk.space) \notin live /\ Returns("failed", walk.found) /\ UNCHANGED errors
       \/ Fails /\ Returns("failed", walk.found)
    /\ UNCHANGED <<clusterVars, asked, touched, moves>>

ListForSpace == List \/ GetParentSpace

ListerNext ==
    \/ ListForSpace
    \/ /\ Moved
       /\ \E s \in Spaces :
            \/ \E u \in MasterUserRecords, r \in Roles \cup {NoRole} : NewSpaceBinding(s, u, r)
            \/ \E p \in Spaces \cup {NoSpace} : MoveSpace(s, p)
            \/ SetInheritance(s)
            \/ DeleteSpace(s)

ListerSpec == ListerInit /\ [][ListerNext]_listerVars

(***************************************************************************)
(* Properties.                                                             *)
(***************************************************************************)

(* The Spaces that pass bindings on to s: those in every set with s and    *)
(* with the parents from which its members inherit.                        *)
InheritsFrom(t) == IF t \in disabled THEN {} ELSE {parent[t]} \cap Spaces
Closed(set) == \A t \in set : InheritsFrom(t) \subseteq set
Inherited(s) == {t \in Spaces : \A set \in SUBSET Spaces : s \in set /\ Closed(set) => t \in set}

(* Of those that bind the user the one that is below the others.           *)
Nearest(s, u) ==
    LET bound == {t \in Inherited(s) : u \in Bound(t)}
    IN  {t \in bound : bound \subseteq Inherited(t)}

(* A call of ListForSpace that nothing disturbed returns exactly the       *)
(* binding of the nearest Space for each user; if a call failed on the     *)
(* way, what is returned with the error still is right.                    *)
NearestBindingWins ==
    ~touched => \A u \in MasterUserRecords :
        LET effective == {[space |-> t, role |-> role[t][u]] : t \in Nearest(asked, u)} IN
        /\ Range(walk.found[u]) \subseteq effective
        /\ walk.at = "returned" => Range(walk.found[u]) = effective

(* "a user can have only one role (or no access) in a specific Space":     *)
(* also if Spaces move while ListForSpace is on its way and it comes to    *)
(* one twice.                                                              *)
OneRolePerUser == \A u \in MasterUserRecords : Len(walk.found[u]) <= 1

(* ListForSpace ends: Spaces that are moved again and again could keep it  *)
(* busy, a hierarchy without cycles cannot.                                *)
ListForSpaceReturns == <>(walk.at \in {"returned", "failed"})
=============================================================================
