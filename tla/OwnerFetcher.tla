---------------------------- MODULE OwnerFetcher ----------------------------
(***************************************************************************)
(* pkg/owners and the ResourceCache of pkg/client: GetOwners goes from an  *)
(* object to its owner, the owner's owner and so on, with a lookup of the  *)
(* kind and a Get at each level.  Goroutines share the ResourceCache,      *)
(* which asks the discovery client once, under a mutex.  Owners are given  *)
(* other owners, are deleted, kinds are installed and calls fail           *)
(* meanwhile.                                                              *)
(***************************************************************************)
EXTENDS SequencesExt

CONSTANTS
    Goroutines,
    OwnedObjects,   \* the names of objects
    ResourceKinds,  \* the kinds that owner references have
    KindOf,         \* the kind of each object
    InitialReferences,
    NoList, NoOne,
    MaxOwnerEdits, MaxCallErrors

Reference == [name : OwnedObjects, controller : BOOLEAN]

ASSUME OwnerAssumption ==
    /\ IsFiniteSet(Goroutines)
    /\ KindOf \in [OwnedObjects -> ResourceKinds]
    /\ \A refs \in InitialReferences : refs \in [OwnedObjects -> Seq(Reference)]
    /\ NoOne \notin OwnedObjects
    /\ \A kinds \in SUBSET ResourceKinds : NoList # kinds

VARIABLES
    present,        \* the objects that are there
    references,     \* their owner references in order: name and controller
    served,         \* the kinds that the API server served from the beginning
    installed,      \* those that were installed later
    resourceLists,  \* the ResourceCache: NoList or the kinds it lists
    mutexHolder,
    fetch,          \* GetOwners of each goroutine
    disturbed,      \* history: the goroutines since whose call something was changed
    ownerEdits, callErrors

objectVars == <<present, references, served, installed>>
cacheVars == <<resourceLists, mutexHolder>>
ownerVars == <<objectVars, cacheVars, fetch, disturbed, ownerEdits, callErrors>>

(* The owner that GetOwners follows: the first controller, or the first    *)
(* reference if none is a controller.                                      *)
FirstOwner(refs) == IF refs = <<>> THEN NoOne ELSE refs[1].name
FollowedOwner(refs) ==
    LET i == SelectInSeq(refs, LAMBDA r : r.controller)
    IN  IF i # 0 THEN refs[i].name ELSE FirstOwner(refs)

(* The references have no cycle, whichever of them are followed.           *)
AcyclicOwners(refs) ==
    \A set \in (SUBSET OwnedObjects) \ {{}} :
        \E o \in set : \A i \in DOMAIN refs[o] : refs[o][i].name \notin set

Idle == [at |-> "idle", object |-> NoOne, refs |-> <<>>, owners |-> <<>>]

OwnerInit ==
    /\ present = OwnedObjects
    /\ references \in InitialReferences
    /\ served \in SUBSET ResourceKinds /\ installed = {}
    /\ resourceLists = NoList /\ mutexHolder = NoOne
    /\ fetch = [g \in Goroutines |-> Idle]
    /\ disturbed = {}
    /\ ownerEdits \in 0 .. MaxOwnerEdits /\ callErrors = 0

Calling(g) == fetch[g].at \notin {"idle", "returned", "failed"}
CallFails == callErrors < MaxCallErrors /\ callErrors' = callErrors + 1

(***************************************************************************)
(* The others.                                                             *)
(***************************************************************************)

OwnerEdit ==
    /\ ownerEdits < MaxOwnerEdits
    /\ ownerEdits' = ownerEdits + 1
    /\ disturbed' = disturbed \cup {g \in Goroutines : fetch[g].at # "idle"}
    /\ UNCHANGED <<cacheVars, fetch, callErrors>>

(* Owner references are added and removed, and at most one is a            *)
(* controller.                                                             *)
AddReference(o, p, controller) ==
    /\ o \in present
    /\ \A i \in 1 .. Len(references[o]) : controller => ~references[o][i].controller
    /\ references' = [references EXCEPT ![o] = Append(@, [name |-> p, controller |-> controller])]
    /\ AcyclicOwners(references')
    /\ UNCHANGED <<present, served, installed>>

RemoveReference(o) ==
    /\ o \in present /\ references[o] # <<>>
    /\ references' = [references EXCEPT ![o] = Tail(@)]
    /\ UNCHANGED <<present, served, installed>>

DeleteObject(o) ==
    /\ o \in present
    /\ present' = present \ {o}
    /\ UNCHANGED <<references, served, installed>>

InstallKind(k) ==
    /\ k \notin served \cup installed
    /\ installed' = installed \cup {k}
    /\ UNCHANGED <<present, references, served>>

(***************************************************************************)
(* GetOwners.                                                              *)
(***************************************************************************)

Goes(g, at) == fetch' = [fetch EXCEPT ![g].at = at]

(* The caller has read the object.                                         *)
GetOwners(g, o) ==
    /\ fetch[g].at = "idle" /\ o \in present
    /\ fetch' = [fetch EXCEPT ![g] = [@ EXCEPT !.at = "choose", !.object = o, !.refs = references[o]]]
    /\ UNCHANGED <<objectVars, cacheVars, disturbed, ownerEdits, callErrors>>

(* The other user of the ResourceCache, without an object.                 *)
GVKForGR(g) ==
    /\ fetch[g].at = "idle"
    /\ Goes(g, "ensure")
    /\ UNCHANGED <<objectVars, cacheVars, disturbed, ownerEdits, callErrors>>

(* No owner: the recursion ends, and the owners found on the way are       *)
(* appended from the top down.                                             *)
ChooseOwner(g) ==
    /\ fetch[g].at = "choose"
    /\ Goes(g, IF FollowedOwner(fetch[g].refs) = NoOne THEN "returned" ELSE "ensure")
    /\ UNCHANGED <<objectVars, cacheVars, disturbed, ownerEdits, callErrors>>

(* ensureResourceList.                                                     *)
LockMutex(g) ==
    /\ fetch[g].at = "ensure" /\ mutexHolder = NoOne
    /\ mutexHolder' = g
    /\ Goes(g, IF resourceLists = NoList THEN "discover" ELSE "unlock")
    /\ UNCHANGED <<objectVars, resourceLists, disturbed, ownerEdits, callErrors>>

MutexKept(g) == UNCHANGED mutexHolder
MutexReleased(g) == mutexHolder' = NoOne

(* Partial results of a failure are not kept.                              *)
PartialListKept == resourceLists' = {}
FailedDiscovery == UNCHANGED resourceLists

(* ServerPreferredResources.                                               *)
Discover(g) ==
    /\ fetch[g].at = "discover"
    /\ \/ /\ resourceLists' = served \cup installed
          /\ Goes(g, "unlock")
          /\ UNCHANGED <<mutexHolder, callErrors>>
       \/ /\ CallFails
          /\ MutexReleased(g)
          /\ Goes(g, "failed")
          /\ FailedDiscovery
    /\ UNCHANGED <<objectVars, disturbed, ownerEdits>>

(* The deferred Unlock, and the lookup after it: GVKForGR answers whether  *)
(* a kind is found, GVRForKind's caller fails if it is not.                *)
Lookup(g) ==
    LET owner == FollowedOwner(fetch[g].refs) IN
    /\ fetch[g].at = "unlock"
    /\ mutexHolder' = NoOne
    /\ Goes(g, IF owner = NoOne THEN "returned"
               ELSE IF KindOf[owner] \in resourceLists THEN "get" ELSE "failed")
    /\ UNCHANGED <<objectVars, resourceLists, disturbed, ownerEdits, callErrors>>

(* The Get of the owner and the recursive call for it.                     *)
GetOwner(g) ==
    LET owner == FollowedOwner(fetch[g].refs) IN
    /\ fetch[g].at = "get"
    /\ \/ /\ owner \in present
          /\ fetch' = [fetch EXCEPT ![g] =
                [at |-> "choose", object |-> fetch[g].object, refs |-> references[owner],
                 owners |-> <<owner>> \o fetch[g].owners]]
          /\ UNCHANGED callErrors
       \/ /\ \/ owner \notin present /\ UNCHANGED callErrors
             \/ CallFails
          /\ Goes(g, "failed")
    /\ UNCHANGED <<objectVars, cacheVars, disturbed, ownerEdits>>

Fetches(g) == ChooseOwner(g) \/ LockMutex(g) \/ Discover(g) \/ Lookup(g) \/ GetOwner(g)

OwnerNext ==
    \/ \E g \in Goroutines :
        (\E o \in OwnedObjects : GetOwners(g, o)) \/ GVKForGR(g) \/ Fetches(g)
    \/ /\ OwnerEdit
       /\ \/ \E o \in OwnedObjects :
              \/ DeleteObject(o)
              \/ RemoveReference(o)
              \/ \E p \in OwnedObjects, controller \in BOOLEAN : AddReference(o, p, controller)
          \/ \E k \in ResourceKinds : InstallKind(k)

OwnerSpec == OwnerInit /\ [][OwnerNext]_ownerVars

(***************************************************************************)
(* Properties.                                                             *)
(***************************************************************************)

(* Whether p is the owner of o to go to: its controller, if it has one.    *)
MainOwner(o, p) ==
    \E i \in 1 .. Len(references[o]) :
        /\ references[o][i].name = p
        /\ \/ references[o][i].controller
           \/ i = 1 /\ \A j \in 1 .. Len(references[o]) : ~references[o][j].controller

(* The answer of GetOwners, if nothing was changed during the call, leads  *)
(* from the top-level owner to the owner of the object; with an error it   *)
(* is the lower part of this way.                                          *)
OwnersFromTheTop ==
    \A g \in Goroutines \ disturbed :
        LET way == Append(fetch[g].owners, fetch[g].object) IN
        fetch[g].at \in {"returned", "failed"} /\ fetch[g].object # NoOne =>
            /\ \A i \in 1 .. Len(way) - 1 : MainOwner(way[i + 1], way[i])
            /\ fetch[g].at = "returned" <=> references[way[1]] = <<>>

(* The owners above o: those in every set with the owner of o and the      *)
(* owners of its members.                                                  *)
OwnersAbove(o) ==
    {p \in OwnedObjects :
        \A set \in SUBSET OwnedObjects :
            (\A q \in set \cup {o}, r \in OwnedObjects : MainOwner(q, r) => r \in set) => p \in set}

(* An owner above o is gone, or of a kind that was not served from the     *)
(* beginning: one that is installed later the ResourceCache may miss.      *)
OwnerUnreachable(o) ==
    \E p \in OwnersAbove(o) : p \notin present \/ KindOf[p] \notin served

(* A failed call to the API server or the discovery client fails one call  *)
(* of GetOwners or GVKForGR: the ResourceCache keeps nothing of a failed   *)
(* discovery, and no lookup comes before it is filled.                     *)
OneErrorFailsOneCall ==
    Cardinality({g \in Goroutines \ disturbed :
                    /\ fetch[g].at = "failed"
                    /\ fetch[g].object = NoOne \/ ~OwnerUnreachable(fetch[g].object)}) <= callErrors

(* GetOwners returns, also to those that wait for a mutex that a failed    *)
(* call held: the references have no cycle, and an owner is fetched once.  *)
GetOwnersReturns == \A g \in Goroutines : Calling(g) ~> ~Calling(g)
=============================================================================
