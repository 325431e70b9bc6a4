----------------------------- MODULE MCLibrary -----------------------------
(***************************************************************************)
(* The parts of the library that share no state, for TLC: a behaviour      *)
(* chooses one of them and takes its steps, the others rest in an initial  *)
(* state.                                                                  *)
(***************************************************************************)
EXTENDS UserSignupStates, MCUsernames, StatusConditions, SpaceBindings, OwnerFetcher, VersionCheck

CONSTANTS s1, s2, s3, u1, u2, o1, o2, o3

VARIABLE part

libraryVars == <<part, vars, usernameVars, conditionVars, listerVars, ownerVars, versionVars>>

(* Spaces: the hierarchies as they stand, and a chain of three that        *)
(* changes while one user is bound anywhere.                               *)
MCChain == [s \in Spaces |-> CASE s = s1 -> s2 [] s = s2 -> s3 [] OTHER -> NoSpace]
MCBound(users) == [u \in MasterUserRecords |-> IF u \in users THEN "r" ELSE NoRole]
ListerScenes ==
    \/ moves = MaxMoves
    \/ moves = 0 /\ parent = MCChain /\ role \in [Spaces -> {MCBound({}), MCBound({u1})}]
ListerRests ==
    moves = MaxMoves /\ parent = MCChain /\ disabled = {} /\ role = [s \in Spaces |-> MCBound({})]

(* Owners: chains of up to three, as they stand and changing.              *)
MCKindOf == [o \in OwnedObjects |-> IF o = o3 THEN "crd" ELSE "pod"]
MCRef(o, controller) == [name |-> o, controller |-> controller]
MCOwners(r1, r2) ==
    [o \in OwnedObjects |-> CASE o = o1 -> r1 [] o = o2 -> r2 [] OTHER -> <<>>]
MCReferences ==
    {MCOwners(r1, r2) :
        r1 \in {<<>>, <<MCRef(o2, FALSE)>>, <<MCRef(o3, FALSE), MCRef(o2, TRUE)>>,
                <<MCRef(o2, FALSE), MCRef(o3, FALSE)>>},
        r2 \in {<<>>, <<MCRef(o3, TRUE)>>}}
OwnerRests == ownerEdits = 0 /\ served = {"pod"} /\ references = MCOwners(<<>>, <<>>)
OwnerScenes ==
    \/ ownerEdits = MaxOwnerEdits
    \/ /\ ownerEdits = 0 /\ served = {"pod"}
       /\ references = MCOwners(<<MCRef(o2, FALSE)>>, <<MCRef(o3, TRUE)>>)

(* Two components of two repositories.                                     *)
MCRepoOf == [d \in Deployments |-> IF d = "host" THEN "host-operator" ELSE "registration-service"]
MCFollowing == [d \in Deployments |-> IF d = "host" THEN "registration" ELSE "host"]
VersionScenes == turn = "host" /\ latest = [r \in Repos |-> "c1"]
VersionRests == VersionScenes /\ deployed = [d \in Deployments |-> "c1"] /\ enabled = FALSE

MCInit ==
    /\ part \in {"states", "usernames", "conditions", "lister", "owners", "versions"}
    /\ Init
    /\ UsernamesInit
    /\ ConditionsInit
    /\ asked = s1 /\ (IF part = "lister" THEN ListerScenes ELSE ListerRests) /\ ListerInit
    /\ (IF part = "owners" THEN OwnerScenes ELSE OwnerRests) /\ OwnerInit
    /\ (IF part = "versions" THEN VersionScenes ELSE VersionRests) /\ VersionInit

(* A step of one part.                                                     *)
OfStates(A) ==
    /\ part = "states" /\ A
    /\ UNCHANGED <<part, usernameVars, conditionVars, listerVars, ownerVars, versionVars>>
OfUsernames(A) ==
    /\ part = "usernames" /\ A
    /\ UNCHANGED <<part, vars, conditionVars, listerVars, ownerVars, versionVars>>
OfConditions(A) ==
    /\ part = "conditions" /\ A
    /\ UNCHANGED <<part, vars, usernameVars, listerVars, ownerVars, versionVars>>
OfLister(A) ==
    /\ part = "lister" /\ A
    /\ UNCHANGED <<part, vars, usernameVars, conditionVars, ownerVars, versionVars>>
OfOwners(A) ==
    /\ part = "owners" /\ A
    /\ UNCHANGED <<part, vars, usernameVars, conditionVars, listerVars, versionVars>>
OfVersions(A) ==
    /\ part = "versions" /\ A
    /\ UNCHANGED <<part, vars, usernameVars, conditionVars, listerVars, ownerVars>>

MCNext ==
    \/ OfStates(Next)
    \/ OfUsernames(UsernamesNext)
    \/ OfConditions(ConditionsNext)
    \/ OfLister(ListerNext)
    \/ OfOwners(OwnerNext)
    \/ OfVersions(VersionNext)

(* Each part's goroutines go on, and time does.                            *)
MCSpec ==
    /\ MCInit /\ [][MCNext]_libraryVars
    /\ WF_libraryVars(OfLister(ListForSpace))
    /\ \A g \in Goroutines : WF_libraryVars(OfOwners(Fetches(g)))
    /\ WF_libraryVars(OfVersions(Tick))
    /\ WF_libraryVars(OfVersions(\E d \in Deployments : Checks(d)))

(* ListForSpaceReturns of SpaceBindings, in the behaviours of this part.   *)
ListForSpaceEnds == part = "lister" => ListForSpaceReturns

(* VerdictsConverge of VersionCheck, in the behaviours of this part.       *)
VersionVerdictsConverge == part = "versions" => VerdictsConverge
=============================================================================
