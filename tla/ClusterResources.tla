-------------------------- MODULE ClusterResources --------------------------
(***************************************************************************)
(* The controller of controllers/toolchainclusterresources and the         *)
(* server-side apply client of pkg/client that it uses.  A reconcile       *)
(* applies the template objects one after the other; ApplyObject reads the *)
(* object, migrates its managed fields if an earlier release without       *)
(* server-side apply owns some, and patches it.  Other writers and the end *)
(* of the process come in between any two calls.                           *)
(*                                                                         *)
(* The template objects are in memory and are handed to Patch, which       *)
(* decodes the answer of the API server into them: from the first          *)
(* successful patch to the end of the process they hold the whole object   *)
(* and its uid and resourceVersion.  Instead of resource versions the      *)
(* model has the set of objects whose copy is the current version.         *)
(***************************************************************************)
EXTENDS Naturals

CONSTANTS
    N,           \* number of template objects
    Fields,
    Label,       \* the field that is the provider label
    SpecFields,  \* the fields whose changes count as a new generation
    Values,
    Provider,    \* ResourceControllerLabelValue
    None,
    Releases,
    Template,    \* what the manifests of each release set in each object
    MaxEdits,    \* bound on the changes made by others
    MaxFaults    \* bound on the calls that fail

Objects == 1 .. N
Contents == [Fields -> Values \cup {None}]

ASSUME NAssumption == N \in Nat \ {0}
ASSUME BoundsAssumption == MaxEdits \in Nat /\ MaxFaults \in Nat
ASSUME FieldsAssumption == Label \in Fields /\ SpecFields \subseteq Fields
ASSUME ValuesAssumption == Provider \in Values /\ None \notin Values
ASSUME TemplateAssumption == Releases # {} /\ Template \in [Releases -> [Objects -> Contents]]

(* Who manages a field: FieldOwner with operation Apply, NonSSAFieldOwner  *)
(* with operation Update, anybody else.                                    *)
Managers == {"apply", "legacy", "other"}

VARIABLES
    exists, value, managers,  \* the objects in the API server
    pc,      \* down, idle, get, update, patch
    at,      \* the template object ApplyAll is at
    release, \* the release that runs or ran last
    held,    \* templateObjects
    stamped, \* those that were decoded from an answer
    current, \* those that were and are the version in the API server
    fetched, \* whether the copy of migrateSSA is the version in the API server
    queued,  \* whether a request is in the work queue
    edits, faults

apiVars == <<exists, value, managers>>
heldVars == <<held, stamped>>
vars == <<apiVars, pc, at, release, heldVars, current, fetched, queued, edits, faults>>

TypeOK ==
    /\ exists \subseteq Objects
    /\ value \in [Objects -> Contents]
    /\ managers \in [Objects -> [Fields -> SUBSET Managers]]
    /\ pc \in {"down", "idle", "get", "update", "patch"}
    /\ at \in Objects
    /\ release \in Releases
    /\ held \in [Objects -> Contents]
    /\ stamped \subseteq Objects /\ current \subseteq stamped
    /\ fetched \in BOOLEAN /\ queued \in BOOLEAN
    /\ edits \in 0 .. MaxEdits /\ faults \in 0 .. MaxFaults

NoContent == [f \in Fields |-> None]

(* The cluster before the first release that uses server-side apply.       *)
Init ==
    /\ exists = {}
    /\ value = [i \in Objects |-> NoContent]
    /\ managers = [i \in Objects |-> [f \in Fields |-> {}]]
    /\ pc = "down"
    /\ at = 1
    /\ release \in Releases
    /\ held = [i \in Objects |-> NoContent]
    /\ stamped = {} /\ current = {}
    /\ fetched = FALSE /\ queued = FALSE
    /\ edits = 0 /\ faults = 0

Edit == edits < MaxEdits /\ edits' = edits + 1
Fault == faults < MaxFaults /\ faults' = faults + 1

(***************************************************************************)
(* The watches.                                                            *)
(***************************************************************************)

(* LabelsAndGenerationPredicate.Update.  SpecFields are the fields whose   *)
(* change is a new metadata.generation; objects without one, as roles and  *)
(* ServiceAccounts, have none.                                             *)
LabelsAndGenerationPredicate(i) ==
    \E f \in {Label} \cup SpecFields : value'[i][f] # value[i][f]

(* MapToControllerByMatchingLabel, for the old object and the new one.     *)
MapNewToController(i) == value'[i][Label] = Provider
MapToController(i) == Provider \in {value[i][Label], value'[i][Label]}

(* Whether the write of i raises a request.                                *)
Enqueues(i) ==
    /\ pc # "down"
    /\ exists' = exists => LabelsAndGenerationPredicate(i)
    /\ MapToController(i)

(* The object gets a new version: no copy of it is current any more.       *)
NewVersion(i, es, content, ms) ==
    /\ exists' = es
    /\ value' = [value EXCEPT ![i] = content]
    /\ managers' = [managers EXCEPT ![i] = ms]
    /\ fetched' = (fetched /\ i # at)

(***************************************************************************)
(* The other writers.                                                      *)
(***************************************************************************)

(* The fields after manager m set f to v, not by a forced apply: a new     *)
(* value takes the field from the other managers, the same one shares it.  *)
SetBy(m, i, f, v) ==
    [managers[i] EXCEPT ![f] =
        IF v = None THEN {} ELSE IF v = value[i][f] THEN @ \cup {m} ELSE {m}]

OtherWrite(i, f, v) ==
    /\ Edit
    /\ i \in exists
    /\ v # value[i][f] \/ (v # None /\ "other" \notin managers[i][f])
    /\ NewVersion(i, exists, [value[i] EXCEPT ![f] = v], SetBy("other", i, f, v))
    /\ current' = current \ {i}
    /\ queued' = (queued \/ Enqueues(i))
    /\ UNCHANGED <<pc, at, release, heldVars, faults>>

OtherDelete(i) ==
    /\ Edit
    /\ i \in exists
    /\ NewVersion(i, exists \ {i}, NoContent, [f \in Fields |-> {}])
    /\ current' = current \ {i}
    /\ queued' = (queued \/ Enqueues(i))
    /\ UNCHANGED <<pc, at, release, heldVars, faults>>

(* An earlier release of the operator, before or after an upgrade.         *)
LegacyWrite(i, f, v) ==
    /\ Edit
    /\ pc = "down"
    /\ v # None \/ i \in exists
    /\ v # value[i][f] \/ (v # None /\ "legacy" \notin managers[i][f])
    /\ NewVersion(i, exists \cup {i}, [value[i] EXCEPT ![f] = v], SetBy("legacy", i, f, v))
    /\ UNCHANGED <<pc, at, release, heldVars, current, queued, faults>>

(* An event of a ServiceAccount, For which there is neither predicate nor  *)
(* mapping.                                                                *)
ServiceAccountEvent ==
    /\ Edit
    /\ pc # "down" /\ ~queued
    /\ queued' = TRUE
    /\ UNCHANGED <<apiVars, pc, at, release, heldVars, current, fetched, faults>>

(***************************************************************************)
(* The process.                                                            *)
(***************************************************************************)

(* SetupWithManager loads the templates; the first list of the informers   *)
(* raises the first request.                                               *)
Start(r) ==
    /\ pc = "down"
    /\ pc' = "idle"
    /\ release' = r
    /\ held' = Template[r]
    /\ queued' = TRUE
    /\ UNCHANGED <<apiVars, at, stamped, current, fetched, edits, faults>>

Stop ==
    /\ pc # "down"
    /\ pc' = "down"
    /\ at' = 1
    /\ held' = [i \in Objects |-> NoContent]
    /\ stamped' = {} /\ current' = {}
    /\ fetched' = FALSE /\ queued' = FALSE
    /\ UNCHANGED <<apiVars, release, edits, faults>>

(* Reconcile calls ApplyAll for the template objects.                      *)
Reconcile ==
    /\ pc = "idle" /\ queued
    /\ queued' = FALSE
    /\ pc' = "get"
    /\ at' = 1
    /\ UNCHANGED <<apiVars, release, heldVars, current, fetched, edits, faults>>

(* ApplyObject returns an error, ApplyAll and Reconcile too: the request   *)
(* is repeated.                                                            *)
Fails ==
    /\ pc' = "idle"
    /\ queued' = TRUE
    /\ UNCHANGED at

(***************************************************************************)
(* ApplyObject.                                                            *)
(***************************************************************************)

(* Configure with EnsureLabels; the options name no owner.                 *)
Configured(content) == [content EXCEPT ![Label] = Provider]

(* isSsaMigrationNeeded.                                                   *)
NeverNeeded(i) == FALSE
isSsaMigrationNeeded(i) == \E f \in Fields : "legacy" \in managers[i][f]

(* Configure, prepareForSSA and the Get of migrateSSA.                     *)
Get(i) ==
    /\ pc = "get" /\ i = at
    /\ held' = [held EXCEPT ![i] = Configured(@)]
    /\ \/ /\ i \in exists /\ isSsaMigrationNeeded(i)
          /\ pc' = "update"
          /\ fetched' = TRUE
          /\ UNCHANGED <<at, queued, faults>>
       \/ /\ i \notin exists \/ ~isSsaMigrationNeeded(i)
          /\ pc' = "patch"
          /\ UNCHANGED <<at, fetched, queued, faults>>
       \/ Fault /\ Fails /\ UNCHANGED fetched
    /\ UNCHANGED <<apiVars, release, stamped, current, edits>>

(* UpgradeManagedFields.                                                   *)
Upgraded(i) ==
    [f \in Fields |-> IF "legacy" \in managers[i][f]
                      THEN (managers[i][f] \ {"legacy"}) \cup {"apply"}
                      ELSE managers[i][f]]

(* migrateToSSA: the Update carries the version that was read.  A call     *)
(* that fails may have been carried out.                                   *)
Accepted(i) == fetched

Update(i) ==
    /\ pc = "update" /\ i = at
    /\ \/ /\ Accepted(i)
          /\ NewVersion(i, exists, value[i], Upgraded(i))
          /\ current' = current \ {i}
          /\ \/ pc' = "patch" /\ UNCHANGED <<at, queued, faults>>
             \/ Fault /\ Fails
       \/ /\ \/ ~Accepted(i) /\ UNCHANGED faults
             \/ Fault
          /\ Fails
          /\ fetched' = FALSE
          /\ UNCHANGED <<apiVars, current>>
    /\ UNCHANGED <<release, heldVars, edits>>

(* What the API server makes of a forced apply: the fields of the patch    *)
(* and those that others manage.                                           *)
ForcedManagers(i) ==
    [f \in Fields |->
        IF held[i][f] = None THEN managers[i][f] \ {"apply"}
        ELSE IF held[i][f] = value[i][f] THEN managers[i][f] \cup {"apply"}
        ELSE {"apply"}]
Forced(i) ==
    [f \in Fields |->
        IF held[i][f] # None THEN held[i][f]
        ELSE IF ForcedManagers(i)[f] = {} THEN None ELSE value[i][f]]

(* A patch with uid and resourceVersion is refused if the object is gone   *)
(* or was written since.                                                   *)
Refused(i) == i \in stamped \ current

ApplyAllOverruns(i) == pc' = "get" /\ at' = i + 1
ApplyAllReturns(i) == pc' = "idle" /\ UNCHANGED at
ApplyAllContinues(i) ==
    IF i = N THEN pc' = "idle" /\ UNCHANGED at
    ELSE pc' = "get" /\ at' = i + 1

(* The Patch; its answer is decoded into the template object.              *)
Patch(i) ==
    /\ pc = "patch" /\ i = at
    /\ \/ /\ ~Refused(i)
          /\ NewVersion(i, exists \cup {i}, Forced(i), ForcedManagers(i))
          /\ \/ /\ ApplyAllContinues(i)
                /\ queued' = (queued \/ Enqueues(i))
                /\ held' = [held EXCEPT ![i] = Forced(i)]
                /\ stamped' = stamped \cup {i}
                /\ current' = current \cup {i}
                /\ UNCHANGED faults
             \/ /\ Fault /\ Fails
                /\ current' = IF Forced(i) = value[i] /\ ForcedManagers(i) = managers[i]
                              THEN current ELSE current \ {i}
                /\ UNCHANGED heldVars
       \/ /\ \/ Refused(i) /\ UNCHANGED faults
             \/ Fault
          /\ Fails
          /\ UNCHANGED <<apiVars, fetched, heldVars, current>>
    /\ UNCHANGED <<release, edits>>

Next ==
    \/ \E i \in Objects, f \in Fields, v \in Values \cup {None} :
        OtherWrite(i, f, v) \/ LegacyWrite(i, f, v)
    \/ \E i \in Objects : OtherDelete(i) \/ Get(i) \/ Update(i) \/ Patch(i)
    \/ ServiceAccountEvent
    \/ \E r \in Releases : Start(r)
    \/ Stop
    \/ Reconcile

Spec == Init /\ [][Next]_vars

(* The worker takes requests and goes on with the one it has taken, and    *)
(* failed requests are added again.                                        *)
Works == Reconcile \/ \E i \in Objects : Get(i) \/ Update(i) \/ Patch(i)
FairSpec == Spec /\ WF_vars(Works)

(***************************************************************************)
(* Properties.                                                             *)
(***************************************************************************)

(* What the manifests of the running release want.                         *)
Desired(i) == Configured(Template[release][i])

Foreign(i) == {f \in Fields : "other" \in managers[i][f]}

(* An object that was applied, and that nobody has written since, has all  *)
(* the fields of the template and beyond them only fields that others      *)
(* manage: what earlier templates had is gone, also what a release without *)
(* server-side apply had written, whichever calls of ApplyObject failed.   *)
AppliedAsDescribed ==
    \A i \in current, f \in Fields :
        \/ value[i][f] = Desired(i)[f]
        \/ Desired(i)[f] = None /\ f \in Foreign(i)

(* The operator's calls, and the order and the failures of them, are       *)
(* invisible but for one: the Patch applies the template at once, beside   *)
(* other writers, without touching fields that are theirs and not in the   *)
(* template.                                                               *)
Managed == INSTANCE ManagedObjects
    WITH foreign <- [i \in Objects |-> Foreign(i)], desired <- [i \in Objects |-> Desired(i)]
ManagedSpec == Managed!Spec

(* Every release applies all its objects, unless one that it applied       *)
(* before was written since.                                               *)
AllApplied ==
    (pc # "down" /\ stamped # Objects) ~> (stamped = Objects \/ stamped # current \/ pc = "down")

(* The controller has no work left only if all objects are there with what *)
(* the template says of their labels and specs: no event that the filter   *)
(* drops or the mapping does not map was the last word on an object.       *)
RestsOnlyWhenApplied ==
    pc = "idle" /\ ~queued =>
        \A i \in Objects :
            /\ i \in exists
            /\ \A f \in {Label} \cup SpecFields : Desired(i)[f] \in {None, value[i][f]}

(* "ApplyObject creates the object if is missing": the objects of the      *)
(* template that are missing are created, by the reconcile that their      *)
(* deletion raises or by one of its retries.                               *)
MissingIsCreated ==
    \A i \in Objects : (i \notin exists /\ pc # "down") ~> (i \in exists \/ pc = "down")
=============================================================================
