# TLA+ models of toolchain-common

toolchain-common is the Go library shared by the operators of the toolchain
project (host-operator, member-operator, registration-service). It has no main
program: its packages run inside those operators, in goroutines of
controller-runtime (reconcilers, informers) and in those of the operators' own
code. What can go wrong in it is mostly what happens between two calls of the
Kubernetes API, or between two goroutines that share a package-level cache.

## Inventory

| Component | State | Operations | Interaction | Module |
|---|---|---|---|---|
| Cluster cache (`pkg/cluster`) | map name -> cached cluster, RWMutex, refresh function | add, delete, lookups (by name, host, members), refresh | called by both ToolchainCluster controllers and by any code that needs a remote client | `ClusterCache` |
| Cache controller (`controllers/toolchainclustercache`) | work queue | reconcile: add, update or delete one entry; namespace predicate | events of ToolchainClusters of one namespace | `ClusterCache` |
| Health controller (`controllers/toolchaincluster`) | work queue, RequeueAfter | reconcile: lookup, probe `/healthz`, update the status | its status updates are the events of the cache controller | `ToolchainClusterHealth` |
| Connection status (`pkg/status/toolchaincluster.go`) | none | judge a cached status by its age | reads the cache | `ToolchainClusterHealth` |
| Configuration cache (`pkg/configuration`) | configuration object and Secrets, RWMutex | `UpdateConfig`, `LoadLatest`, `GetConfig`, `GetCachedConfig` | any goroutine, and the configuration controllers of the operators | `ConfigCache` |
| Apply client (`pkg/client/client.go`) | the objects in the API server | `ApplyObject`, `Apply`, `ApplyUnstructuredObjectsWithNewLabels` | other writers of the same objects | `ApplyClient` |
| UserSignup states (`pkg/states`) | `Spec.States` | five setters | controllers, registration service, administrators | `UserSignupStates` |
| Server-side apply client (`pkg/client/ssa_client.go`) | managed fields of the objects | migrate, patch, apply all | other field managers, earlier releases | `ClusterResources`, `ManagedObjects` |
| Resources controller (`controllers/toolchainclusterresources`) | the template objects in memory, work queue | load at start, reconcile: apply all | watches with predicate and label mapping; uses the server-side apply client | `ClusterResources` |
| Status conditions (`pkg/condition`) | slice of conditions | add or update, add, find | every controller | `StatusConditions` |
| Tier generator (`pkg/template/nstemplatetiers`) | templates by tier | load, resolve `based_on_tier`, create | `ensureObject` callback | `TierGenerator` |
| SpaceBinding lister (`pkg/spacebinding`) | none | walk up parent spaces, merge bindings | API reads between which Spaces and bindings change | `SpaceBindings` |
| Owner fetcher (`pkg/owners`), resource cache (`pkg/client`) | discovery result, mutex | walk up owners, look up kinds | API reads; goroutines share the cache | `OwnerFetcher` |
| Version check (`pkg/status/versionchecks.go`) | last call per repository | rate-limited GitHub query | status controllers, which hand the saved condition back in | `VersionCheck` |
| Username transformation (`pkg/usersignup`) | none | pure functions | registration | `Usernames` |

The parts left out for good, with the reason, are in `PROJECT.json`
(`components`).

### What is hard, and the properties that make each part correct

* **Cluster cache.** A lookup that misses gives up the read lock, refreshes the
  cache from the API and locks again; meanwhile the controller adds and deletes,
  and other lookups refresh too. Clients are reused if the configuration did not
  change, checked outside of the lock. Correct means: a cached client belongs to
  the configuration it is stored with; the lock is never held over a refresh and
  never needed twice; when the controller has nothing left to do the cache is
  what the API says; a lookup finds a cluster that was there all the time, even
  if another one is broken; every lookup returns; a usable cluster ends up in the
  cache in spite of failures.
* **Health.** Probe, status update, watch event, cache reconcile and report form
  a loop whose steps are late, fail or conflict. Correct means: `ready` is
  reported only within Period + Timeout of a probe that said so; the loop
  converges to the Secret (which nobody watches) and to the remote cluster's
  state; it ends when the resource is deleted.
* **Configuration cache.** A load consists of two API calls, a set and a get.
  Correct means: configuration and Secrets of one load stay together; what
  `LoadLatest` returns is not older than its call.
* **Apply client.** Get, decision and Update are separate, the Get may be
  answered from an informer that lags, and calls may fail after they took effect.
  Correct means: nothing Kubernetes put into an object is lost (secret
  references, clusterIP), the annotation the decision rests on is true, the
  result says what happened.
* **UserSignup states.** No sequence of setters leads to states that exclude each
  other.
* **Server-side apply, resources controller.** An apply is a Get, an Update of the
  managed fields if an earlier release owns some, and a Patch; it is interrupted
  anywhere, other managers write in between, and the templates change with the
  release. Correct means: it looks like one step to everybody else; fields that
  templates had and have no longer go, fields of others stay; a label or a field
  with a generation that is changed against the template raises a request, however
  events are filtered; all objects get their turn in spite of failures.
* **Status conditions.** Conditions are merged and saved over and over; a flag
  decides on saving. Correct means: the last report shows, and the transition time
  is that of the last change of the status.
* **SpaceBinding lister.** A walk up a hierarchy that changes meanwhile. Correct
  means: the nearest binding wins, nobody has two roles, the walk ends.
* **Owner fetcher, resource cache.** A walk up the owners by goroutines that share
  a cache which one of them fills. Correct means: the answer leads from the top to
  the object, one failed call fails one caller, nobody waits for ever.
* **Version check.** Throttling returns the saved condition as the new one.
  Correct means: requests keep their distance, and the verdict becomes and stays
  right when things settle.
* **Username transformation.** Each of its steps may undo an earlier one. Correct
  means: the result has the length and the form that is asked for, which two of
  the findings below deny.
* **Tier generator.** Two passes over many objects that fail or are cut off
  anywhere, repeated by later releases with other files. Correct means: no tier
  refers to a template that is not there; a successful call leaves what the files
  say; a template never changes under its name, by which everything downstream
  detects changes.

## Modules

`MC*.tla` instantiate a module for TLC (names of resources, symmetry sets); `*Proofs.tla` hold
theorems. Every definition that models code is listed in `PROJECT.json` (`map`)
with its source lines.

### ClusterCache

Composes cache, service, cache controller, lookups and the API server. Each
goroutine (the controller and the users in `Users`) has a program counter; the
steps are the points at which the code takes or releases the `RWMutex` or calls
the API. `AddReturns`, `NewClusterConfig`, `Peek`, `NewClient` and
`AddCachedToolchainCluster` are `addToolchainCluster`, run by the controller for
the resource it fetched and by a refresh for each item it listed. Content of a
ToolchainCluster is its version and the version of its Secret; a kubeconfig may
be unusable. Calls fail up to `MaxFaults` times. Resources of another namespace
with the same name exist, since the cache is keyed by bare names. The check for
an empty operator namespace cannot fail, because clientcmd answers `default` for
a kubeconfig without one. Before a refresh function is registered, the lookups of
hosts and members read the cache a second time (`cache.go:118-121`); `Read` models
one read, since the second is that of a lookup that began later.

### ToolchainClusterHealth

One ToolchainCluster, both controllers, the informer between them, the Secret,
the remote cluster and time. The cache is one entry here and its operations are
single steps, except for a refresh by another goroutine, which reads
(`RefreshStart`) and stores much later (`RefreshStore`). Timestamps are ages in
seconds that saturate one above `MaxDuration` (Period + Timeout), which keeps the
state finite without bounding time. A status update succeeds only if the fetched
version is the current one (`fresh`), and causes an event only if it changes
something: two stamps of the same second are equal, as `metav1.Time` has seconds.
`Probe` takes answer and stamp in one step. The code stamps later in
`updateStatus` (`condition.go:110`), with only local computation in between, so
the bound of `ReadyIsRecent` is short of the real one by the time this takes.
Start-up in the middle of a history is covered by `Init` up to the status, which
is empty.

### ConfigCache

Each goroutine calls one of the four functions at a time; a load reads the
configuration, lists the Secrets, sets and gets. Contents are version numbers, so
that "older" has a meaning. `UpdateConfig` is called by a controller of another
repository that has read both before; these reads are the same steps. Reads are
answered with what is current; an informer that lags would only make loads older
than the findings show. `UndisturbedLoadIsLatest` is then to be read relative to
what the client answers.

### ApplyClient

Goroutines apply ServiceAccounts (existing object kept, labels and annotations
merged), Services (clusterIP retained) and other objects (which have a
generation), while others edit and delete them and Kubernetes adds secrets. A
resource version is represented by the set of goroutines whose copy is current.
A Get is answered by an informer that may lag. `ApplyObject` is called without
options; with `ForceUpdate` it is an `Apply` of one object. Whether an update
counts is decided as in the code, by the copy that was read and the answer
(`GenerationDiffers`); `ReportsGenerations` compares the outcome with what became
of the object in the API server (`counted`), which is the same because an update
of an outdated copy is refused.
The API server's part (conflicts, allocation and immutability of the clusterIP,
generations) is external and modelled from the comments and calls of the client.

### UserSignupStates

The slice of states and the five setters; `RemoveFirst` is the code's `remove`, and
`UnsetBy...` are the states that a setter removes.

### ClusterResources and ManagedObjects

`ManagedObjects` is the abstract specification: objects with fields that the
operator and others share, and `Apply` as one step. `ClusterResources` is the
code: the watches (`Enqueues`), start and end of the process (`Start`, `Stop`),
`Reconcile`, and `ApplyObject` in its three calls `Get`, `Update` and `Patch`, each
of which may fail, the writing ones also after they took effect. The mapping shows
the objects, takes "managed by another" for foreign and the labelled template of
the running release for desired; everything else is internal. The template objects
outlive the reconcile and Patch decodes its answer into them (`held`, `stamped`);
as in `ApplyClient` a version is represented by the copies that are current
(`current`, `fetched`).

The API server's rules are external, modelled from the comments of the client and
its calls: a write with a new value takes the field from its managers, one with
the same value shares it; a forced apply takes the fields it names and drops those
it no longer names, unless others manage them; a write that carries a
resourceVersion or uid is refused if it is not the current one. `SpecFields` are
the fields whose change is a new `metadata.generation`. Objects without one (roles
and their bindings, ServiceAccounts) have only fields outside of `SpecFields`
beside the label: `LabelsAndGenerationPredicate` drops their changes, and
`RestsOnlyWhenApplied` says nothing about them.

### SpaceBindings, OwnerFetcher, StatusConditions, VersionCheck, Usernames

* `SpaceBindings`: `List` and `GetParentSpace` alternate up the hierarchy; each
  Space is judged by the copy that was read. What is found is a sequence of
  bindings for each user: the code appends to one slice, but looks at it user by
  user. The reference definition of the answer (`Nearest`) is stated with sets that
  are closed under the parent relation. Spaces never form a cycle: the code has no
  guard against one, nor is it enforced here.
* `OwnerFetcher`: one record per goroutine; `ensureResourceList` is `LockMutex`,
  `Discover` and the unlock in `Lookup`, which belongs to `GVRForKind` or, without
  an object, `GVKForGR`. Owner references have no cycle. A kind that is installed
  after the list was read is not found, which the properties excuse.
* `StatusConditions`: the functions of `pkg/condition` on the saved slice, with the
  controller that saves only if the flag says so. Times are ages.
* `VersionCheck`: one controller checks its components in turn, as the comment at
  `versionchecks.go:47` describes, so that nothing interleaves with the map
  of last calls; the call to GitHub is a step of its own, in which commits arrive
  and the process may end.
* `Usernames`: `TransformUsername` and `EncodeUserIdentifier` over sequences of
  six classes of characters: small letters, capitals, digits, `-`, `@` and all
  others. `TransformUsername` keeps capitals and makes hyphens of the others
  (`Hyphenated`); `sanitizeDNS1123` makes capitals small (`ToLower`) and drops the
  others, and either is a reason for a checksum. The loops over characters and the replacements are
  recursive functions of the number of characters seen (`Rewritten`). TLC takes
  shorter limits (8 for 20, 6 for 63); the theorems hold for the real ones.

### TierGenerator

The files of the tiers and their history, `GenerateTiers` in its two passes, and
the TierTemplates and NSTemplateTiers in the cluster. A file is the commit that
changed it last ("its latest git revision"), which stands for its content; a
TierTemplate's content is a file with the parameter that overrides its default.
Loading (`loadTemplatesByTiers`, `initTierTemplates`, `initNSTemplateTiers`) has
no effect outside of the process and is part of the step `GenerateTiers`: it
fails for what `LoadFails` says and, by choice, for malformed files. Then each
`ensureObject` is a step. `Edit` changes a file in a commit that is not released
yet. The name of a TierTemplate is a record of its four parts, which the code joins
in small letters with hyphens (`nstemplatetier_generator.go:329-331`): that no two
names are joined to the same string, and that no space role is called like a type
of namespace (`Kinds` and `Roles` are disjoint), is assumed, not checked.

`TemplatesImmutable` is about namespaces and cluster resources only. The check
for a mix of `based_on_tier.yaml` with template files
(`nstemplatetier_generator.go:190-198`) does not look at `spacerole_*` files, so
this sequence changes a template under its name: one commit adds to tier T a
`based_on_tier.yaml` (from S) and a `spacerole_admin.yaml`, and to S a
`spacerole_admin.yaml`; it is released, and T-admin has S's content; a later
commit replaces the `based_on_tier.yaml` by a `tier.yaml`; it is released, and
T-admin, of the same revisions, has T's content.

## Runs

| Run | Instance | Shows |
|---|---|---|
| `cache_one_cluster` | one cluster, a lookup and the controller, two changes, fairness | `TypeOK`, `ClientMatchesConfig`, `LockDiscipline`, `LookupReturns`, `EventuallyCached` |
| `caches` | two clusters, a namesake of one in another namespace, one change, one failing call; or two goroutines that load, two changes of the configuration, one fault | `QuiescentConsistent`, `LookupFindsStable`; `ConfigTypeOK`, `LoadedTogether`, `UndisturbedLoadIsLatest` |
| `cache_deleted` | one cluster and its deletion | **violated**: a deleted cluster can return to the cache |
| `health` | limit of 1 second, two configurations, one change, one fault, fairness | `ReadyIsRecent`, `ConfigConverges`, `StatusConverges`, `MonitoringStops` |
| `config_latest` | two goroutines, one change | **violated**: `LoadLatest` may return an older configuration |
| `apply` | two goroutines, one Service, two addresses, one fault; or a ServiceAccount and another object, applied by one goroutine at a time, other writers | `SecretRefsKept`, `ClusterIPRetained`, `AnnotationTruthful`, `ReportsGenerations` |
| `tier_generation` | two tiers, a namespace, a role, any initial files, two edits, three commits, one fault | `RefsResolve`, `TiersAsDescribed`, `TemplatesImmutable` |
| `cluster_resources` | two objects, three fields, two releases (one without a field of the other), two edits, one fault, fairness | `TypeOK`, `AppliedAsDescribed`, `RestsOnlyWhenApplied`, `ManagedSpec`, `AllApplied` |
| `cluster_resources_missing` | one object, one edit, fairness | **violated**: a deleted object is not created again |
| `library` | see below | the properties of six modules |
| `username_length` | the usernames of `library` | **violated**: a compliant username may exceed the limit |
| `identifier_dns` | the usernames of `library` | **violated**: an identifier may end in a hyphen |

`caches` takes the steps of one cache while the other rests (`MCCaches.part`).
`apply` applies the objects of one scene (`MCApplyClient.scene`); in the scene with
a ServiceAccount no call fails for a reason outside of the model and the spec of
the ServiceAccount, which is never sent, is not edited. In the clusters' part of
`caches` there is one usable content and one change, so that `QuiescentConsistent`
is mostly about what is present and what is not; the theorem has no such bound.

`library` checks the modules that share no state with another in one state space:
a behaviour chooses a part (`MCLibrary.part`) and takes its steps while the
others rest in an initial state.

| Part | Instance | Shows |
|---|---|---|
| `UserSignupStates` | all sequences of calls | `DeactivatedExcludes`, `LastSetterHolds` |
| `Usernames` | 30979 usernames of up to 9 characters, two forbidden prefixes, a suffix | `UsernameCompliant`, `IdentifierCompliant` |
| `StatusConditions` | two types, statuses and reasons, duplicates up to three conditions | `StatusAsReported`, `TransitionTimeOfStatus` |
| `SpaceBindings` | every hierarchy of three Spaces at rest; a chain of three with two changes; one error | `NearestBindingWins`, `OneRolePerUser`, `ListForSpaceEnds` |
| `OwnerFetcher` | two goroutines, three objects, eight hierarchies at rest, one chain that changes; one error | `OwnersFromTheTop`, `OneErrorFailsOneCall`, `GetOwnersReturns` |
| `VersionCheck` | two components of two repositories, two commits, deployments or restarts, one mishap | `RequestsSpaced`, `VersionVerdictsConverge` |

Bounds: `MaxVersion`/`MaxChanges` bound what happens outside of the operator, and
two changes are what a stale reader needs to see an old and a new value;
`MaxFaults` bounds failing calls, and one is enough to reach every error path,
since no code counts failures. Where `MaxFaults` is 0 calls still fail for what
is in the API (an unusable Secret, a conflict). Two goroutines suffice for the
races that exist, each of which is between one reader and one writer; the theorems below need no
such bound. Deadlock is checked unless the configuration says otherwise: where
changes are bounded the system comes to rest legitimately.

### Findings

1. `DeletedIsUncached`: `refreshCache` may store a ToolchainCluster it listed
   before its deletion after the controller removed it from the cache; nothing
   removes it again.
2. `LoadLatestIsLatest`: between `set` and `get` of `LoadLatest` another load may
   store what it read earlier.
3. `MissingIsCreated`: the resources controller hands its template objects to
   `Patch`, which decodes the answer into them. When an object is deleted or
   written by others afterwards, each patch of it is refused for its uid or
   resourceVersion, until the process restarts.

4. `UsernameWithinLimit`: a forbidden prefix in a name of 20 characters is replaced
   by four characters for three, and the name has 21 (`usersignup.go:57`), where
   the comment limits it to 20. `UsernamesNearLimit` proves that it is never more.
5. `IdentifierIsDNS1123`: an identifier ends in a hyphen if it is cut behind one
   (`usersignup.go:98`) or if nothing but the checksum is left
   (`usersignup.go:94`), and is then no DNS-1123 label. `IdentifierCompliant` is
   what does hold.

`AllApplied` excuses the objects of finding 3. That walks up Spaces and owners end
(`ListForSpaceEnds`, `GetOwnersReturns`) is shown for hierarchies without cycles; a
cycle, against which the code has no guard, is assumed away.

Modelling met three more places where a comment promises more than the code
does. They are single-call matters, for a unit test rather than a model: a
`LoadLatest` that finds no object logs that defaults will be used but leaves the
cache as it is (`cache.go:57`); `Apply` does not report a change of labels or
annotations, which increments no generation (`client.go:171`); and
`SetApprovedManually` does not remove `rejected` (`state_manager.go:10`).

### Fairness

Only the liveness runs use it. Goroutines are scheduled by the Go runtime, hence
weak fairness of each one's steps. `RWMutex` blocks new readers once a writer
waits and lets waiting readers in after a writer, so that nobody starves: strong
fairness of the locking steps. The work queue of controller-runtime is FIFO and
returns failed items: strong fairness of the controller's start for each
resource. Watches deliver, timers fire and time passes: weak fairness. In
`ClusterResources` the one worker takes a request when there is one and goes on
with it, and failed requests return to the queue: weak fairness of `Works`. In the
library each goroutine that has called goes on (`ListForSpace`, `Fetches`), one
that waits for the mutex included: weak fairness suffices, because the mutex is
held a bounded number of times; the status controller is requeued periodically
(`Checks`). Changes
and failures are never fair, and calls need not be made.

## Proofs

* `ClusterCacheProofs`, for any sets of resources, names and goroutines:
  `TypeCorrect`, `ClientsAreSound` (`ClientMatchesConfig`), `LockIsHeldBriefly`
  (`LockDiscipline`), `CacheSettles` (`QuiescentConsistent`) and
  `LookupsAreComplete` (`LookupFindsStable`). The inductive invariant adds to
  these what each goroutine holds at each point (`LocalsOK`): the client that is
  about to be stored was created with the configuration beside it; what the
  controller is about to store is the current content unless an event is queued
  (`Settled`); and how far a lookup has come through the clusters it must find
  (`Lookups`). `QuiescentConsistent` alone says nothing while a reconcile runs,
  and `LookupFindsStable` nothing before a lookup answers; hence the
  strengthening.
* `ToolchainClusterHealthProofs`: `ReadyReportsAreRecent` (`ReadyIsRecent`) for
  any limit and bounds. The invariant says of each of the five places a status
  passes through that it is not younger than the last success (`NeverYounger`).
* `ConfigCacheProofs`: `TypeCorrect` (`ConfigTypeOK`), `LoadsAreAtomic`
  (`LoadedTogether`) and `LoneLoadsAreLatest` (`UndisturbedLoadIsLatest`) for any number of goroutines.
  The invariant adds that a load that is alone finds in the cache what it set,
  because no other load is under way.

* `ApplyClientProofs`: `SecretsSurvive`, `AddressesSurvive`,
  `AnnotationsAreTrue` and `ResultsAreRight` for any objects, contents and
  goroutines. The invariant adds that a goroutine whose copy is current has what
  is in the API server (`Copies`, which rests on the informer being right about
  what it has caught up with), and that the result is right after every object,
  not only at the end. `Copies` is also why the comparison with the copy
  (`GenerationDiffers`) finds what became of the object.

* `TierGeneratorProofs`: `NoDanglingRefs`, `TiersFollowFiles` and
  `NamesDetermineContents` for any tiers, files, commits and releases. The last
  one needs a fact about the history of the repository (`Stored`): while a
  template made of the tier's own file is in the cluster, a `based_on_tier.yaml`
  of the tier can only be newer than it, and conversely. Otherwise the two kinds
  of names, own revision twice or `based_on_tier.yaml` and file, could meet.

* `ClusterResourcesProofs`, for any templates, fields, releases and number of
  objects: `TypeCorrect`, `AppliedCorrect` (`AppliedAsDescribed`), `RestsCorrect`
  (`RestsOnlyWhenApplied`) and `Refinement` (`ManagedSpec`). The invariant says
  what the calls of `ApplyObject` rely on: when the patch is due no field of the
  object is managed by an earlier release (`MigratedBeforePatch`), because such a
  release does not write while the operator runs and any other write either keeps
  this or outdates the copy; a template object is what was loaded, labelled, until
  an answer replaces it (`HeldFresh`); a copy that is current equals the object,
  which is as described (`HeldCurrent`), so that applying it again changes nothing;
  and as long as no request is queued all objects the reconcile has passed are good
  (`GoodSoFar`), since what would make one bad raises a request.
  `AppliedAsDescribed` alone is not inductive: it says nothing about the object
  between migration and patch. In the refinement `Patch` is `Apply` for an object
  that was not applied by this process, a stutter-like `Apply` for a current one,
  and all other steps of the operator change nothing that shows.

* `SliceProofs`, slices and strings:
  * `DeactivatedIsExclusive` (`DeactivatedExcludes`) and `LastSetterIsObeyed`
    (`LastSetterHolds`) for any sequence of calls. The invariant adds that no state
    is in the slice twice: `remove` drops the first occurrence only.
  * `StatusIsAsReported` (`StatusAsReported`) and `TransitionTimeIsOfStatus`
    (`TransitionTimeOfStatus`) for any types, statuses, reasons, ages and number of
    conditions, duplicates included. The invariant says of each type that the first
    condition of it, the one that is found, answers its last report; conditions of
    the same type behind it do not matter.
  * `UsernamesComply` (`UsernameCompliant`) and `IdentifiersComply`
    (`IdentifierCompliant`) for usernames of any length, and `UsernamesNearLimit`:
    a compliant username exceeds the limit by one character at most, and only
    where a forbidden prefix was replaced. The argument goes along
    the steps of `TransformUsername`: whatever comes before, the hyphens at the ends
    are bounded (`BoundHyphensForm`); cutting keeps the first character and trims
    the end (`CutForm`); a forbidden word without a hyphen cannot reach over the one
    of `crt-` or `-crt` (`PrefixEndsBefore`, `CrtInFront`, `CrtBehind`). What has no
    unwanted character and no hyphen at its ends is encoded to itself
    (`SanitizedForm`).
* `LookupProofs`, the parts that ask a server step by step:
  * `RequestsAreSpaced` (`RequestsSpaced`), for any components and repositories: the
    map of last calls has the age of the last request, failed ones included.
  * `OneRoleEach` (`OneRolePerUser`) and `NearestBindingIsReturned`
    (`NearestBindingWins`), for any hierarchy. The invariant says for an undisturbed
    walk that the Spaces below the current one, which are the asked one and all on
    the way (`OnTheWay`), have no binding for a user who was not found, and that
    what was found is the nearest. The first theorem also holds for a disturbed
    walk: a user who was found is not added again.
  * `OwnersAreFromTheTop` (`OwnersFromTheTop`) and `ErrorsFailOneCallEach`
    (`OneErrorFailsOneCall`), for any graph of references and any goroutines. The
    invariant (`OwnerInv`) says of an undisturbed call that its owners are a chain
    of main owners up to one whose references it has read (`OnItsWay`), so that an
    owner it fails on is above its object (`FollowedIsAbove`); and that the list
    has all kinds served from the beginning whenever it is looked at (`ListFilled`),
    so that a lookup fails for a reason of the object only. The number of calls that
    failed otherwise is counted by the errors.

Three things made these provable. Reachability (owners above, inherited Spaces, no
cycles) is stated with closed sets, so that a member is shown by taking any closed
set, with no induction over paths. The first match in a slice is the least index,
which exists because `<` is well-founded (`MinOfIndices`). And from the least index
follows an induction whose predicate is a set (`UpTo`), with which the recursive
functions of `Usernames` are shown to exist and to return sequences.

The assumptions are those on the constants: `None` and the like are no other value,
bounds are natural numbers, kinds are disjoint, goroutines are finitely many. Two are
about what the code is given rather than about the model: forbidden words have no
hyphen and are neither a prefix or suffix of `crt` (otherwise what `TransformUsername`
adds is forbidden again, which it does not check), and the limit of a username leaves
room for three characters beside the four that are added. TLC evaluates all of them
in the runs.

Only model-checked: the liveness properties (`LookupReturns`, `EventuallyCached`,
`ConfigConverges`, `StatusConverges`, `MonitoringStops`, `AllApplied`,
`ListForSpaceEnds`, `GetOwnersReturns`, `VersionVerdictsConverge`), since fairness and
ENABLED are outside of what the prover handles. Every invariant, action property and
refinement that a passing run checks is stated by a theorem.

## Plan

1. An abstract cache (a map from which lookups answer and that is replaced entry by
   entry) that `ClusterCache` implements, and its refinement proof.
2. What the liveness properties rest on and the prover can reach: that a step of
   `OwnerFetcher` is always possible while somebody holds the mutex, and that each
   walk comes nearer to its end.

## Not modelled

Options of the server-side apply client that nothing in this repository uses
(`SetOwnerReference`, `SkipIf`, `MigrateSSA(false)`), and the predicate and the
mapping that only other repositories use. Notifications and banned users build one
object and make one call; the deployment status reads one object. Getters with defaults, hashing, naming and formatting helpers, template file
reading, REST and GitHub client construction, and the test helpers of `pkg/test`
have no state and no order of steps that a model could examine. Logging and the
wording of messages are left out everywhere. The start-up loading of environment
variables (`LoadFromSecret`, `LoadFromConfigMap`) happens once before anything
runs concurrently.
