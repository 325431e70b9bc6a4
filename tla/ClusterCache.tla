---------------------------- MODULE ClusterCache ----------------------------
(***************************************************************************)
(* The cache of ToolchainCluster clients: pkg/cluster/cache.go (the map    *)
(* and its RWMutex), pkg/cluster/service.go (adding, deleting, refreshing) *)
(* and the toolchainclustercache controller that feeds it.                 *)
(*                                                                         *)
(* Processes: Worker is the one worker goroutine of the cache controller   *)
(* (MaxConcurrentReconciles is left at 1); Users are the goroutines of the *)
(* embedding operator that call GetCachedToolchainCluster, GetHostCluster  *)
(* or GetMemberClusters.  A lookup that misses calls refreshCache, so the  *)
(* users add entries too, concurrently with the worker.                    *)
(*                                                                         *)
(* A ToolchainCluster resource is identified by a key (namespace and name);*)
(* the cache is indexed by the bare name.  The content of a resource is a  *)
(* member of Objects; the Secret it refers to is a member of Kubeconfigs,  *)
(* or None when no client configuration can be obtained from it (no secret *)
(* name, no such Secret, a kubeconfig that does not load).                 *)
(***************************************************************************)
EXTENDS Naturals, FiniteSets

CONSTANTS
    Keys,               \* ToolchainCluster resources (namespace and name)
    Own,                \* those in the namespace of the operator
    Names,              \* resource names, the index of the cache
    NameOf,             \* the name of each key
    Objects,            \* contents a ToolchainCluster may have
    ReadyObjects,       \* those with a Ready condition that is True
    RestConfigs,        \* REST configurations a kubeconfig may hold
    OperatorNamespaces, \* operator namespaces a kubeconfig may name
    Users,              \* goroutines calling the lookup functions
    Worker,             \* the worker of the cache controller
    None,               \* nil, not found, no value
    MaxChanges,         \* bound on the changes made to resources and Secrets
    MaxFaults           \* bound on the calls that fail for no lasting reason

Procs == Users \cup {Worker}
Kubeconfigs == [rest : RestConfigs, ns : OperatorNamespaces]

(* CachedToolchainCluster: its Config, its Client (known by the RestConfig *)
(* it was created with) and its ClusterStatus.                             *)
Entry == [rest : RestConfigs, ns : OperatorNamespaces,
          client : RestConfigs, object : Objects]

ASSUME KeysAssumption ==
    /\ Own \subseteq Keys
    /\ NameOf \in [Keys -> Names]
    /\ \A j, k \in Own : NameOf[j] = NameOf[k] => j = k

ASSUME NoneAssumption ==
    /\ ReadyObjects \subseteq Objects
    /\ None \notin Keys \cup Names \cup Objects \cup RestConfigs
    /\ None \notin Kubeconfigs \cup Entry \cup Procs

ASSUME ProcsAssumption == Worker \notin Users

ASSUME BoundsAssumption == MaxChanges \in Nat /\ MaxFaults \in Nat

VARIABLES
    store,      \* the informer's copy of the ToolchainClusters
    secret,     \* what the Secret of each ToolchainCluster yields
    queue,      \* work queue of the cache controller
    registered, \* refreshCache has been assigned by NewToolchainClusterService
    clusters,   \* toolchainClusterClients.clusters
    readers,    \* processes holding the read lock
    writer,     \* process that holds, or has announced itself for, the write lock
    pc,         \* where each process is
    call,       \* the lookup each user is executing
    snap,       \* listed or fetched objects a process still has to add
    cur,        \* the object a process is adding or deleting
    cfg,        \* the configuration NewClusterConfig returned
    cl,         \* the client to be stored with it
    result,     \* names of the clusters a lookup returned
    changes,    \* changes made so far
    faults,     \* transient failures so far
    stable,     \* history: names a user's lookup cannot excuse missing
    raced       \* history: names whose event overlapped a stale refresh

envVars  == <<store, secret>>
lockVars == <<readers, writer>>
addVars  == <<snap, cur, cfg, cl>>
callVars == <<call, result>>
boundVars == <<changes, faults>>
histVars == <<stable, raced>>
vars == <<envVars, queue, registered, clusters, lockVars, pc, addVars,
          callVars, boundVars, histVars>>

(* The calls of the lookup functions.                                      *)
Calls == [kind : {"name"}, name : Names]
            \cup [kind : {"host", "members", "readyMembers"}, name : {None}]

ReadPcs  == {"read", "readAgain", "peeking"}
WritePcs == {"adding", "deleting"}
AddPcs   == {"config", "peek", "peeking", "newClient", "addLock", "adding"}
UserPcs  == {"idle", "readLock", "read", "list", "next", "readLockAgain",
             "readAgain", "done"} \cup AddPcs
WorkerPcs == {"idle", "get", "deleteLock", "deleting"} \cup AddPcs

TypeOK ==
    /\ store \in [Keys -> Objects \cup {None}]
    /\ secret \in [Keys -> Kubeconfigs \cup {None}]
    /\ queue \subseteq Keys
    /\ registered \in BOOLEAN
    /\ clusters \in [Names -> Entry \cup {None}]
    /\ readers \subseteq Procs
    /\ writer \in Procs \cup {None}
    /\ pc \in [Procs -> UserPcs \cup WorkerPcs]
    /\ call \in [Users -> Calls \cup {None}]
    /\ snap \in [Procs -> [Keys -> Objects \cup {None}]]
    /\ cur \in [Procs -> Keys \cup {None}]
    /\ cfg \in [Procs -> Kubeconfigs \cup {None}]
    /\ cl \in [Procs -> RestConfigs \cup {None}]
    /\ result \in [Users -> SUBSET Names]
    /\ changes \in 0..MaxChanges
    /\ faults \in 0..MaxFaults
    /\ stable \in [Users -> SUBSET Names]
    /\ raced \subseteq Names

NoObjects == [k \in Keys |-> None]

(* The ToolchainClusters that exist when the operator starts are reported  *)
(* to the controller as created.                                           *)
Init ==
    /\ store \in [Keys -> Objects \cup {None}]
    /\ secret \in [Keys -> Kubeconfigs \cup {None}]
    /\ queue = {k \in Own : store[k] # None}
    /\ registered = FALSE
    /\ clusters = [n \in Names |-> None]
    /\ readers = {}
    /\ writer = None
    /\ pc = [p \in Procs |-> "idle"]
    /\ call = [u \in Users |-> None]
    /\ snap = [p \in Procs |-> NoObjects]
    /\ cur = [p \in Procs |-> None]
    /\ cfg = [p \in Procs |-> None]
    /\ cl = [p \in Procs |-> None]
    /\ result = [u \in Users |-> {}]
    /\ changes = 0
    /\ faults = 0
    /\ stable = [u \in Users |-> {}]
    /\ raced = {}

Goto(p, label) == pc' = [pc EXCEPT ![p] = label]

(***************************************************************************)
(* The Kubernetes API, as the informers of the operator show it.           *)
(***************************************************************************)

(* Events of other namespaces do not reach the controller.                 *)
NamespacePredicateDropped(k) == TRUE
NamespacePredicate(k) == k \in Own

(* Users whose lookup could not be expected to find the cluster k any more. *)
Unsettle(k) == stable' = [u \in Users |-> stable[u] \ {NameOf[k]}]

(* A ToolchainCluster is created, updated (o is its new content) or        *)
(* deleted (o is None), and the event is queued for the cache controller.  *)
ToolchainClusterEvent(k, o) ==
    /\ changes < MaxChanges
    /\ o # store[k]
    /\ store' = [store EXCEPT ![k] = o]
    /\ queue' = IF NamespacePredicate(k) THEN queue \cup {k} ELSE queue
    /\ changes' = changes + 1
    /\ IF o = None /\ k \in Own THEN Unsettle(k) ELSE UNCHANGED stable
    /\ UNCHANGED <<secret, registered, clusters, lockVars, pc, addVars,
                   callVars, faults, raced>>

(* The Secret behind a ToolchainCluster changes.  No controller watches    *)
(* Secrets, so nothing is queued.                                          *)
SecretChange(k, s) ==
    /\ changes < MaxChanges
    /\ s # secret[k]
    /\ secret' = [secret EXCEPT ![k] = s]
    /\ changes' = changes + 1
    /\ IF s = None /\ k \in Own THEN Unsettle(k) ELSE UNCHANGED stable
    /\ UNCHANGED <<store, queue, registered, clusters, lockVars, pc, addVars,
                   callVars, faults, raced>>

Fault == faults < MaxFaults /\ faults' = faults + 1

(* NewToolchainClusterService: refreshCache becomes available.             *)
NewToolchainClusterService ==
    /\ ~registered
    /\ registered' = TRUE
    /\ UNCHANGED <<envVars, queue, clusters, lockVars, pc, addVars, callVars,
                   boundVars, histVars>>

(***************************************************************************)
(* addToolchainCluster, run by the worker for one object and by a user for *)
(* every object its refresh listed.  cur[p] is the key of the object.      *)
(***************************************************************************)

(* refreshCache logs an error and goes on with the next object.            *)
ItemsLeftStopOnError(p, err) ==
    IF err THEN NoObjects ELSE [snap[p] EXCEPT ![cur[p]] = None]
ItemsLeftRetryOnError(p, err) ==
    IF err THEN snap[p] ELSE [snap[p] EXCEPT ![cur[p]] = None]
ItemsLeft(p, err) == [snap[p] EXCEPT ![cur[p]] = None]

(* Reconcile returns the error, and the controller queues the key again.   *)
RequeueForgotten(p, err) == queue
Requeue(p, err) ==
    IF p = Worker /\ err THEN queue \cup {cur[p]} ELSE queue

AddReturns(p, err) ==
    /\ Goto(p, IF p = Worker THEN "idle" ELSE "next")
    /\ queue' = Requeue(p, err)
    /\ snap' = [snap EXCEPT ![p] = ItemsLeft(p, err)]
    /\ cur' = [cur EXCEPT ![p] = None]
    /\ cfg' = [cfg EXCEPT ![p] = None]
    /\ cl' = [cl EXCEPT ![p] = None]

(* A failure of p's own calls excuses its lookup from finding the cluster. *)
Excuse(p) ==
    stable' = [u \in Users |-> IF u = p THEN stable[u] \ {NameOf[cur[p]]}
                                        ELSE stable[u]]

(* NewClusterConfig reads the Secret and loads the kubeconfig.             *)
NewClusterConfig(p) ==
    /\ pc[p] = "config"
    /\ \/ /\ secret[cur[p]] # None
          /\ cfg' = [cfg EXCEPT ![p] = secret[cur[p]]]
          /\ Goto(p, "peek")
          /\ UNCHANGED <<queue, snap, cur, cl, faults, stable>>
       \/ /\ secret[cur[p]] = None
          /\ AddReturns(p, TRUE)
          /\ UNCHANGED <<faults, stable>>
       \/ /\ Fault
          /\ AddReturns(p, TRUE)
          /\ Excuse(p)
    /\ UNCHANGED <<envVars, registered, clusters, lockVars, callVars, changes,
                   raced>>

(* getCachedToolchainCluster(name, false): RLock ...                       *)
PeekLock(p) ==
    /\ pc[p] = "peek"
    /\ writer = None
    /\ readers' = readers \cup {p}
    /\ Goto(p, "peeking")
    /\ UNCHANGED <<envVars, queue, registered, clusters, writer, addVars,
                   callVars, boundVars, histVars>>

(* The cached client may be used again only for the same RestConfig.       *)
CanReuseAnyConfig(p, entry) == entry # None
CanReuse(p, entry) ==
    entry # None /\ entry.client # None /\ entry.rest = cfg[p].rest

(* ... the lookup, RUnlock, and the choice between the cached client and a *)
(* new one.                                                                *)
Peek(p) ==
    LET entry == clusters[NameOf[cur[p]]] IN
    /\ pc[p] = "peeking"
    /\ readers' = readers \ {p}
    /\ \/ /\ CanReuse(p, entry)
          /\ cl' = [cl EXCEPT ![p] = entry.client]
          /\ Goto(p, "addLock")
       \/ /\ ~CanReuse(p, entry)
          /\ Goto(p, "newClient")
          /\ UNCHANGED cl
    /\ UNCHANGED <<envVars, queue, registered, clusters, writer, snap, cur,
                   cfg, callVars, boundVars, histVars>>

(* client.New or the injected newClient.                                   *)
CreatedClientIgnoringError(p) == None
CreatedClient(p) == cfg[p].rest

NewClient(p) ==
    /\ pc[p] = "newClient"
    /\ \/ /\ cl' = [cl EXCEPT ![p] = CreatedClient(p)]
          /\ Goto(p, "addLock")
          /\ UNCHANGED <<queue, snap, cur, cfg, faults, stable>>
       \/ /\ Fault
          /\ AddReturns(p, TRUE)
          /\ Excuse(p)
    /\ UNCHANGED <<envVars, registered, clusters, lockVars, callVars, changes,
                   raced>>

(* sync.RWMutex.Lock: a writer announces itself, from when on no reader    *)
(* enters, and proceeds once the readers that are inside have left.        *)
WriteLock(p) ==
    /\ pc[p] \in {"addLock", "deleteLock"}
    /\ writer = None
    /\ writer' = p
    /\ Goto(p, IF pc[p] = "addLock" THEN "adding" ELSE "deleting")
    /\ UNCHANGED <<envVars, queue, registered, clusters, readers, addVars,
                   callVars, boundVars, histVars>>

(* Some refresh still has to store an outdated copy of the object k.       *)
StaleRefresh(k) == \E u \in Users : snap[u][k] \notin {None, store[k]}

Processed(p, k) ==
    raced' = IF p # Worker THEN raced
             ELSE IF StaleRefresh(k) THEN raced \cup {NameOf[k]}
             ELSE raced \ {NameOf[k]}

(* addCachedToolchainCluster, Unlock and the return of addToolchainCluster. *)
(* (The check for an empty OperatorNamespace before it never fires: for a  *)
(* kubeconfig without a namespace clientcmd answers "default".)            *)
AddCachedToolchainCluster(p) ==
    LET k == cur[p] IN
    /\ pc[p] = "adding"
    /\ readers = {}
    /\ clusters' = [clusters EXCEPT ![NameOf[k]] =
                        [rest |-> cfg[p].rest, ns |-> cfg[p].ns,
                         client |-> cl[p], object |-> snap[p][k]]]
    /\ writer' = None
    /\ AddReturns(p, FALSE)
    /\ Processed(p, k)
    /\ UNCHANGED <<envVars, registered, readers, callVars, boundVars, stable>>

(***************************************************************************)
(* Reconcile of the toolchainclustercache controller.                      *)
(***************************************************************************)

(* The worker takes a request from the queue.                              *)
ReconcileStart(k) ==
    /\ registered
    /\ pc[Worker] = "idle"
    /\ k \in queue
    /\ queue' = queue \ {k}
    /\ cur' = [cur EXCEPT ![Worker] = k]
    /\ Goto(Worker, "get")
    /\ UNCHANGED <<envVars, registered, clusters, lockVars, snap, cfg, cl,
                   callVars, boundVars, histVars>>

(* client.Get: the object is there, or it is gone, or the call fails.      *)
ReconcileGet ==
    LET k == cur[Worker] IN
    /\ pc[Worker] = "get"
    /\ \/ /\ store[k] # None
          /\ snap' = [snap EXCEPT ![Worker][k] = store[k]]
          /\ Goto(Worker, "config")
          /\ UNCHANGED <<queue, cur, cfg, cl, faults>>
       \/ /\ store[k] = None
          /\ Goto(Worker, "deleteLock")
          /\ UNCHANGED <<queue, addVars, faults>>
       \/ /\ Fault
          /\ AddReturns(Worker, TRUE)
    /\ UNCHANGED <<envVars, registered, clusters, lockVars, callVars, changes,
                   histVars>>

(* DeleteToolchainCluster(request.Name).                                   *)
DeleteCachedToolchainCluster ==
    LET k == cur[Worker] IN
    /\ pc[Worker] = "deleting"
    /\ readers = {}
    /\ clusters' = [clusters EXCEPT ![NameOf[k]] = None]
    /\ writer' = None
    /\ AddReturns(Worker, FALSE)
    /\ Processed(Worker, k)
    /\ UNCHANGED <<envVars, registered, readers, callVars, boundVars, stable>>

(***************************************************************************)
(* The lookups: GetCachedToolchainCluster(name), GetHostCluster() and      *)
(* GetMemberClusters(conditions), the last with no condition ("members")   *)
(* or with Ready ("readyMembers").                                         *)
(***************************************************************************)

(* Names that a lookup starting now must be able to find: the resource and *)
(* a usable Secret exist, and no deletion of the entry is under way.       *)
Findable ==
    {NameOf[k] : k \in {j \in Own :
        /\ registered
        /\ store[j] # None /\ secret[j] # None
        /\ ~(pc[Worker] \in {"deleteLock", "deleting"} /\ cur[Worker] = j)}}

Call(u, f) ==
    /\ pc[u] = "idle"
    /\ call' = [call EXCEPT ![u] = f]
    /\ stable' = [stable EXCEPT ![u] = Findable]
    /\ Goto(u, "readLock")
    /\ UNCHANGED <<envVars, queue, registered, clusters, lockVars, addVars,
                   result, boundVars, raced>>

ReadLock(u) ==
    /\ pc[u] \in {"readLock", "readLockAgain"}
    /\ writer = None
    /\ readers' = readers \cup {u}
    /\ Goto(u, IF pc[u] = "readLock" THEN "read" ELSE "readAgain")
    /\ UNCHANGED <<envVars, queue, registered, clusters, writer, addVars,
                   callVars, boundVars, histVars>>

(* The map lookup, or Filter with the conditions of the call.              *)
Selected(f) ==
    {n \in Names : /\ clusters[n] # None
                   /\ f.kind = "name" => n = f.name
                   /\ f.kind = "readyMembers" =>
                            clusters[n].object \in ReadyObjects}

(* GetHostCluster returns the first element of a slice filled from a map   *)
(* in no particular order.                                                 *)
Answers(f) ==
    IF f.kind = "host" /\ Selected(f) # {}
    THEN {{n} : n \in Selected(f)}
    ELSE {Selected(f)}

(* The read lock is given up before the cache is refreshed.                *)
ReadersWhileRefreshingLocked(u) == readers
ReadersWhileRefreshing(u) == readers \ {u}

(* The first attempt, RUnlock included.  Only an empty answer leads to a   *)
(* refresh, and only if there is a refreshCache; without one the lookups   *)
(* of hosts and members read a second time, which is a lookup that began   *)
(* later.                                                                  *)
Read(u) ==
    /\ pc[u] = "read"
    /\ \/ /\ Selected(call[u]) # {} \/ ~registered
          /\ readers' = readers \ {u}
          /\ \E a \in Answers(call[u]) : result' = [result EXCEPT ![u] = a]
          /\ Goto(u, "done")
       \/ /\ Selected(call[u]) = {} /\ registered
          /\ readers' = ReadersWhileRefreshing(u)
          /\ Goto(u, "list")
          /\ UNCHANGED result
    /\ UNCHANGED <<envVars, queue, registered, clusters, writer, addVars, call,
                   boundVars, histVars>>

(* refreshCache lists the resources of the namespace.  An error is logged, *)
(* and the loop then runs over the empty list.                             *)
List(u) ==
    /\ pc[u] = "list"
    /\ \/ /\ snap' = [snap EXCEPT ![u] =
                            [k \in Keys |-> IF k \in Own THEN store[k] ELSE None]]
          /\ UNCHANGED <<faults, stable>>
       \/ /\ Fault
          /\ stable' = [stable EXCEPT ![u] = {}]
          /\ UNCHANGED snap
    /\ Goto(u, "next")
    /\ UNCHANGED <<envVars, queue, registered, clusters, lockVars, cur, cfg, cl,
                   callVars, changes, raced>>

(* The loop of refreshCache: one more object, or its end.                  *)
NextItem(u) ==
    /\ pc[u] = "next"
    /\ \/ \E k \in Keys :
            /\ snap[u][k] # None
            /\ cur' = [cur EXCEPT ![u] = k]
            /\ Goto(u, "config")
       \/ /\ snap[u] = NoObjects
          /\ Goto(u, "readLockAgain")
          /\ UNCHANGED cur
    /\ UNCHANGED <<envVars, queue, registered, clusters, lockVars, snap, cfg, cl,
                   callVars, boundVars, histVars>>

(* The second attempt; what it finds is returned, be it nothing.           *)
ReadAgain(u) ==
    /\ pc[u] = "readAgain"
    /\ readers' = readers \ {u}
    /\ \E a \in Answers(call[u]) : result' = [result EXCEPT ![u] = a]
    /\ Goto(u, "done")
    /\ UNCHANGED <<envVars, queue, registered, clusters, writer, addVars, call,
                   boundVars, histVars>>

(* The caller has used the answer.                                         *)
Return(u) ==
    /\ pc[u] = "done"
    /\ call' = [call EXCEPT ![u] = None]
    /\ result' = [result EXCEPT ![u] = {}]
    /\ stable' = [stable EXCEPT ![u] = {}]
    /\ Goto(u, "idle")
    /\ UNCHANGED <<envVars, queue, registered, clusters, lockVars, addVars,
                   boundVars, raced>>

(***************************************************************************)
(* The specification.                                                      *)
(***************************************************************************)
AddStep(p) ==
    \/ NewClusterConfig(p)
    \/ PeekLock(p)
    \/ Peek(p)
    \/ NewClient(p)
    \/ WriteLock(p)
    \/ AddCachedToolchainCluster(p)

LookupStep(u) ==
    \/ ReadLock(u)
    \/ Read(u)
    \/ List(u)
    \/ NextItem(u)
    \/ ReadAgain(u)
    \/ Return(u)

Environment ==
    \E k \in Keys :
        \/ \E o \in Objects \cup {None} : ToolchainClusterEvent(k, o)
        \/ \E s \in Kubeconfigs \cup {None} : SecretChange(k, s)

Next ==
    \/ Environment
    \/ NewToolchainClusterService
    \/ \E p \in Procs : AddStep(p)
    \/ \E u \in Users : LookupStep(u) \/ \E f \in Calls : Call(u, f)
    \/ \E k \in Keys : ReconcileStart(k)
    \/ ReconcileGet
    \/ DeleteCachedToolchainCluster

Spec == Init /\ [][Next]_vars

(* Every goroutine keeps running; sync.RWMutex starves neither readers     *)
(* (those waiting enter when a writer leaves) nor writers (readers that    *)
(* come after a writer wait); the work queue is served in order, so no key *)
(* waits forever behind another that is retried.                           *)
Fairness ==
    /\ WF_vars(NewToolchainClusterService)
    /\ WF_vars(ReconcileGet)
    /\ WF_vars(DeleteCachedToolchainCluster)
    /\ \A k \in Keys : SF_vars(ReconcileStart(k))
    /\ \A p \in Procs : WF_vars(AddStep(p)) /\ SF_vars(PeekLock(p)) /\ SF_vars(WriteLock(p))
    /\ \A u \in Users : WF_vars(LookupStep(u)) /\ SF_vars(ReadLock(u))

FairSpec == Spec /\ Fairness

(***************************************************************************)
(* Safety.                                                                 *)
(***************************************************************************)

(* A cached cluster never pairs a client with the RestConfig of another    *)
(* client, although addToolchainCluster reads the cache, decides whether   *)
(* to reuse the client, and writes the cache in separate critical sections.*)
ClientMatchesConfig ==
    \A n \in Names : clusters[n] # None => clusters[n].client = clusters[n].rest

(* getCachedToolchainCluster gives the read lock up around refreshCache    *)
(* and takes it again: no goroutine ever holds a lock of the cache while   *)
(* it calls the API, creates a client or waits for the lock, and the lock  *)
(* never has readers once the writer is at work.                           *)
LockDiscipline ==
    /\ \A p \in Procs : p \in readers <=> pc[p] \in ReadPcs
    /\ \A p \in Procs : p = writer <=> pc[p] \in WritePcs

WorkingOn(k) == pc[Worker] # "idle" /\ cur[Worker] = k

(* Once the controller has no request of a resource of the operator's      *)
(* namespace left, and no outdated refresh overlapped its last reconcile,  *)
(* the entry is that resource's latest content, or absent if the resource  *)
(* is: events of a namesake in another namespace do not disturb it.        *)
QuiescentConsistent ==
    \A k \in Own :
        LET entry == clusters[NameOf[k]] IN
        (k \notin queue /\ ~WorkingOn(k) /\ NameOf[k] \notin raced) =>
            IF store[k] = None
            THEN entry = None
            ELSE entry # None /\ entry.object = store[k]

(* A lookup by name finds a cluster that had its resource and a usable     *)
(* Secret from the call on, also if the controller has not come to it yet, *)
(* another cluster cannot be added, or another goroutine is refreshing     *)
(* too; GetHostCluster and GetMemberClusters() find at least one.          *)
LookupFindsStable ==
    \A u \in Users :
        pc[u] = "done" =>
            /\ call[u].kind = "name" /\ call[u].name \in stable[u] =>
                   call[u].name \in result[u]
            /\ call[u].kind \in {"host", "members"} /\ stable[u] # {} =>
                   result[u] # {}

(***************************************************************************)
(* Liveness.                                                               *)
(***************************************************************************)

(* Every lookup returns, whatever fails during its refresh: it neither     *)
(* waits for the cache lock forever nor retries an object it cannot add.   *)
LookupReturns == \A u \in Users : pc[u] = "readLock" ~> pc[u] = "done"

(* A cluster whose resource and Secret stay usable is in the cache in the  *)
(* end: failed reconciles are requeued until one succeeds.                 *)
EventuallyCached ==
    \A k \in Own :
        <>[](store[k] # None /\ secret[k] # None) => <>[](clusters[NameOf[k]] # None)

(***************************************************************************)
(* What the tests expect of a deletion.                                    *)
(***************************************************************************)
AllIdle == queue = {} /\ \A p \in Procs : pc[p] = "idle"

(* With nothing left to reconcile and no lookup under way, a cluster whose *)
(* ToolchainCluster was deleted is not in the cache.                       *)
DeletedIsUncached ==
    AllIdle => \A k \in Own : store[k] = None => clusters[NameOf[k]] = None
=============================================================================
