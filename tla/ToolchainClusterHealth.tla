----------------------- MODULE ToolchainClusterHealth -----------------------
(***************************************************************************)
(* The health of one ToolchainCluster: the health controller (package      *)
(* controllers/toolchaincluster) probes the cluster with the cached        *)
(* configuration and writes the status of the resource; the status update  *)
(* is an event for the cache controller, which copies the status and reads *)
(* the Secret again; GetToolchainClusterConditions (pkg/status) judges the *)
(* connection by the cached status.  The three form a loop through the     *)
(* API server, whose events reach the operator late.                       *)
(*                                                                         *)
(* The cache is one entry here; a reconcile of the cache controller and    *)
(* the lookup of the health controller are single steps (ClusterCache has  *)
(* their interleavings), but a refresh that another goroutine's lookup     *)
(* started may store what it read long ago.                                *)
(*                                                                         *)
(* Time is the age of timestamps in seconds, the precision at which the    *)
(* API server stores them; ages above MaxDuration are not told apart.      *)
(***************************************************************************)
EXTENDS Naturals

CONSTANTS
    Configs,     \* configurations the Secret may hold
    None,        \* no resource, no Secret, no entry
    MaxDuration, \* Period + Timeout of ToolchainClusterAttributes
    MaxChanges,  \* bound on what happens outside of the operator
    MaxFaults    \* bound on the calls that fail for no lasting reason

ASSUME BoundsAssumption ==
    MaxDuration \in Nat /\ MaxChanges \in Nat /\ MaxFaults \in Nat

VARIABLES
    api,      \* status of the resource in the API server
    informer, \* status of the resource in the operator's informer
    synced,   \* the informer has seen the latest version
    secret,   \* the Secret
    remote,   \* how the remote cluster answers /healthz
    entry,    \* the cache entry
    listed,   \* what a refresh of another goroutine is about to store
    cacheQueue,  \* the resource is queued for the cache controller
    healthQueue, \* the resource is queued for the health controller
    timer,    \* RequeueAfter of the health controller is running
    pc,       \* where the health controller is
    fresh,    \* the object it fetched is the version in the API server
    probed,   \* configuration it found in the cache
    cond,     \* the condition it is about to write
    sinceOk,  \* history: seconds since /healthz answered ok
    changes, faults

apiVars == <<api, informer, synced>>
queueVars == <<cacheQueue, healthQueue, timer>>
localVars == <<pc, fresh, probed, cond>>
cacheVars == <<entry, listed>>
vars == <<apiVars, secret, remote, cacheVars, queueVars, localVars, sinceOk,
          changes, faults>>

Answers == {"ok", "notOk", "error"}
Statuses == {"none", "ready", "notReady", "offline"}
Ages == 0 .. MaxDuration + 1
Status == [ready : Statuses, age : Ages]
Stamped == [ready : Statuses, age : Ages, sameSecond : BOOLEAN]
Entry == [cfg : Configs, ready : Statuses, age : Ages]

ASSUME NoneAssumption == None \notin Configs \cup Status \cup Stamped \cup Entry

TypeOK ==
    /\ api \in Status \cup {None}
    /\ informer \in Status \cup {None}
    /\ synced \in BOOLEAN
    /\ secret \in Configs \cup {None}
    /\ remote \in Answers
    /\ entry \in Entry \cup {None}
    /\ listed \in Entry \cup {None}
    /\ cacheQueue \in BOOLEAN /\ healthQueue \in BOOLEAN /\ timer \in BOOLEAN
    /\ pc \in {"idle", "get", "lookup", "probe", "update"}
    /\ fresh \in BOOLEAN
    /\ probed \in Configs \cup {None}
    /\ cond \in Stamped \cup {None}
    /\ sinceOk \in Ages
    /\ changes \in 0 .. MaxChanges
    /\ faults \in 0 .. MaxFaults

NoStatus == [ready |-> "none", age |-> 0]

(* A ToolchainCluster without status, which the operator finds at start.   *)
Init ==
    /\ api = NoStatus
    /\ informer = api
    /\ synced = TRUE
    /\ secret \in Configs \cup {None}
    /\ remote \in Answers
    /\ entry = None /\ listed = None
    /\ cacheQueue = TRUE /\ healthQueue = TRUE /\ timer = FALSE
    /\ pc = "idle" /\ fresh = FALSE /\ probed = None /\ cond = None
    /\ sinceOk = MaxDuration + 1
    /\ changes = 0 /\ faults = 0

(***************************************************************************)
(* Time.                                                                   *)
(***************************************************************************)
Older(a) == IF a > MaxDuration THEN a ELSE a + 1
Aged(o) == IF o = None THEN None ELSE [o EXCEPT !.age = Older(@)]

Tick ==
    /\ api' = Aged(api)
    /\ informer' = Aged(informer)
    /\ entry' = Aged(entry)
    /\ listed' = Aged(listed)
    /\ cond' = Aged(cond)
    /\ sinceOk' = Older(sinceOk)
    /\ UNCHANGED <<synced, secret, remote, queueVars, pc, fresh, probed,
                   changes, faults>>

(***************************************************************************)
(* The world outside of the operator.                                      *)
(***************************************************************************)
Change == changes < MaxChanges /\ changes' = changes + 1
Fault == faults < MaxFaults /\ faults' = faults + 1

SecretChange(s) ==
    /\ Change
    /\ s # secret
    /\ secret' = s
    /\ UNCHANGED <<apiVars, remote, cacheVars, queueVars, localVars, sinceOk, faults>>

RemoteChange(r) ==
    /\ Change
    /\ r # remote
    /\ remote' = r
    /\ UNCHANGED <<apiVars, secret, cacheVars, queueVars, localVars, sinceOk, faults>>

(* Somebody edits the resource (a label, the secret reference).            *)
Edit ==
    /\ Change
    /\ api # None
    /\ synced' = FALSE /\ fresh' = FALSE
    /\ UNCHANGED <<api, informer, secret, remote, cacheVars, queueVars, pc, probed, cond,
                   sinceOk, faults>>

Delete ==
    /\ Change
    /\ api # None
    /\ api' = None
    /\ synced' = FALSE /\ fresh' = FALSE
    /\ UNCHANGED <<informer, secret, remote, cacheVars, queueVars, pc, probed, cond,
                   sinceOk, faults>>

(* The informer receives the latest version, and both controllers, neither *)
(* of which filters updates, queue the resource.                           *)
Deliver ==
    /\ ~synced
    /\ synced' = TRUE
    /\ informer' = api
    /\ cacheQueue' = TRUE /\ healthQueue' = TRUE
    /\ UNCHANGED <<api, secret, remote, cacheVars, timer, localVars, sinceOk, changes,
                   faults>>

(***************************************************************************)
(* The cache controller.                                                   *)
(***************************************************************************)

(* addToolchainCluster for the informer's copy, which needs the Secret.    *)
CanAdd == informer # None /\ secret # None
Added == [cfg |-> secret, ready |-> informer.ready, age |-> informer.age]

(* A reconcile that cannot add the cluster fails and is queued again, so   *)
(* that nothing changes until one succeeds.                                *)
CacheReconcile ==
    /\ cacheQueue
    /\ \/ CanAdd /\ entry' = Added
       \/ informer = None /\ entry' = None
    /\ cacheQueue' = FALSE
    /\ UNCHANGED <<apiVars, secret, remote, listed, healthQueue, timer, localVars, sinceOk,
                   changes, faults>>

(* A lookup of another goroutine misses, and its refresh lists and reads   *)
(* what it will store later.                                               *)
RefreshStart ==
    /\ entry = None /\ listed = None
    /\ CanAdd
    /\ listed' = Added
    /\ UNCHANGED <<apiVars, secret, remote, entry, queueVars, localVars, sinceOk,
                   changes, faults>>

RefreshStore ==
    /\ listed # None
    /\ entry' = listed
    /\ listed' = None
    /\ UNCHANGED <<apiVars, secret, remote, queueVars, localVars, sinceOk,
                   changes, faults>>

(***************************************************************************)
(* The health controller.                                                  *)
(***************************************************************************)
ReconcileStart ==
    /\ pc = "idle"
    /\ healthQueue
    /\ healthQueue' = FALSE
    /\ pc' = "get"
    /\ UNCHANGED <<apiVars, secret, remote, cacheVars, cacheQueue, timer, fresh, probed,
                   cond, sinceOk, changes, faults>>

(* The time of RequeueAfter is over.                                       *)
TimerFires ==
    /\ timer
    /\ timer' = FALSE
    /\ healthQueue' = TRUE
    /\ UNCHANGED <<apiVars, secret, remote, cacheVars, cacheQueue, localVars, sinceOk,
                   changes, faults>>

(* The end of a reconcile: queued again after an error, started again      *)
(* after RequeAfter, or not at all.                                        *)
EndsWithoutRetry(requeue, after) ==
    /\ pc' = "idle"
    /\ fresh' = FALSE /\ probed' = None /\ cond' = None
    /\ timer' = (timer \/ after)
    /\ UNCHANGED healthQueue
Ends(requeue, after) ==
    /\ pc' = "idle"
    /\ fresh' = FALSE /\ probed' = None /\ cond' = None
    /\ healthQueue' = (healthQueue \/ requeue)
    /\ timer' = (timer \/ after)

(* A resource that is gone is not monitored any longer.                    *)
GoneIsAnError == Ends(TRUE, FALSE)
Gone == Ends(FALSE, FALSE)

(* Get reads the informer.                                                 *)
Get ==
    /\ pc = "get"
    /\ \/ /\ informer # None
          /\ pc' = "lookup"
          /\ fresh' = synced
          /\ UNCHANGED <<probed, cond, healthQueue, timer, faults>>
       \/ /\ informer = None
          /\ Gone
          /\ UNCHANGED faults
       \/ /\ Fault
          /\ Ends(TRUE, FALSE)
    /\ UNCHANGED <<apiVars, secret, remote, cacheVars, cacheQueue, sinceOk, changes>>

(* A condition is stamped with the current time as it is built, before the *)
(* API server is called (LastUpdatedTime).                                 *)
Condition(ready) ==
    [ready |-> ready, age |-> 0, sameSecond |-> api # None /\ api.age = 0]

(* GetCachedToolchainCluster, which refreshes the cache if it has no entry, *)
(* then NewForConfig.  Either may fail, and the cluster counts as offline. *)
Lookup ==
    LET found == IF entry = None /\ CanAdd THEN Added ELSE entry IN
    /\ pc = "lookup"
    /\ entry' = found
    /\ \/ /\ found # None
          /\ probed' = found.cfg
          /\ pc' = "probe"
          /\ UNCHANGED <<cond, faults>>
       \/ /\ found = None
          /\ cond' = Condition("offline")
          /\ pc' = "update"
          /\ UNCHANGED <<probed, faults>>
       \/ /\ found # None
          /\ Fault
          /\ cond' = Condition("offline")
          /\ pc' = "update"
          /\ UNCHANGED probed
    /\ UNCHANGED <<apiVars, secret, remote, listed, queueVars, fresh, sinceOk, changes>>

(* getClusterHealthCondition.                                              *)
HealthConditionOptimistic(answer) ==
    Condition(IF answer = "notOk" THEN "notReady" ELSE "ready")
HealthCondition(answer) ==
    Condition(CASE answer = "ok" -> "ready"
                [] answer = "notOk" -> "notReady"
                [] answer = "error" -> "offline")

(* The answer and the time stamp of its condition, between which the code  *)
(* only computes: the second is taken to be that of the answer.            *)
Probe ==
    /\ pc = "probe"
    /\ cond' = HealthCondition(remote)
    /\ sinceOk' = IF remote = "ok" THEN 0 ELSE sinceOk
    /\ pc' = "update"
    /\ UNCHANGED <<apiVars, secret, remote, cacheVars, queueVars, fresh, probed, changes,
                   faults>>

(* The new time alone makes a status that differs from the stored one.     *)
DiffersByStatus == cond.ready # api.ready
Differs == cond.ready # api.ready \/ ~cond.sameSecond

(* updateStatus: the API server accepts the update of the version that was *)
(* fetched, and announces it if it changes anything.  Reconcile returns an *)
(* error if the update failed or nothing was probed.                       *)
Update ==
    /\ pc = "update"
    /\ \/ /\ fresh
          /\ \/ /\ Differs
                /\ api' = [ready |-> cond.ready, age |-> cond.age]
                /\ synced' = FALSE
             \/ ~Differs /\ UNCHANGED <<api, synced>>
          /\ Ends(probed = None, probed # None)
          /\ UNCHANGED faults
       \/ /\ ~fresh
          /\ Ends(TRUE, FALSE)
          /\ UNCHANGED <<api, synced, faults>>
       \/ /\ Fault
          /\ Ends(TRUE, FALSE)
          /\ UNCHANGED <<api, synced>>
    /\ UNCHANGED <<informer, secret, remote, cacheVars, cacheQueue, sinceOk, changes>>

Next ==
    \/ Tick
    \/ \E s \in Configs \cup {None} : SecretChange(s)
    \/ \E r \in Answers : RemoteChange(r)
    \/ Edit
    \/ Delete
    \/ Deliver
    \/ CacheReconcile
    \/ RefreshStart
    \/ RefreshStore
    \/ TimerFires
    \/ ReconcileStart
    \/ Get
    \/ Lookup
    \/ Probe
    \/ Update

Spec == Init /\ [][Next]_vars

(* Time passes, watches deliver, timers fire and the workers run.          *)
Fairness ==
    /\ WF_vars(Tick)
    /\ WF_vars(Deliver)
    /\ WF_vars(CacheReconcile)
    /\ WF_vars(RefreshStore)
    /\ WF_vars(TimerFires)
    /\ WF_vars(ReconcileStart \/ Get \/ Lookup \/ Probe \/ Update)

FairSpec == Spec /\ Fairness

(***************************************************************************)
(* GetToolchainClusterConditions.                                          *)
(***************************************************************************)
Report ==
    CASE entry = None -> "notFound"
      [] entry # None /\ entry.ready # "ready" -> "notReady"
      [] entry # None /\ entry.ready = "ready" /\ entry.age > MaxDuration ->
             "lastProbeTimeExceeded"
      [] entry # None /\ entry.ready = "ready" /\ entry.age <= MaxDuration -> "ready"

(***************************************************************************)
(* Properties.                                                             *)
(***************************************************************************)

(* A connection is reported as ready only if /healthz answered ok within   *)
(* the last Period + Timeout, however late updates, events and the cache   *)
(* controller are: the timestamp travels with the condition.               *)
ReadyIsRecent == Report = "ready" => sinceOk <= MaxDuration

(* A status never looks younger than the probe it reports.                 *)
NeverYounger ==
    /\ api # None /\ api.ready = "ready" => sinceOk <= api.age
    /\ informer # None /\ informer.ready = "ready" => sinceOk <= informer.age
    /\ entry # None /\ entry.ready = "ready" => sinceOk <= entry.age
    /\ listed # None /\ listed.ready = "ready" => sinceOk <= listed.age
    /\ cond # None /\ cond.ready = "ready" => sinceOk <= cond.age

(* Nothing watches Secrets, yet a rotated kubeconfig reaches the cache:    *)
(* every probe stamps the status anew, and that update makes the cache     *)
(* controller read the Secret.                                             *)
ConfigConverges ==
    \A c \in Configs :
        <>[](api # None /\ secret = c) => <>[](entry # None /\ entry.cfg = c)

(* The cached status comes to tell how the cluster answers, in spite of    *)
(* conflicts, late events and failed calls.                                *)
StatusConverges ==
    \A answer \in Answers :
        <>[](api # None /\ secret # None /\ remote = answer) =>
            <>[](entry # None /\ entry.ready = HealthCondition(answer).ready)

(* A deleted cluster is not monitored any longer, also if a conflict, an   *)
(* event or RequeueAfter was pending, or its entry stayed in the cache.    *)
MonitoringStops ==
    <>[](api = None) => <>[](pc = "idle" /\ ~healthQueue /\ ~timer)
=============================================================================
