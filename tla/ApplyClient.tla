---------------------------- MODULE ApplyClient ----------------------------
(***************************************************************************)
(* ApplyClient of pkg/client: applyObject reads an object and creates it,  *)
(* leaves it alone or updates it, and Apply and                            *)
(* ApplyUnstructuredObjectsWithNewLabels do so for several objects.  Other *)
(* clients, people and the controllers of Kubernetes write the same        *)
(* objects between any two of its calls.                                   *)
(*                                                                         *)
(* An object is its spec, the value of one label, the annotation with the  *)
(* configuration applied last, the clusterIP of a Service and the secret   *)
(* references of a ServiceAccount.  Instead of resource versions the model *)
(* has the set of clients whose copy is the current version.  Reads are    *)
(* answered by the client's informer, which may lag behind; a client       *)
(* without one reads after Deliver.                                        *)
(***************************************************************************)
EXTENDS Naturals, FiniteSets

CONSTANTS
    Procs,           \* goroutines that apply objects
    ServiceAccounts, Services, Others,  \* the objects, by kind
    Specs, Labels,   \* contents of templates
    IPs,             \* cluster addresses
    Refs,            \* secrets of ServiceAccounts
    None,
    MaxFaults        \* bound on the calls that fail

Keys == ServiceAccounts \cup Services \cup Others
Configurations == [spec : Specs, label : Labels]
Objects == [spec : Specs, label : Labels, applied : Configurations \cup {None},
            ip : IPs \cup {None}, refs : SUBSET Refs]

ASSUME KindsAssumption ==
    /\ ServiceAccounts \cap (Services \cup Others) = {}
    /\ Services \cap Others = {}
ASSUME NoneAssumption == None \notin Keys \cup Configurations \cup Objects \cup IPs
ASSUME FaultsAssumption == MaxFaults \in Nat

VARIABLES
    api,     \* the objects in the API server
    informer, \* the objects as the client's Get sees them
    synced,  \* objects of which the informer has the current version
    pc,      \* where each goroutine is: idle, get, create, update, done
    op,      \* what it called
    want,    \* the configuration it applies
    todo,    \* the objects it has still to apply
    key,     \* the one it is at
    seen,    \* its copy of the existing object
    current, \* goroutines whose copy is the version in the API server
    outcome, \* ok, or why the call failed
    changed, \* goroutines whose createdOrUpdated is true
    faults,
    counted, \* history: objects the call created or gave a new generation
    edited,  \* history: objects changed by others since they were applied
    issued   \* history: the secret references given to each ServiceAccount

callVars == <<op, want>>
itemVars == <<key, seen>>
resultVars == <<outcome, changed>>
historyVars == <<counted, edited, issued>>
apiVars == <<api, informer, synced>>
vars == <<apiVars, pc, callVars, todo, itemVars, current, resultVars, faults, historyVars>>

Ops == {"ApplyObject", "Apply", "ApplyUnstructured"}
Outcomes == {"ok", "error", "immutable"}

TypeOK ==
    /\ api \in [Keys -> Objects \cup {None}]
    /\ informer \in [Keys -> Objects \cup {None}]
    /\ synced \subseteq Keys
    /\ pc \in [Procs -> {"idle", "get", "create", "update", "done"}]
    /\ op \in [Procs -> Ops \cup {None}]
    /\ want \in [Procs -> Configurations \cup {None}]
    /\ todo \in [Procs -> SUBSET Keys]
    /\ key \in [Procs -> Keys \cup {None}]
    /\ seen \in [Procs -> Objects \cup {None}]
    /\ current \subseteq Procs
    /\ outcome \in [Procs -> Outcomes]
    /\ changed \subseteq Procs
    /\ faults \in 0 .. MaxFaults
    /\ counted \in [Procs -> SUBSET Keys]
    /\ edited \subseteq Keys
    /\ issued \in [Keys -> SUBSET Refs]

Init ==
    /\ api = [k \in Keys |-> None]
    /\ informer = api
    /\ synced = Keys
    /\ pc = [p \in Procs |-> "idle"]
    /\ op = [p \in Procs |-> None]
    /\ want = [p \in Procs |-> None]
    /\ todo = [p \in Procs |-> {}]
    /\ key = [p \in Procs |-> None]
    /\ seen = [p \in Procs |-> None]
    /\ current = {}
    /\ outcome = [p \in Procs |-> "ok"]
    /\ changed = {}
    /\ faults = 0
    /\ counted = [p \in Procs |-> {}]
    /\ edited = {}
    /\ issued = [k \in Keys |-> {}]

Goto(p, label) == pc' = [pc EXCEPT ![p] = label]
Fault == faults < MaxFaults /\ faults' = faults + 1

(* A write of k makes every copy of it outdated.                           *)
Write(k, o) ==
    /\ api' = [api EXCEPT ![k] = o]
    /\ synced' = synced \ {k}
    /\ UNCHANGED informer
    /\ current' = {p \in current : key[p] # k}

(***************************************************************************)
(* The other writers.                                                      *)
(***************************************************************************)

(* Somebody changes spec or label, and leaves the annotation alone.        *)
Edit(k, c) ==
    /\ api[k] # None
    /\ c # [spec |-> api[k].spec, label |-> api[k].label]
    /\ Write(k, [api[k] EXCEPT !.spec = c.spec, !.label = c.label])
    /\ edited' = edited \cup {k}
    /\ UNCHANGED <<pc, callVars, todo, itemVars, resultVars, faults, counted, issued>>

Delete(k) ==
    /\ api[k] # None
    /\ Write(k, None)
    /\ edited' = edited \ {k}
    /\ issued' = [issued EXCEPT ![k] = {}]
    /\ UNCHANGED <<pc, callVars, todo, itemVars, resultVars, faults, counted>>

Deliver(k) ==
    /\ k \notin synced
    /\ informer' = [informer EXCEPT ![k] = api[k]]
    /\ synced' = synced \cup {k}
    /\ UNCHANGED <<api, pc, callVars, todo, itemVars, current, resultVars, faults, historyVars>>

(* A controller of Kubernetes adds a token secret to a ServiceAccount.     *)
AddSecret(k, r) ==
    /\ k \in ServiceAccounts /\ api[k] # None
    /\ r \notin api[k].refs
    /\ Write(k, [api[k] EXCEPT !.refs = @ \cup {r}])
    /\ issued' = [issued EXCEPT ![k] = @ \cup {r}]
    /\ UNCHANGED <<pc, callVars, todo, itemVars, resultVars, faults, counted, edited>>

(***************************************************************************)
(* The API server's side of create and update.                             *)
(***************************************************************************)

(* A Service gets an address.                                              *)
Created(k, o) ==
    IF k \in Services THEN {[o EXCEPT !.ip = i] : i \in IPs} ELSE {o}

(* The generation counts changes of the spec, in kinds that have one.      *)
NewGeneration(k, o) == k \in Others /\ o.spec # api[k].spec

(* The clusterIP of a Service cannot be changed.                           *)
Immutable(k, o) == k \in Services /\ o.ip # api[k].ip

(***************************************************************************)
(* applyObject.                                                            *)
(***************************************************************************)

(* The options each function calls applyObject with.                       *)
ForceUpdate(p) == op[p] = "Apply"
SaveConfiguration(p) == op[p] # "ApplyUnstructured"

(* The caller's object, with the annotation if the configuration is saved. *)
NewObject(p) ==
    [spec |-> want[p].spec, label |-> want[p].label,
     applied |-> IF SaveConfiguration(p) THEN want[p] ELSE None,
     ip |-> None, refs |-> {}]

Call(p, f, c, ks) ==
    /\ pc[p] = "idle"
    /\ f = "ApplyObject" => Cardinality(ks) = 1
    /\ op' = [op EXCEPT ![p] = f]
    /\ want' = [want EXCEPT ![p] = c]
    /\ todo' = [todo EXCEPT ![p] = ks]
    /\ Goto(p, "get")
    /\ UNCHANGED <<apiVars, itemVars, current, resultVars, faults, historyVars>>

(* The end of applyObject with an error ends Apply too, which then reports *)
(* no change, while ApplyObject passes the result on.                      *)
Fails(p, why, result) ==
    /\ Goto(p, "done")
    /\ outcome' = [outcome EXCEPT ![p] = why]
    /\ changed' = IF result /\ op[p] = "ApplyObject" THEN changed \cup {p} ELSE changed \ {p}
    /\ UNCHANGED todo

(* The end of applyObject without one: createdOrUpdated is accumulated.    *)
CreatedOrUpdatedLast(p, result) == result
CreatedOrUpdated(p, result) == p \in changed \/ result

Succeeds(p, k, result) ==
    /\ todo' = [todo EXCEPT ![p] = @ \ {k}]
    /\ changed' = IF CreatedOrUpdated(p, result) THEN changed \cup {p} ELSE changed \ {p}
    /\ Goto(p, IF todo[p] = {k} THEN "done" ELSE "get")
    /\ UNCHANGED outcome

(* Unless forced, an object whose annotation is the new configuration is   *)
(* left alone.                                                             *)
LooksSame(p, o) ==
    ~ForceUpdate(p) /\ SaveConfiguration(p) /\ o.applied = want[p]

Get(p, k) ==
    /\ pc[p] = "get"
    /\ k \in todo[p]
    /\ \/ /\ informer[k] # None /\ LooksSame(p, informer[k])
          /\ Succeeds(p, k, FALSE)
          /\ UNCHANGED <<itemVars, current, faults>>
       \/ /\ \/ informer[k] = None /\ Goto(p, "create")
             \/ informer[k] # None /\ ~LooksSame(p, informer[k]) /\ Goto(p, "update")
          /\ key' = [key EXCEPT ![p] = k]
          /\ seen' = [seen EXCEPT ![p] = informer[k]]
          /\ current' = IF k \in synced THEN current \cup {p} ELSE current \ {p}
          /\ UNCHANGED <<todo, resultVars, faults>>
       \/ /\ Fault
          /\ Fails(p, "error", FALSE)
          /\ UNCHANGED <<itemVars, current>>
    /\ UNCHANGED <<apiVars, callVars, historyVars>>

Stores(p, k, o) ==
    /\ Write(k, o)
    /\ edited' = edited \ {k}

(* createObj.  A call that fails may have been carried out.                *)
Create(p, k) ==
    /\ pc[p] = "create" /\ k = key[p]
    /\ \/ /\ api[k] = None
          /\ \E o \in Created(k, NewObject(p)) : Stores(p, k, o)
          /\ counted' = [counted EXCEPT ![p] = @ \cup {k}]
          /\ \/ Succeeds(p, k, TRUE) /\ UNCHANGED faults
             \/ Fault /\ Fails(p, "error", TRUE)
       \/ /\ \/ api[k] # None /\ UNCHANGED faults
             \/ Fault
          /\ Fails(p, "error", TRUE)
          /\ UNCHANGED <<apiVars, current, counted, edited>>
    /\ UNCHANGED <<callVars, itemVars, issued>>

(* RetainClusterIP.                                                        *)
RetainedIPLost(p) == None
RetainedIP(p) == seen[p].ip

(* Annotations are replaced, except those of a ServiceAccount.             *)
AnnotationMerged(p) == IF SaveConfiguration(p) THEN want[p] ELSE seen[p].applied
Annotation(p) == NewObject(p).applied

(* What is sent: for a ServiceAccount the existing object, with labels and *)
(* annotations merged, otherwise the new one.                              *)
Sent(p) ==
    IF key[p] \in ServiceAccounts
    THEN [seen[p] EXCEPT !.label = want[p].label, !.applied = AnnotationMerged(p)]
    ELSE [NewObject(p) EXCEPT !.ip = RetainedIP(p), !.applied = Annotation(p)]

(* The update carries the version that was read: the server refuses it if  *)
(* the object was written or deleted since.                                *)
AcceptedUnconditionally(p) == api[key[p]] # None
Accepted(p) == p \in current

(* originalGeneration, that of the copy, against the generation of the     *)
(* answer: what was sent has another spec than what was read.              *)
GenerationDiffers(p) == key[p] \in Others /\ Sent(p).spec # seen[p].spec

Update(p, k) ==
    /\ pc[p] = "update" /\ k = key[p]
    /\ \/ /\ Accepted(p) /\ ~Immutable(k, Sent(p))
          /\ Stores(p, k, Sent(p))
          /\ counted' = [counted EXCEPT ![p] =
                            IF NewGeneration(k, Sent(p)) THEN @ \cup {k} ELSE @]
          /\ \/ Succeeds(p, k, GenerationDiffers(p)) /\ UNCHANGED faults
             \/ Fault /\ Fails(p, "error", FALSE)
       \/ /\ \/ /\ Accepted(p) /\ Immutable(k, Sent(p))
                /\ Fails(p, "immutable", FALSE)
                /\ UNCHANGED faults
             \/ ~Accepted(p) /\ Fails(p, "error", FALSE) /\ UNCHANGED faults
             \/ Fault /\ Fails(p, "error", FALSE)
          /\ UNCHANGED <<apiVars, current, counted, edited>>
    /\ UNCHANGED <<callVars, itemVars, issued>>

Return(p) ==
    /\ pc[p] = "done"
    /\ Goto(p, "idle")
    /\ op' = [op EXCEPT ![p] = None]
    /\ want' = [want EXCEPT ![p] = None]
    /\ todo' = [todo EXCEPT ![p] = {}]
    /\ key' = [key EXCEPT ![p] = None]
    /\ seen' = [seen EXCEPT ![p] = None]
    /\ current' = current \ {p}
    /\ outcome' = [outcome EXCEPT ![p] = "ok"]
    /\ changed' = changed \ {p}
    /\ counted' = [counted EXCEPT ![p] = {}]
    /\ UNCHANGED <<apiVars, faults, edited, issued>>

(* What others, and what a goroutine may do with some of the objects.      *)
OthersDo(k) ==
    \/ \E c \in Configurations : Edit(k, c)
    \/ Delete(k)
    \/ Deliver(k)
    \/ \E r \in Refs : AddSecret(k, r)
Applies(p, objects) ==
    \/ \E f \in Ops, c \in Configurations, ks \in (SUBSET objects) \ {{}} : Call(p, f, c, ks)
    \/ \E k \in objects : Get(p, k) \/ Create(p, k) \/ Update(p, k)
    \/ Return(p)

Next ==
    \/ \E k \in Keys : OthersDo(k)
    \/ \E p \in Procs : Applies(p, Keys)

Spec == Init /\ [][Next]_vars

(***************************************************************************)
(* Properties.                                                             *)
(***************************************************************************)

(* Applying a ServiceAccount never drops a secret reference, also one that *)
(* was added while it was being applied: a lost one makes Kubernetes       *)
(* create the next secret, until the quota is reached.                     *)
SecretRefsKept ==
    \A k \in ServiceAccounts : api[k] # None => issued[k] \subseteq api[k].refs

(* No update is refused because it would change the clusterIP: what is     *)
(* retained from the existing Service is right for the version that is     *)
(* updated.                                                                *)
ClusterIPRetained == \A p \in Procs : outcome[p] # "immutable"

(* The annotation on which the decision to skip rests tells the truth: as  *)
(* long as nobody else changes the object it is as it was applied last,    *)
(* also after calls that do not save the configuration.  (The annotations  *)
(* of a ServiceAccount are merged, and so may be older than its labels.)   *)
AnnotationTruthful ==
    \A k \in Services \cup Others :
        api[k] # None /\ k \notin edited /\ api[k].applied # None =>
            api[k].applied = [spec |-> api[k].spec, label |-> api[k].label]

(* Without an error the returned boolean is true exactly if the call       *)
(* created one of the objects or gave one a new generation, whatever       *)
(* others did to them meanwhile.                                           *)
ReportsGenerations ==
    \A p \in Procs :
        pc[p] = "done" /\ outcome[p] = "ok" => (p \in changed <=> counted[p] # {})
=============================================================================
