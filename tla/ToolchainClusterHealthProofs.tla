-------------------- MODULE ToolchainClusterHealthProofs --------------------
(***************************************************************************)
(* Proofs about the health of a ToolchainCluster.                          *)
(***************************************************************************)
EXTENDS ToolchainClusterHealth, TLAPS

HInv == TypeOK /\ NeverYounger /\ (pc = "update" => cond # None)

LEMMA OlderType == \A a \in Ages : Older(a) \in Ages
  BY BoundsAssumption DEF Ages, Older

(* Ages grow together, so that their order is kept.                        *)
LEMMA OlderMonotone == \A a, b \in Ages : a <= b => Older(a) <= Older(b)
  BY BoundsAssumption DEF Ages, Older

LEMMA HealthInit == Init => HInv
<1>. SUFFICES ASSUME Init PROVE HInv
  OBVIOUS
<1>1. NoStatus \in Status /\ MaxDuration + 1 \in Ages
  BY BoundsAssumption DEF NoStatus, Status, Statuses, Ages
<1>2. synced \in BOOLEAN /\ cacheQueue \in BOOLEAN /\ healthQueue \in BOOLEAN
      /\ timer \in BOOLEAN /\ fresh \in BOOLEAN
  BY Zenon DEF Init
<1>3. TypeOK
  BY <1>1, <1>2, BoundsAssumption DEF Init, TypeOK
<1>4. NeverYounger
  BY DEF Init, NeverYounger, NoStatus
<1>. QED
  BY <1>3, <1>4 DEF HInv, Init

LEMMA AgedType ==
  /\ \A o \in Status \cup {None} : Aged(o) \in Status \cup {None}
  /\ \A o \in Entry \cup {None} : Aged(o) \in Entry \cup {None}
  /\ \A o \in Stamped \cup {None} : Aged(o) \in Stamped \cup {None}
  /\ \A o \in Stamped : Aged(o) \in Stamped
  BY OlderType, NoneAssumption DEF Aged, Status, Entry, Stamped

LEMMA AgedYounger ==
  ASSUME NEW o \in Status \cup Entry \cup Stamped, NEW a \in Ages,
         o.ready = "ready" => a <= o.age
  PROVE  Aged(o).ready = "ready" => Older(a) <= Aged(o).age
<1>1. o.age \in Ages /\ o # None
  BY NoneAssumption DEF Status, Entry, Stamped
<1>2. Aged(o).ready = o.ready /\ Aged(o).age = Older(o.age)
  BY <1>1 DEF Aged, Status, Entry, Stamped
<1>. QED
  BY <1>1, <1>2, OlderMonotone

LEMMA TickStep == ASSUME HInv, Tick PROVE HInv'
<1>. USE DEF HInv
<1>1. TypeOK'
  BY AgedType, OlderType, Zenon DEF TypeOK, Tick, queueVars
<1>2. ASSUME NEW o \in Status \cup Entry \cup Stamped \cup {None},
             o # None /\ o.ready = "ready" => sinceOk <= o.age
      PROVE  Aged(o) # None /\ Aged(o).ready = "ready" => sinceOk' <= Aged(o).age
  BY <1>2, AgedYounger DEF TypeOK, Tick, Aged
<1>3. NeverYounger'
  BY <1>2 DEF NeverYounger, TypeOK, Tick
<1>4. Aged(cond) = None => cond = None
  BY AgedType, NoneAssumption DEF TypeOK
<1>. QED
  BY <1>1, <1>3, <1>4 DEF Tick

LEMMA EndsType ==
  ASSUME TypeOK, NEW requeue \in BOOLEAN, NEW after \in BOOLEAN, Ends(requeue, after)
  PROVE  /\ pc' = "idle" /\ fresh' \in BOOLEAN /\ probed' = None /\ cond' = None
         /\ healthQueue' \in BOOLEAN /\ timer' \in BOOLEAN
  BY DEF Ends, TypeOK

LEMMA ConditionType ==
  \A ready \in Statuses : /\ Condition(ready) \in Stamped
                          /\ Condition(ready).ready = ready
                          /\ Condition(ready).age = 0
<1>. TAKE ready \in Statuses
<1>1. (api # None /\ api.age = 0) \in BOOLEAN
  OBVIOUS
<1>2. 0 \in Ages
  BY BoundsAssumption DEF Ages
<1>. QED
  BY <1>1, <1>2 DEF Condition, Stamped

LEMMA AddedType ==
  ASSUME HInv, CanAdd
  PROVE  Added \in Entry /\ Added.ready = informer.ready /\ Added.age = informer.age
  BY DEF HInv, TypeOK, CanAdd, Added, Entry, Status

LEMMA HealthStep == HInv /\ [Next]_vars => HInv'
<1>. SUFFICES ASSUME HInv, [Next]_vars PROVE HInv'
  OBVIOUS
<1>. USE BoundsAssumption, NoneAssumption DEF HInv
<1>1. CASE Tick
  BY <1>1, TickStep
<1>2. ASSUME NEW s \in Configs \cup {None}, SecretChange(s) PROVE HInv'
  BY <1>2 DEF SecretChange, Change, TypeOK, NeverYounger, apiVars, cacheVars, queueVars, localVars
<1>3. ASSUME NEW r \in Answers, RemoteChange(r) PROVE HInv'
  BY <1>3 DEF RemoteChange, Change, TypeOK, NeverYounger, apiVars, cacheVars, queueVars, localVars
<1>4. CASE Edit
  <2>1. synced' \in BOOLEAN /\ fresh' \in BOOLEAN
    BY <1>4, Zenon DEF Edit
  <2>. QED
    BY <2>1, <1>4 DEF Edit, Change, TypeOK, NeverYounger, cacheVars, queueVars
<1>5. CASE Delete
  <2>1. synced' \in BOOLEAN /\ fresh' \in BOOLEAN
    BY <1>5, Zenon DEF Delete
  <2>. QED
    BY <2>1, <1>5 DEF Delete, Change, TypeOK, NeverYounger, cacheVars, queueVars
<1>6. CASE Deliver
  <2>1. synced' \in BOOLEAN /\ cacheQueue' \in BOOLEAN /\ healthQueue' \in BOOLEAN
    BY <1>6, Zenon DEF Deliver
  <2>. QED
    BY <2>1, <1>6 DEF Deliver, TypeOK, NeverYounger, cacheVars, localVars
<1>7. CASE CacheReconcile
  <2>4. cacheQueue' \in BOOLEAN
    BY <1>7, Zenon DEF CacheReconcile
  <2>2. /\ entry' \in Entry \cup {None}
        /\ entry' # None /\ entry'.ready = "ready" => sinceOk <= entry'.age
    <3>1. ASSUME CanAdd, entry' = Added
          PROVE  /\ entry' \in Entry
                 /\ entry'.ready = "ready" => sinceOk <= entry'.age
      BY <3>1, AddedType DEF CanAdd, NeverYounger
    <3>. QED
      BY <1>7, <3>1 DEF CacheReconcile
  <2>3. UNCHANGED <<api, informer, synced, secret, remote, listed, healthQueue, timer, pc, fresh,
                    probed, cond, sinceOk, changes, faults>>
    BY <1>7 DEF CacheReconcile, apiVars, localVars
  <2>. QED
    BY <2>2, <2>3, <2>4 DEF TypeOK, NeverYounger
<1>8. CASE RefreshStart
  BY <1>8, AddedType DEF RefreshStart, CanAdd, TypeOK, NeverYounger, apiVars, queueVars, localVars
<1>9. CASE RefreshStore
  BY <1>9 DEF RefreshStore, TypeOK, NeverYounger, apiVars, queueVars, localVars
<1>10. CASE TimerFires
  <2>1. timer' \in BOOLEAN /\ healthQueue' \in BOOLEAN
    BY <1>10, Zenon DEF TimerFires
  <2>. QED
    BY <2>1, <1>10 DEF TimerFires, TypeOK, NeverYounger, apiVars, cacheVars, localVars
<1>11. CASE ReconcileStart
  <2>1. healthQueue' \in BOOLEAN
    BY <1>11, Zenon DEF ReconcileStart
  <2>. QED
    BY <2>1, <1>11 DEF ReconcileStart, TypeOK, NeverYounger, apiVars, cacheVars
<1>12. CASE Get
  <2>1. CASE pc' = "lookup" /\ fresh' = synced /\ UNCHANGED <<probed, cond, healthQueue, timer, faults>>
    BY <1>12, <2>1 DEF Get, TypeOK, NeverYounger, apiVars, cacheVars
  <2>2. ASSUME NEW requeue \in BOOLEAN, Ends(requeue, FALSE), UNCHANGED faults \/ Fault
        PROVE  HInv'
    <3>1. faults' \in 0 .. MaxFaults
      BY <2>2 DEF Fault, TypeOK
    <3>2. UNCHANGED <<api, informer, synced, secret, remote, entry, listed, cacheQueue, sinceOk, changes>>
      BY <1>12 DEF Get, apiVars, cacheVars
    <3>. QED
      BY <2>2, <3>1, <3>2, EndsType DEF TypeOK, NeverYounger
  <2>. QED
    BY <1>12, <2>1, <2>2 DEF Get, Gone
<1>13. CASE Lookup
  <2>. DEFINE found == IF entry = None /\ CanAdd THEN Added ELSE entry
  <2>1. /\ found \in Entry \cup {None}
        /\ found # None /\ found.ready = "ready" => sinceOk <= found.age
        /\ found # None => found.cfg \in Configs
    BY AddedType DEF CanAdd, TypeOK, NeverYounger, Entry
  <2>2. Condition("offline") \in Stamped /\ Condition("offline").ready = "offline"
    BY ConditionType DEF Statuses
  <2>. HIDE DEF found
  <2>3. /\ pc = "lookup" /\ entry' = found
        /\ \/ found # None /\ probed' = found.cfg /\ pc' = "probe" /\ UNCHANGED <<cond, faults>>
           \/ cond' = Condition("offline") /\ pc' = "update" /\ UNCHANGED <<probed, faults>>
           \/ Fault /\ cond' = Condition("offline") /\ pc' = "update" /\ UNCHANGED probed
        /\ UNCHANGED <<apiVars, secret, remote, listed, queueVars, fresh, sinceOk, changes>>
    BY <1>13 DEF Lookup, found
  <2>. QED
    BY <2>1, <2>2, <2>3 DEF Fault, TypeOK, NeverYounger, apiVars, queueVars
<1>14. CASE Probe
  <2>1. /\ HealthCondition(remote) \in Stamped
        /\ HealthCondition(remote).age = 0
        /\ HealthCondition(remote).ready = "ready" => remote = "ok"
    BY ConditionType DEF HealthCondition, TypeOK, Answers, Statuses
  <2>2. /\ sinceOk' \in Ages /\ sinceOk' <= sinceOk /\ 0 \in Ages
        /\ remote = "ok" => sinceOk' = 0
    BY <1>14 DEF Probe, TypeOK, Ages
  <2>3. TypeOK'
    BY <1>14, <2>1, <2>2 DEF Probe, TypeOK, apiVars, cacheVars, queueVars
  <2>4. NeverYounger'
    BY <1>14, <2>1, <2>2 DEF Probe, TypeOK, NeverYounger, apiVars, cacheVars, Ages, Status, Entry
  <2>. QED
    BY <1>14, <2>1, <2>3, <2>4 DEF Probe
<1>15. CASE Update
  <2>1. CASE fresh /\ Differs /\ api' = [ready |-> cond.ready, age |-> cond.age]
             /\ synced' = FALSE /\ Ends(probed = None, probed # None) /\ UNCHANGED faults
    BY <1>15, <2>1, EndsType DEF Update, TypeOK, NeverYounger, cacheVars, Status, Stamped
  <2>2. ASSUME NEW requeue \in BOOLEAN, NEW after \in BOOLEAN, Ends(requeue, after),
               UNCHANGED <<api, synced>>, UNCHANGED faults \/ Fault
        PROVE  HInv'
    BY <1>15, <2>2, EndsType DEF Update, Fault, TypeOK, NeverYounger, cacheVars
  <2>. QED
    BY <1>15, <2>1, <2>2 DEF Update
<1>16. CASE UNCHANGED vars
  BY <1>16 DEF vars, TypeOK, NeverYounger, apiVars, cacheVars, queueVars, localVars
<1>. QED
  BY <1>1, <1>2, <1>3, <1>4, <1>5, <1>6, <1>7, <1>8, <1>9, <1>10, <1>11, <1>12, <1>13,
     <1>14, <1>15, <1>16 DEF Next

LEMMA HealthInductive == Spec => []HInv
  BY HealthInit, HealthStep, PTL DEF Spec

(* A connection reported as ready answered ok within Period + Timeout, for *)
(* every Period and Timeout and however late the parts of the loop run.    *)
THEOREM ReadyReportsAreRecent == Spec => []ReadyIsRecent
<1>1. HInv => ReadyIsRecent
  BY BoundsAssumption DEF HInv, TypeOK, NeverYounger, ReadyIsRecent, Report, Ages, Entry
<1>. QED
  BY <1>1, HealthInductive, PTL
=============================================================================
