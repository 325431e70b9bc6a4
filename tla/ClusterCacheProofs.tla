------------------------- MODULE ClusterCacheProofs -------------------------
(***************************************************************************)
(* Proofs about the cluster cache, for any number of resources, names and  *)
(* goroutines.                                                             *)
(***************************************************************************)
EXTENDS ClusterCache, TLAPS

(* What the local variables of a process hold while addToolchainCluster    *)
(* runs.                                                                   *)
ConfigPcs == {"peek", "peeking", "newClient", "addLock", "adding"}

LocalOK(p) ==
    /\ p = Worker => pc[p] \in WorkerPcs
    /\ p # Worker => pc[p] \in UserPcs
    /\ pc[p] \in AddPcs => cur[p] \in Own /\ snap[p][cur[p]] # None
    /\ pc[p] \in {"get", "deleteLock", "deleting"} => cur[p] \in Own
    /\ \A k \in Keys : snap[p][k] # None => k \in Own
    /\ pc[p] \in ConfigPcs => cfg[p] # None
    /\ pc[p] \in {"addLock", "adding"} => cl[p] = cfg[p].rest

LocalsOK == queue \subseteq Own /\ \A p \in Procs : LocalOK(p)

Base == TypeOK /\ LocalsOK

USE DEF Procs

LEMMA Labels ==
  {"idle", "readLock", "read", "list", "next", "readLockAgain", "readAgain", "done",
   "get", "deleteLock", "deleting", "config", "peek", "peeking", "newClient",
   "addLock", "adding"} \subseteq UserPcs \cup WorkerPcs
  BY DEF UserPcs, WorkerPcs, AddPcs

LEMMA BaseInit == Init => Base
<1>. SUFFICES ASSUME Init PROVE Base
  OBVIOUS
<1>1. TypeOK
  <2>1. registered \in BOOLEAN
    BY Zenon DEF Init
  <2>2. NoObjects \in [Keys -> Objects \cup {None}]
    BY DEF NoObjects
  <2>3. snap \in [Procs -> [Keys -> Objects \cup {None}]]
    BY <2>2 DEF Init
  <2>4. pc \in [Procs -> UserPcs \cup WorkerPcs]
    BY Labels DEF Init
  <2>5. queue \subseteq Keys /\ changes \in 0..MaxChanges /\ faults \in 0..MaxFaults
    BY KeysAssumption, BoundsAssumption DEF Init
  <2>. QED
    BY <2>1, <2>3, <2>4, <2>5 DEF Init, TypeOK
<1>2. LocalsOK
  BY NoneAssumption DEF Init, LocalsOK, LocalOK, NoObjects, UserPcs, WorkerPcs, AddPcs, ConfigPcs
<1>. QED
  BY <1>1, <1>2 DEF Base

LEMMA GotoType ==
  ASSUME TypeOK, NEW p \in Procs, NEW label \in UserPcs \cup WorkerPcs, Goto(p, label)
  PROVE  pc' \in [Procs -> UserPcs \cup WorkerPcs]
  BY DEF TypeOK, Goto

(* The return of addToolchainCluster keeps the types of what it resets.    *)
LEMMA AddReturnsType ==
  ASSUME Base, NEW p \in Procs, cur[p] \in Keys, NEW err \in BOOLEAN,
         AddReturns(p, err)
  PROVE  /\ queue' \subseteq Keys
         /\ pc' \in [Procs -> UserPcs \cup WorkerPcs]
         /\ snap' \in [Procs -> [Keys -> Objects \cup {None}]]
         /\ cur' \in [Procs -> Keys \cup {None}]
         /\ cfg' \in [Procs -> Kubeconfigs \cup {None}]
         /\ cl' \in [Procs -> RestConfigs \cup {None}]
<1>. USE DEF Base, TypeOK
<1>1. queue' \subseteq Keys
  BY DEF AddReturns, Requeue
<1>2. pc' \in [Procs -> UserPcs \cup WorkerPcs]
  BY DEF AddReturns, Goto, UserPcs
<1>3. snap' \in [Procs -> [Keys -> Objects \cup {None}]]
  <2>1. ItemsLeft(p, err) \in [Keys -> Objects \cup {None}]
    BY DEF ItemsLeft
  <2>. QED
    BY <2>1 DEF AddReturns
<1>4. /\ cur' \in [Procs -> Keys \cup {None}]
      /\ cfg' \in [Procs -> Kubeconfigs \cup {None}]
      /\ cl' \in [Procs -> RestConfigs \cup {None}]
  BY DEF AddReturns
<1>. QED
  BY <1>1, <1>2, <1>3, <1>4

LEMMA FaultType == ASSUME TypeOK, Fault PROVE faults' \in 0..MaxFaults
  BY BoundsAssumption DEF TypeOK, Fault

LEMMA ExcuseType ==
  ASSUME TypeOK, NEW p \in Procs, Excuse(p) PROVE stable' \in [Users -> SUBSET Names]
  BY DEF TypeOK, Excuse

LEMMA TypeStep == ASSUME Base, [Next]_vars PROVE TypeOK'
<1>. USE KeysAssumption, NoneAssumption, ProcsAssumption, BoundsAssumption
<1>. USE DEF Base, TypeOK, LocalsOK, LocalOK, envVars, lockVars, addVars, callVars, boundVars, histVars
<1>1. ASSUME NEW k \in Keys, NEW o \in Objects \cup {None}, ToolchainClusterEvent(k, o)
      PROVE  TypeOK'
  BY <1>1 DEF ToolchainClusterEvent, Unsettle
<1>2. ASSUME NEW k \in Keys, NEW s \in Kubeconfigs \cup {None}, SecretChange(k, s)
      PROVE  TypeOK'
  BY <1>2 DEF SecretChange, Unsettle
<1>3. CASE NewToolchainClusterService
  BY <1>3 DEF NewToolchainClusterService
<1>4. ASSUME NEW p \in Procs, NewClusterConfig(p) PROVE TypeOK'
  <2>1. cur[p] \in Keys
    BY <1>4 DEF NewClusterConfig, AddPcs
  <2>2. CASE /\ cfg' = [cfg EXCEPT ![p] = secret[cur[p]]]
             /\ Goto(p, "peek")
             /\ UNCHANGED <<queue, snap, cur, cl, faults, stable>>
    BY <1>4, <2>1, <2>2, Labels, GotoType DEF NewClusterConfig
  <2>. QED
    BY <1>4, <2>1, <2>2, AddReturnsType, FaultType, ExcuseType DEF NewClusterConfig
<1>5. ASSUME NEW p \in Procs, PeekLock(p) PROVE TypeOK'
  BY <1>5, Labels, GotoType DEF PeekLock
<1>6. ASSUME NEW p \in Procs, Peek(p) PROVE TypeOK'
  <2>. DEFINE entry == clusters[NameOf[cur[p]]]
  <2>1. cur[p] \in Keys
    BY <1>6 DEF Peek, AddPcs
  <2>2. entry \in Entry \cup {None}
    BY <2>1
  <2>3. entry # None => entry.client \in RestConfigs
    BY <2>2 DEF Entry
  <2>4. pc' \in [Procs -> UserPcs \cup WorkerPcs]
    BY <1>6, Labels, GotoType DEF Peek
  <2>5. cl' \in [Procs -> RestConfigs \cup {None}]
    BY <1>6, <2>3 DEF Peek, CanReuse
  <2>. QED
    BY <1>6, <2>4, <2>5 DEF Peek
<1>7. ASSUME NEW p \in Procs, NewClient(p) PROVE TypeOK'
  <2>1. cur[p] \in Keys /\ cfg[p].rest \in RestConfigs
    BY <1>7 DEF NewClient, AddPcs, ConfigPcs, Kubeconfigs
  <2>2. CASE cl' = [cl EXCEPT ![p] = CreatedClient(p)] /\ Goto(p, "addLock")
             /\ UNCHANGED <<queue, snap, cur, cfg, faults, stable>>
    BY <1>7, <2>1, <2>2, Labels, GotoType DEF NewClient, CreatedClient
  <2>. QED
    BY <1>7, <2>1, <2>2, AddReturnsType, FaultType, ExcuseType DEF NewClient
<1>8. ASSUME NEW p \in Procs, WriteLock(p) PROVE TypeOK'
  BY <1>8, Labels, GotoType DEF WriteLock
<1>9. ASSUME NEW p \in Procs, AddCachedToolchainCluster(p) PROVE TypeOK'
  <2>1. cur[p] \in Keys /\ snap[p][cur[p]] \in Objects /\ NameOf[cur[p]] \in Names
    BY <1>9 DEF AddCachedToolchainCluster, AddPcs
  <2>2. cfg[p].rest \in RestConfigs /\ cfg[p].ns \in OperatorNamespaces /\ cl[p] \in RestConfigs
    BY <1>9 DEF AddCachedToolchainCluster, ConfigPcs, Kubeconfigs
  <2>3. clusters' \in [Names -> Entry \cup {None}]
    BY <1>9, <2>1, <2>2 DEF AddCachedToolchainCluster, Entry
  <2>4. raced' \subseteq Names
    BY <1>9, <2>1 DEF AddCachedToolchainCluster, Processed
  <2>5. AddReturns(p, FALSE)
    BY <1>9 DEF AddCachedToolchainCluster
  <2>. QED
    BY <1>9, <2>1, <2>3, <2>4, <2>5, AddReturnsType DEF AddCachedToolchainCluster
<1>10. ASSUME NEW u \in Users, LookupStep(u) PROVE TypeOK'
  <2>1. CASE ReadLock(u)
    BY <2>1, Labels, GotoType DEF ReadLock
  <2>2. ASSUME NEW a \in Answers(call[u]) PROVE a \subseteq Names
    BY DEF Answers, Selected
  <2>3. CASE Read(u)
    <3>1. pc' \in [Procs -> UserPcs \cup WorkerPcs]
      BY <2>3, Labels, GotoType DEF Read
    <3>2. result' \in [Users -> SUBSET Names]
      <4>1. ASSUME NEW a \in Answers(call[u]), result' = [result EXCEPT ![u] = a]
            PROVE  result' \in [Users -> SUBSET Names]
        BY <2>2, <4>1
      <4>. QED
        BY <2>3, <4>1 DEF Read
    <3>3. readers' \subseteq Procs
      BY <2>3 DEF Read, ReadersWhileRefreshing
    <3>. QED
      BY <2>3, <3>1, <3>2, <3>3 DEF Read
  <2>4. CASE List(u)
    <3>1. snap' \in [Procs -> [Keys -> Objects \cup {None}]]
      <4>1. [k \in Keys |-> IF k \in Own THEN store[k] ELSE None] \in [Keys -> Objects \cup {None}]
        OBVIOUS
      <4>. QED
        <5>1. \/ UNCHANGED snap
              \/ snap' = [snap EXCEPT ![u] =
                            [k \in Keys |-> IF k \in Own THEN store[k] ELSE None]]
          BY <2>4, Zenon DEF List
        <5>2. ASSUME snap' = [snap EXCEPT ![u] =
                            [k \in Keys |-> IF k \in Own THEN store[k] ELSE None]]
              PROVE  snap' \in [Procs -> [Keys -> Objects \cup {None}]]
          BY <4>1, <5>2
        <5>. QED
          BY <5>1, <5>2
    <3>2. pc' \in [Procs -> UserPcs \cup WorkerPcs]
      BY <2>4, Labels, GotoType DEF List
    <3>3. faults' \in 0..MaxFaults /\ stable' \in [Users -> SUBSET Names]
      BY <2>4, FaultType DEF List
    <3>. QED
      BY <2>4, <3>1, <3>2, <3>3 DEF List
  <2>5. CASE NextItem(u)
    <3>1. pc' \in [Procs -> UserPcs \cup WorkerPcs]
      BY <2>5, Labels, GotoType DEF NextItem
    <3>2. cur' \in [Procs -> Keys \cup {None}]
      <4>1. UNCHANGED cur \/ \E k \in Keys : cur' = [cur EXCEPT ![u] = k]
        BY <2>5, Zenon DEF NextItem
      <4>2. ASSUME NEW k \in Keys, cur' = [cur EXCEPT ![u] = k]
            PROVE  cur' \in [Procs -> Keys \cup {None}]
        BY <4>2
      <4>. QED
        BY <4>1, <4>2
    <3>. QED
      BY <2>5, <3>1, <3>2 DEF NextItem
  <2>6. CASE ReadAgain(u)
    BY <2>2, <2>6, Labels, GotoType DEF ReadAgain
  <2>7. CASE Return(u)
    BY <2>7, Labels, GotoType DEF Return
  <2>. QED
    BY <1>10, <2>1, <2>3, <2>4, <2>5, <2>6, <2>7 DEF LookupStep
<1>11. ASSUME NEW u \in Users, NEW f \in Calls, Call(u, f) PROVE TypeOK'
  BY <1>11, Labels, GotoType DEF Call, Findable
<1>12. ASSUME NEW k \in Keys, ReconcileStart(k) PROVE TypeOK'
  BY <1>12, Labels, GotoType DEF ReconcileStart
<1>13. CASE ReconcileGet
  <2>1. cur[Worker] \in Keys
    BY <1>13 DEF ReconcileGet
  <2>2. CASE /\ snap' = [snap EXCEPT ![Worker][cur[Worker]] = store[cur[Worker]]]
             /\ Goto(Worker, "config")
             /\ UNCHANGED <<queue, cur, cfg, cl, faults>>
    <3>1. snap' \in [Procs -> [Keys -> Objects \cup {None}]]
      BY <2>1, <2>2
    <3>. QED
      BY <1>13, <2>2, <3>1, Labels, GotoType DEF ReconcileGet
  <2>3. CASE Goto(Worker, "deleteLock") /\ UNCHANGED <<queue, addVars, faults>>
    BY <1>13, <2>3, Labels, GotoType DEF ReconcileGet
  <2>. QED
    BY <1>13, <2>1, <2>2, <2>3, AddReturnsType, FaultType DEF ReconcileGet
<1>14. CASE DeleteCachedToolchainCluster
  <2>1. cur[Worker] \in Keys /\ NameOf[cur[Worker]] \in Names
    BY <1>14 DEF DeleteCachedToolchainCluster
  <2>2. clusters' \in [Names -> Entry \cup {None}]
    BY <1>14, <2>1 DEF DeleteCachedToolchainCluster
  <2>3. raced' \subseteq Names
    BY <1>14, <2>1 DEF DeleteCachedToolchainCluster, Processed
  <2>4. AddReturns(Worker, FALSE)
    BY <1>14 DEF DeleteCachedToolchainCluster
  <2>. QED
    BY <1>14, <2>1, <2>2, <2>3, <2>4, AddReturnsType DEF DeleteCachedToolchainCluster
<1>15. CASE UNCHANGED vars
  BY <1>15 DEF vars
<1>. QED
  BY <1>1, <1>2, <1>3, <1>4, <1>5, <1>6, <1>7, <1>8, <1>9, <1>10, <1>11, <1>12, <1>13, <1>14, <1>15
     DEF Next, Environment, AddStep

(***************************************************************************)
(* Steps of one process.                                                   *)
(***************************************************************************)
UserStep(u) == LookupStep(u) \/ \E f \in Calls : Call(u, f)

WorkerStep ==
    \/ \E k \in Keys : ReconcileStart(k)
    \/ ReconcileGet
    \/ DeleteCachedToolchainCluster

StepOf(p) ==
    \/ AddStep(p)
    \/ p \in Users /\ UserStep(p)
    \/ p = Worker /\ WorkerStep

LEMMA NextCases ==
  ASSUME [Next]_vars
  PROVE  \/ Environment
         \/ NewToolchainClusterService
         \/ \E p \in Procs : StepOf(p)
         \/ UNCHANGED vars
  BY Zenon DEF Next, StepOf, UserStep, WorkerStep, Procs

(* A step leaves the local variables of the other processes alone.         *)
LEMMA OthersUnchanged ==
  ASSUME TypeOK, NEW p \in Procs, StepOf(p), NEW q \in Procs, q # p
  PROVE  /\ pc'[q] = pc[q] /\ snap'[q] = snap[q] /\ cur'[q] = cur[q]
         /\ cfg'[q] = cfg[q] /\ cl'[q] = cl[q]
<1>. USE DEF TypeOK, Goto, addVars
<1>1. CASE NewClusterConfig(p)
  BY <1>1 DEF NewClusterConfig, AddReturns
<1>2. CASE PeekLock(p) \/ Peek(p) \/ WriteLock(p)
  BY <1>2 DEF PeekLock, Peek, WriteLock
<1>3. CASE NewClient(p)
  BY <1>3 DEF NewClient, AddReturns
<1>4. CASE AddCachedToolchainCluster(p)
  BY <1>4 DEF AddCachedToolchainCluster, AddReturns
<1>5. CASE p \in Users /\ (ReadLock(p) \/ Read(p) \/ ReadAgain(p) \/ Return(p))
  BY <1>5 DEF ReadLock, Read, ReadAgain, Return
<1>6. CASE p \in Users /\ (List(p) \/ NextItem(p))
  BY <1>6 DEF List, NextItem
<1>7. ASSUME NEW f \in Calls, Call(p, f) PROVE pc'[q] = pc[q] /\ UNCHANGED addVars
  BY <1>7 DEF Call
<1>8. ASSUME NEW k \in Keys, p = Worker, ReconcileStart(k)
      PROVE  pc'[q] = pc[q] /\ cur'[q] = cur[q] /\ UNCHANGED <<snap, cfg, cl>>
  BY <1>8 DEF ReconcileStart
<1>9. CASE p = Worker /\ ReconcileGet
  BY <1>9 DEF ReconcileGet, AddReturns
<1>10. CASE p = Worker /\ DeleteCachedToolchainCluster
  BY <1>10 DEF DeleteCachedToolchainCluster, AddReturns
<1>. QED
  BY <1>1, <1>2, <1>3, <1>4, <1>5, <1>6, <1>7, <1>8, <1>9, <1>10
     DEF StepOf, AddStep, UserStep, LookupStep, WorkerStep

(***************************************************************************)
(* Local variables.                                                        *)
(***************************************************************************)
LEMMA QueueStep == ASSUME Base, [Next]_vars PROVE (queue \subseteq Own)'
<1>. USE KeysAssumption DEF Base, TypeOK, LocalsOK, LocalOK
<1>1. ASSUME NEW k \in Keys, NEW o \in Objects \cup {None}, ToolchainClusterEvent(k, o)
      PROVE  queue' \subseteq Own
  BY <1>1 DEF ToolchainClusterEvent, NamespacePredicate
<1>2. ASSUME NEW k \in Keys, NEW s \in Kubeconfigs \cup {None}, SecretChange(k, s)
      PROVE  UNCHANGED queue
  BY <1>2 DEF SecretChange
<1>3. ASSUME NEW p \in Procs, NEW err \in BOOLEAN, AddReturns(p, err),
             pc[p] \in AddPcs \cup {"get", "deleteLock", "deleting"}
      PROVE  queue' \subseteq Own
  BY <1>3 DEF AddReturns, Requeue
<1>4. ASSUME NEW p \in Procs, AddStep(p) PROVE queue' \subseteq Own
  BY <1>3, <1>4 DEF AddStep, NewClusterConfig, PeekLock, Peek, NewClient, WriteLock,
                    AddCachedToolchainCluster, AddPcs
<1>5. ASSUME NEW u \in Users, UserStep(u) PROVE UNCHANGED queue
  BY <1>5 DEF UserStep, LookupStep, ReadLock, Read, List, NextItem, ReadAgain, Return, Call
<1>6. CASE WorkerStep
  BY <1>3, <1>6 DEF WorkerStep, ReconcileStart, ReconcileGet, DeleteCachedToolchainCluster
<1>. QED
  BY <1>1, <1>2, <1>4, <1>5, <1>6, NextCases
     DEF StepOf, Environment, NewToolchainClusterService, vars

LEMMA LocalStep ==
  ASSUME Base, ClientMatchesConfig, NEW p \in Procs, StepOf(p)
  PROVE  LocalOK(p)'
<1>. USE KeysAssumption, NoneAssumption, ProcsAssumption
<1>. USE DEF Base, TypeOK, LocalsOK, LocalOK, Goto, addVars, UserPcs, WorkerPcs, AddPcs, ConfigPcs
<1>1. ASSUME NEW err \in BOOLEAN, AddReturns(p, err), cur[p] \in Own
      PROVE  LocalOK(p)'
  BY <1>1 DEF AddReturns, ItemsLeft
<1>2. CASE NewClusterConfig(p)
  <2>1. CASE secret[cur[p]] # None /\ cfg' = [cfg EXCEPT ![p] = secret[cur[p]]]
             /\ Goto(p, "peek") /\ UNCHANGED <<queue, snap, cur, cl, faults, stable>>
    BY <1>2, <2>1 DEF NewClusterConfig
  <2>. QED
    BY <1>1, <1>2, <2>1 DEF NewClusterConfig
<1>3. CASE PeekLock(p)
  BY <1>3 DEF PeekLock
<1>14. CASE WriteLock(p)
  <2>1. CASE pc[p] = "addLock"
    BY <1>14, <2>1 DEF WriteLock
  <2>2. CASE pc[p] = "deleteLock"
    BY <1>14, <2>2 DEF WriteLock
  <2>. QED
    BY <1>14, <2>1, <2>2 DEF WriteLock
<1>4. CASE Peek(p)
  BY <1>4 DEF Peek, CanReuse, ClientMatchesConfig
<1>5. CASE NewClient(p)
  <2>1. CASE cl' = [cl EXCEPT ![p] = CreatedClient(p)] /\ Goto(p, "addLock")
             /\ UNCHANGED <<queue, snap, cur, cfg, faults, stable>>
    BY <1>5, <2>1 DEF NewClient, CreatedClient
  <2>. QED
    BY <1>1, <1>5, <2>1 DEF NewClient
<1>6. CASE AddCachedToolchainCluster(p)
  BY <1>1, <1>6 DEF AddCachedToolchainCluster
<1>7. CASE p \in Users /\ (ReadLock(p) \/ Read(p) \/ ReadAgain(p) \/ Return(p))
  BY <1>7 DEF ReadLock, Read, ReadAgain, Return
<1>8. CASE p \in Users /\ List(p)
  BY <1>8 DEF List
<1>9. CASE p \in Users /\ NextItem(p)
  BY <1>9 DEF NextItem
<1>10. ASSUME p \in Users, NEW f \in Calls, Call(p, f) PROVE LocalOK(p)'
  BY <1>10 DEF Call
<1>11. ASSUME p = Worker, NEW k \in Keys, ReconcileStart(k) PROVE LocalOK(p)'
  BY <1>11 DEF ReconcileStart
<1>12. CASE p = Worker /\ ReconcileGet
  <2>1. CASE /\ store[cur[p]] # None
             /\ snap' = [snap EXCEPT ![p][cur[p]] = store[cur[p]]]
             /\ Goto(p, "config")
             /\ UNCHANGED <<queue, cur, cfg, cl, faults>>
    BY <1>12, <2>1 DEF ReconcileGet
  <2>2. CASE Goto(p, "deleteLock") /\ UNCHANGED <<queue, addVars, faults>>
    BY <1>12, <2>2 DEF ReconcileGet
  <2>. QED
    BY <1>1, <1>12, <2>1, <2>2 DEF ReconcileGet
<1>13. CASE p = Worker /\ DeleteCachedToolchainCluster
  BY <1>1, <1>13 DEF DeleteCachedToolchainCluster
<1>. HIDE DEF Base, TypeOK, LocalsOK, LocalOK, Goto, addVars, UserPcs, WorkerPcs, AddPcs, ConfigPcs
<1>. QED
  BY <1>2, <1>3, <1>4, <1>5, <1>6, <1>7, <1>8, <1>9, <1>10, <1>11, <1>12, <1>13, <1>14
     DEF StepOf, AddStep, UserStep, LookupStep, WorkerStep

LEMMA LocalsStep == ASSUME Base, ClientMatchesConfig, [Next]_vars PROVE LocalsOK'
<1>1. ASSUME NEW p \in Procs, StepOf(p) PROVE \A q \in Procs : LocalOK(q)'
  <2>1. LocalOK(p)'
    BY <1>1, LocalStep
  <2>2. ASSUME NEW q \in Procs, q # p PROVE LocalOK(q)'
    BY <1>1, <2>2, OthersUnchanged DEF Base, LocalsOK, LocalOK
  <2>. QED
    BY <2>1, <2>2
<1>2. ASSUME UNCHANGED <<pc, addVars>> PROVE \A q \in Procs : LocalOK(q)'
  BY <1>2 DEF Base, LocalsOK, LocalOK, addVars
<1>3. CASE Environment \/ NewToolchainClusterService \/ UNCHANGED vars
  <2>1. UNCHANGED <<pc, addVars>>
    BY <1>3 DEF Environment, ToolchainClusterEvent, SecretChange,
                NewToolchainClusterService, vars, addVars
  <2>. QED
    BY <1>2, <2>1, QueueStep DEF LocalsOK
<1>. QED
  BY <1>1, <1>2, <1>3, NextCases, QueueStep DEF LocalsOK

(***************************************************************************)
(* Clients and configurations.                                             *)
(***************************************************************************)
LEMMA ClientStep == ASSUME Base, ClientMatchesConfig, [Next]_vars PROVE ClientMatchesConfig'
<1>. USE DEF ClientMatchesConfig
<1>1. ASSUME NEW p \in Procs, AddCachedToolchainCluster(p) PROVE ClientMatchesConfig'
  <2>1. cl[p] = cfg[p].rest
    BY <1>1 DEF AddCachedToolchainCluster, Base, LocalsOK, LocalOK
  <2>. QED
    BY <1>1, <2>1 DEF AddCachedToolchainCluster, Base, TypeOK
<1>2. CASE DeleteCachedToolchainCluster
  BY <1>2 DEF DeleteCachedToolchainCluster, Base, TypeOK
<1>3. ASSUME NEW p \in Procs, StepOf(p), ~AddCachedToolchainCluster(p),
             ~DeleteCachedToolchainCluster
      PROVE  UNCHANGED clusters
  BY <1>3 DEF StepOf, AddStep, UserStep, LookupStep, WorkerStep, NewClusterConfig, PeekLock,
              Peek, NewClient, WriteLock, ReadLock, Read, List, NextItem, ReadAgain, Return,
              Call, ReconcileStart, ReconcileGet
<1>4. CASE Environment \/ NewToolchainClusterService \/ UNCHANGED vars
  BY <1>4 DEF Environment, ToolchainClusterEvent, SecretChange, NewToolchainClusterService, vars
<1>. QED
  BY <1>1, <1>2, <1>3, <1>4, NextCases

(***************************************************************************)
(* The lock.                                                               *)
(***************************************************************************)
LockOK(p) ==
    /\ p \in readers <=> pc[p] \in ReadPcs
    /\ p = writer <=> pc[p] \in WritePcs

LEMMA LockStep == ASSUME Base, LockDiscipline, [Next]_vars PROVE LockDiscipline'
<1>. USE NoneAssumption DEF ReadPcs, WritePcs
<1>1. \A p \in Procs : LockOK(p)
  BY DEF LockDiscipline, LockOK
<1>2. ASSUME NEW p \in Procs, StepOf(p) PROVE LockOK(p)'
  <2>. USE <1>1 DEF LockOK, Base, TypeOK, Goto, lockVars
  <2>1. ASSUME NEW err \in BOOLEAN, AddReturns(p, err), p \notin readers', p # writer'
        PROVE  LockOK(p)'
    BY <2>1 DEF AddReturns
  <2>2. CASE NewClusterConfig(p)
    <3>1. CASE Goto(p, "peek")
      BY <2>2, <3>1 DEF NewClusterConfig
    <3>. QED
      BY <2>1, <2>2, <3>1 DEF NewClusterConfig
  <2>3. CASE PeekLock(p)
    BY <2>3 DEF PeekLock
  <2>13. CASE WriteLock(p)
    <3>1. pc'[p] \in WritePcs /\ p \notin readers' /\ writer' = p
      BY <2>13 DEF WriteLock
    <3>. QED
      BY <3>1
  <2>4. CASE Peek(p)
    BY <2>4 DEF Peek
  <2>5. CASE NewClient(p)
    BY <2>1, <2>5 DEF NewClient
  <2>6. CASE AddCachedToolchainCluster(p)
    BY <2>1, <2>6 DEF AddCachedToolchainCluster
  <2>7. CASE p \in Users /\ (ReadLock(p) \/ Read(p) \/ ReadAgain(p) \/ Return(p))
    BY <2>7 DEF ReadLock, Read, ReadersWhileRefreshing, ReadAgain, Return
  <2>8. CASE p \in Users /\ (List(p) \/ NextItem(p))
    BY <2>8 DEF List, NextItem
  <2>9. ASSUME p \in Users, NEW f \in Calls, Call(p, f) PROVE LockOK(p)'
    BY <2>9 DEF Call
  <2>10. ASSUME p = Worker, NEW k \in Keys, ReconcileStart(k) PROVE LockOK(p)'
    BY <2>10 DEF ReconcileStart
  <2>11. CASE p = Worker /\ ReconcileGet
    <3>1. CASE Goto(p, "config") \/ Goto(p, "deleteLock")
      BY <2>11, <3>1 DEF ReconcileGet
    <3>. QED
      BY <2>1, <2>11, <3>1 DEF ReconcileGet
  <2>12. CASE p = Worker /\ DeleteCachedToolchainCluster
    BY <2>1, <2>12 DEF DeleteCachedToolchainCluster
  <2>. HIDE DEF LockOK, Base, TypeOK, Goto, lockVars
  <2>. QED
    BY <1>2, <2>2, <2>3, <2>4, <2>5, <2>6, <2>7, <2>8, <2>9, <2>10, <2>11, <2>12, <2>13
       DEF StepOf, AddStep, UserStep, LookupStep, WorkerStep
<1>3. ASSUME NEW p \in Procs, StepOf(p), NEW q \in Procs, q # p PROVE LockOK(q)'
  <2>1. (q \in readers' <=> q \in readers) /\ (q = writer' <=> q = writer)
    <3>. USE <1>1, <1>3 DEF LockOK
    <3>1. ASSUME UNCHANGED lockVars
          PROVE  (q \in readers' <=> q \in readers) /\ (q = writer' <=> q = writer)
      BY <3>1 DEF lockVars
    <3>. QED
      BY <3>1 DEF StepOf, AddStep, UserStep, LookupStep, WorkerStep, NewClusterConfig,
              PeekLock, Peek, NewClient, WriteLock, AddCachedToolchainCluster, ReadLock, Read,
              ReadersWhileRefreshing, List, NextItem, ReadAgain, Return, Call, ReconcileStart,
              ReconcileGet, DeleteCachedToolchainCluster
  <2>. QED
    BY <1>1, <1>3, <2>1, OthersUnchanged DEF LockOK, Base
<1>4. CASE Environment \/ NewToolchainClusterService \/ UNCHANGED vars
  BY <1>4 DEF Environment, ToolchainClusterEvent, SecretChange, NewToolchainClusterService,
              vars, lockVars, LockDiscipline
<1>. QED
  BY <1>2, <1>3, <1>4, NextCases DEF LockDiscipline, LockOK

(***************************************************************************)
(* Consistency once the controller is done with a resource.                *)
(***************************************************************************)
Matches(entry, o) == IF o = None THEN entry = None ELSE entry # None /\ entry.object = o

SettledOK(k) ==
    /\ k \notin queue /\ ~WorkingOn(k) /\ NameOf[k] \notin raced =>
           Matches(clusters[NameOf[k]], store[k]) /\ ~StaleRefresh(k)
    /\ k \notin queue /\ WorkingOn(k) /\ pc[Worker] \in AddPcs =>
           snap[Worker][k] = store[k]
    /\ k \notin queue /\ WorkingOn(k) /\ pc[Worker] \in {"deleteLock", "deleting"} =>
           store[k] = None

Settled == \A k \in Own : SettledOK(k)

LEMMA SettledEnvironment ==
  ASSUME Base, Settled, NEW k \in Own,
         Environment \/ NewToolchainClusterService \/ UNCHANGED vars
  PROVE  SettledOK(k)'
<1>. USE KeysAssumption DEF Settled, SettledOK, Matches, WorkingOn, StaleRefresh
<1>1. ASSUME NEW j \in Keys, NEW o \in Objects \cup {None}, ToolchainClusterEvent(j, o)
      PROVE  SettledOK(k)'
  <2>1. CASE j = k
    BY <1>1, <2>1 DEF ToolchainClusterEvent, NamespacePredicate
  <2>2. CASE j # k
    BY <1>1, <2>2 DEF ToolchainClusterEvent, NamespacePredicate, addVars, Base, TypeOK
  <2>. QED
    BY <2>1, <2>2
<1>2. ASSUME NEW j \in Keys, NEW s \in Kubeconfigs \cup {None}, SecretChange(j, s)
      PROVE  SettledOK(k)'
  BY <1>2 DEF SecretChange, addVars
<1>3. CASE NewToolchainClusterService \/ UNCHANGED vars
  BY <1>3 DEF NewToolchainClusterService, vars, envVars, addVars, histVars
<1>. QED
  BY <1>1, <1>2, <1>3 DEF Environment

LEMMA SettledUser ==
  ASSUME Base, Settled, NEW u \in Users, StepOf(u), NEW k \in Own
  PROVE  SettledOK(k)'
<1>. USE KeysAssumption, NoneAssumption, ProcsAssumption
<1>1. pc'[Worker] = pc[Worker] /\ cur'[Worker] = cur[Worker] /\ snap'[Worker] = snap[Worker]
  BY OthersUnchanged DEF Base
<1>2. UNCHANGED <<store, queue, raced>>
  BY DEF StepOf, AddStep, UserStep, LookupStep, NewClusterConfig, PeekLock, Peek, NewClient,
         WriteLock, AddCachedToolchainCluster, ReadLock, Read, List, NextItem, ReadAgain, Return,
         Call, AddReturns, Requeue, Processed, envVars, histVars
<1>3. snap'[u][k] \in {None, store[k], snap[u][k]}
  <2>1. ASSUME NEW err, AddReturns(u, err) PROVE snap'[u][k] \in {None, snap[u][k]}
    BY <2>1 DEF AddReturns, ItemsLeft, Base, TypeOK
  <2>2. CASE List(u)
    BY <2>2 DEF List, Base, TypeOK
  <2>3. CASE UNCHANGED snap
    BY <2>3
  <2>. QED
    BY <2>1, <2>2, <2>3
       DEF StepOf, AddStep, UserStep, LookupStep, NewClusterConfig, PeekLock, Peek, NewClient,
           WriteLock, AddCachedToolchainCluster, ReadLock, Read, NextItem, ReadAgain, Return,
           Call, addVars
<1>4. ~StaleRefresh(k) => ~StaleRefresh(k)'
  BY <1>2, <1>3, OthersUnchanged DEF StaleRefresh, Base
<1>5. \/ clusters'[NameOf[k]] = clusters[NameOf[k]]
      \/ clusters'[NameOf[k]] # None /\ clusters'[NameOf[k]].object = snap[u][k] /\ snap[u][k] # None
  <2>1. CASE AddCachedToolchainCluster(u)
    <3>1. cur[u] \in Own /\ snap[u][cur[u]] # None
      BY <2>1 DEF AddCachedToolchainCluster, Base, LocalsOK, LocalOK, AddPcs
    <3>2. CASE cur[u] = k
      <4>1. clusters'[NameOf[k]] = [rest |-> cfg[u].rest, ns |-> cfg[u].ns,
                                    client |-> cl[u], object |-> snap[u][k]]
        BY <2>1, <3>2 DEF AddCachedToolchainCluster, Base, TypeOK
      <4>2. clusters'[NameOf[k]] \in Entry
        BY <2>1, <3>1, <3>2, <4>1
           DEF AddCachedToolchainCluster, Base, TypeOK, LocalsOK, LocalOK, ConfigPcs,
               Kubeconfigs, Entry
      <4>. QED
        BY <3>1, <3>2, <4>1, <4>2
    <3>3. CASE cur[u] # k
      BY <2>1, <3>1, <3>3 DEF AddCachedToolchainCluster, Base, TypeOK
    <3>. QED
      BY <3>2, <3>3
  <2>2. CASE ~AddCachedToolchainCluster(u)
    BY <2>2 DEF StepOf, AddStep, UserStep, LookupStep, NewClusterConfig, PeekLock, Peek, NewClient,
           WriteLock, ReadLock, Read, List, NextItem, ReadAgain, Return, Call
  <2>. QED
    BY <2>1, <2>2
<1>. QED
  BY <1>1, <1>2, <1>4, <1>5 DEF Settled, SettledOK, Matches, WorkingOn, StaleRefresh

LEMMA SettledWorker ==
  ASSUME Base, Settled, StepOf(Worker), NEW k \in Own
  PROVE  SettledOK(k)'
<1>. USE KeysAssumption, NoneAssumption, ProcsAssumption
<1>1. \A u \in Users : snap'[u] = snap[u]
  BY OthersUnchanged DEF Base
<1>2. UNCHANGED store
  BY DEF StepOf, AddStep, WorkerStep, NewClusterConfig, PeekLock, Peek, NewClient, WriteLock,
         AddCachedToolchainCluster, ReconcileStart, ReconcileGet, DeleteCachedToolchainCluster,
         envVars
<1>3. StaleRefresh(k)' <=> StaleRefresh(k)
  BY <1>1, <1>2 DEF StaleRefresh
<1>. USE <1>2, <1>3
<1>. USE DEF Settled, SettledOK, WorkingOn, Goto, addVars, histVars, AddPcs
<1>4. ASSUME AddReturns(Worker, TRUE), UNCHANGED <<clusters, raced>>, pc[Worker] # "idle"
      PROVE  SettledOK(k)'
  BY <1>4 DEF AddReturns, Requeue, Base, TypeOK
<1>5. CASE NewClusterConfig(Worker)
  <2>1. CASE Goto(Worker, "peek") /\ UNCHANGED <<queue, snap, cur>>
    BY <1>5, <2>1 DEF NewClusterConfig, Base, TypeOK
  <2>. QED
    BY <1>4, <1>5, <2>1 DEF NewClusterConfig
<1>6. CASE PeekLock(Worker)
  BY <1>6 DEF PeekLock, Base, TypeOK
<1>7. CASE Peek(Worker)
  BY <1>7 DEF Peek, Base, TypeOK
<1>8. CASE NewClient(Worker)
  <2>1. CASE Goto(Worker, "addLock") /\ UNCHANGED <<queue, snap, cur>>
    BY <1>8, <2>1 DEF NewClient, Base, TypeOK
  <2>. QED
    BY <1>4, <1>8, <2>1 DEF NewClient
<1>9. CASE WriteLock(Worker)
  <2>1. CASE pc[Worker] = "addLock"
    BY <1>9, <2>1 DEF WriteLock, Base, TypeOK
  <2>2. CASE pc[Worker] = "deleteLock"
    BY <1>9, <2>2 DEF WriteLock, Base, TypeOK
  <2>. QED
    BY <1>9, <2>1, <2>2 DEF WriteLock
<1>10. CASE AddCachedToolchainCluster(Worker)
  <2>1. cur[Worker] \in Own /\ snap[Worker][cur[Worker]] # None
    BY <1>10 DEF AddCachedToolchainCluster, Base, LocalsOK, LocalOK
  <2>2. pc'[Worker] = "idle" /\ UNCHANGED queue
    BY <1>10 DEF AddCachedToolchainCluster, AddReturns, Requeue, Base, TypeOK
  <2>3. CASE cur[Worker] = k
    <3>1. clusters'[NameOf[k]] = [rest |-> cfg[Worker].rest, ns |-> cfg[Worker].ns,
                                  client |-> cl[Worker], object |-> snap[Worker][k]]
      BY <1>10, <2>3 DEF AddCachedToolchainCluster, Base, TypeOK
    <3>2. clusters'[NameOf[k]] \in Entry
      BY <1>10, <2>1, <2>3, <3>1
         DEF AddCachedToolchainCluster, Base, TypeOK, LocalsOK, LocalOK, ConfigPcs,
             Kubeconfigs, Entry
    <3>3. k \notin queue => snap[Worker][k] = store[k]
      BY <1>10, <2>3 DEF AddCachedToolchainCluster
    <3>4. NameOf[k] \notin raced' => ~StaleRefresh(k)
      BY <1>10, <2>3 DEF AddCachedToolchainCluster, Processed
    <3>. QED
      BY <2>1, <2>2, <2>3, <3>1, <3>2, <3>3, <3>4 DEF Matches
  <2>4. CASE cur[Worker] # k
    <3>1. NameOf[cur[Worker]] # NameOf[k]
      BY <2>1, <2>4
    <3>2. clusters'[NameOf[k]] = clusters[NameOf[k]]
      BY <1>10, <3>1 DEF AddCachedToolchainCluster, Base, TypeOK
    <3>3. NameOf[k] \in raced' <=> NameOf[k] \in raced
      BY <1>10, <3>1 DEF AddCachedToolchainCluster, Processed
    <3>. QED
      BY <2>2, <2>4, <3>2, <3>3
  <2>. QED
    BY <2>3, <2>4
<1>11. ASSUME NEW j \in Keys, ReconcileStart(j) PROVE SettledOK(k)'
  BY <1>11 DEF ReconcileStart, Base, TypeOK
<1>12. CASE ReconcileGet
  <2>1. CASE /\ store[cur[Worker]] # None
             /\ snap' = [snap EXCEPT ![Worker][cur[Worker]] = store[cur[Worker]]]
             /\ Goto(Worker, "config")
             /\ UNCHANGED <<queue, cur, cfg, cl, faults>>
    BY <1>12, <2>1 DEF ReconcileGet, Base, TypeOK
  <2>2. CASE /\ store[cur[Worker]] = None /\ Goto(Worker, "deleteLock")
             /\ UNCHANGED <<queue, addVars, faults>>
    BY <1>12, <2>2 DEF ReconcileGet, Base, TypeOK
  <2>. QED
    BY <1>4, <1>12, <2>1, <2>2 DEF ReconcileGet
<1>13. CASE DeleteCachedToolchainCluster
  <2>1. cur[Worker] \in Own
    BY <1>13 DEF DeleteCachedToolchainCluster, Base, LocalsOK, LocalOK
  <2>2. pc'[Worker] = "idle" /\ UNCHANGED queue
    BY <1>13 DEF DeleteCachedToolchainCluster, AddReturns, Requeue, Base, TypeOK
  <2>3. CASE cur[Worker] = k
    <3>1. clusters'[NameOf[k]] = None
      BY <1>13, <2>3 DEF DeleteCachedToolchainCluster, Base, TypeOK
    <3>2. k \notin queue => store[k] = None
      BY <1>13, <2>3 DEF DeleteCachedToolchainCluster
    <3>3. NameOf[k] \notin raced' => ~StaleRefresh(k)
      BY <1>13, <2>3 DEF DeleteCachedToolchainCluster, Processed
    <3>. QED
      BY <2>2, <2>3, <3>1, <3>2, <3>3 DEF Matches
  <2>4. CASE cur[Worker] # k
    <3>1. NameOf[cur[Worker]] # NameOf[k]
      BY <2>1, <2>4
    <3>2. clusters'[NameOf[k]] = clusters[NameOf[k]]
      BY <1>13, <3>1 DEF DeleteCachedToolchainCluster, Base, TypeOK
    <3>3. NameOf[k] \in raced' <=> NameOf[k] \in raced
      BY <1>13, <3>1 DEF DeleteCachedToolchainCluster, Processed
    <3>. QED
      BY <2>2, <2>4, <3>2, <3>3
  <2>. QED
    BY <2>3, <2>4
<1>. HIDE DEF Settled, SettledOK, WorkingOn, Goto, addVars, histVars, AddPcs
<1>. QED
  BY <1>5, <1>6, <1>7, <1>8, <1>9, <1>10, <1>11, <1>12, <1>13 DEF StepOf, AddStep, WorkerStep

(***************************************************************************)
(* What a lookup may count on.                                             *)
(***************************************************************************)
Deleting(k) == pc[Worker] \in {"deleteLock", "deleting"} /\ cur[Worker] = k

LookupOK(u, k) ==
    NameOf[k] \in stable[u] =>
        /\ registered /\ store[k] # None /\ secret[k] # None /\ ~Deleting(k)
        /\ pc[u] \in AddPcs \cup {"next"} =>
               clusters[NameOf[k]] # None \/ snap[u][k] # None
        /\ pc[u] \in {"readLockAgain", "readAgain"} => clusters[NameOf[k]] # None
        /\ pc[u] = "done" =>
               /\ call[u].kind = "name" /\ call[u].name = NameOf[k] => NameOf[k] \in result[u]
               /\ call[u].kind \in {"host", "members"} => result[u] # {}

Lookups ==
    /\ \A u \in Users, k \in Own : LookupOK(u, k)
    /\ \A u \in Users : \A n \in stable[u] : \E k \in Own : n = NameOf[k]

LEMMA LookupsEnvironment ==
  ASSUME Base, Lookups, Environment \/ NewToolchainClusterService \/ UNCHANGED vars,
         NEW u \in Users, NEW k \in Own
  PROVE  LookupOK(u, k)' /\ stable'[u] \subseteq stable[u]
<1>. USE KeysAssumption DEF Lookups, LookupOK, Deleting
<1>1. ASSUME NEW j \in Keys, NEW o \in Objects \cup {None}, ToolchainClusterEvent(j, o)
      PROVE  LookupOK(u, k)' /\ stable'[u] \subseteq stable[u]
  BY <1>1 DEF ToolchainClusterEvent, Unsettle, addVars, callVars, Base, TypeOK
<1>2. ASSUME NEW j \in Keys, NEW s \in Kubeconfigs \cup {None}, SecretChange(j, s)
      PROVE  LookupOK(u, k)' /\ stable'[u] \subseteq stable[u]
  BY <1>2 DEF SecretChange, Unsettle, addVars, callVars, Base, TypeOK
<1>3. CASE NewToolchainClusterService
  BY <1>3 DEF NewToolchainClusterService, envVars, addVars, callVars, histVars
<1>4. CASE UNCHANGED vars
  BY <1>4 DEF vars, envVars, addVars, callVars, histVars
<1>. QED
  BY <1>1, <1>2, <1>3, <1>4 DEF Environment

(* Only the deletion of k removes its entry, and k is not being deleted.   *)
LEMMA EntryStays ==
  ASSUME Base, NEW p \in Procs, StepOf(p), NEW k \in Own, ~Deleting(k),
         clusters[NameOf[k]] # None
  PROVE  clusters'[NameOf[k]] # None
<1>. USE KeysAssumption, NoneAssumption
<1>1. CASE AddCachedToolchainCluster(p)
  <2>1. cur[p] \in Own /\ snap[p][cur[p]] # None
    BY <1>1 DEF AddCachedToolchainCluster, Base, LocalsOK, LocalOK, AddPcs
  <2>. DEFINE entry == [rest |-> cfg[p].rest, ns |-> cfg[p].ns,
                        client |-> cl[p], object |-> snap[p][cur[p]]]
  <2>2. entry \in Entry
    BY <1>1, <2>1 DEF AddCachedToolchainCluster, Base, TypeOK, LocalsOK, LocalOK, ConfigPcs,
                      Kubeconfigs, Entry
  <2>3. clusters' = [clusters EXCEPT ![NameOf[cur[p]]] = entry]
    BY <1>1 DEF AddCachedToolchainCluster
  <2>. HIDE DEF entry
  <2>. QED
    BY <2>1, <2>2, <2>3 DEF Base, TypeOK
<1>2. CASE p = Worker /\ DeleteCachedToolchainCluster
  <2>1. cur[p] \in Own /\ cur[p] # k
    BY <1>2 DEF DeleteCachedToolchainCluster, Base, LocalsOK, LocalOK, Deleting
  <2>. QED
    BY <1>2, <2>1 DEF DeleteCachedToolchainCluster, Base, TypeOK
<1>. QED
  BY <1>1, <1>2
     DEF StepOf, AddStep, UserStep, LookupStep, WorkerStep, NewClusterConfig, PeekLock, Peek,
         NewClient, WriteLock, ReadLock, Read, List, NextItem, ReadAgain, Return, Call,
         ReconcileStart, ReconcileGet

(* A step of another process keeps what u counts on.                       *)
LEMMA LookupsOther ==
  ASSUME Base, Lookups, NEW p \in Procs, StepOf(p), NEW u \in Users, u # p, NEW k \in Own
  PROVE  LookupOK(u, k)' /\ stable'[u] = stable[u]
<1>. USE KeysAssumption, NoneAssumption, ProcsAssumption
<1>1. UNCHANGED <<store, secret, registered>>
  BY DEF StepOf, AddStep, UserStep, LookupStep, WorkerStep, NewClusterConfig, PeekLock, Peek,
         NewClient, WriteLock, AddCachedToolchainCluster, ReadLock, Read, List, NextItem,
         ReadAgain, Return, Call, ReconcileStart, ReconcileGet, DeleteCachedToolchainCluster,
         envVars
<1>2. stable'[u] = stable[u]
  <2>1. CASE UNCHANGED stable
    BY <2>1
  <2>2. CASE Excuse(p)
    BY <2>2 DEF Excuse
  <2>3. ASSUME NEW names, stable' = [stable EXCEPT ![p] = names] PROVE stable'[u] = stable[u]
    BY <2>3 DEF Base, TypeOK
  <2>4. ASSUME NEW f \in Calls, Call(p, f) PROVE stable'[u] = stable[u]
    BY <2>3, <2>4 DEF Call
  <2>. QED
    BY <2>1, <2>2, <2>3, <2>4
       DEF StepOf, AddStep, UserStep, LookupStep, WorkerStep, NewClusterConfig, PeekLock, Peek,
           NewClient, WriteLock, AddCachedToolchainCluster, ReadLock, Read, List, NextItem,
           ReadAgain, Return, ReconcileStart, ReconcileGet, DeleteCachedToolchainCluster,
           histVars
<1>3. call'[u] = call[u] /\ result'[u] = result[u]
  <2>1. CASE UNCHANGED callVars
    BY <2>1 DEF callVars
  <2>2. ASSUME NEW a, UNCHANGED call, result' = [result EXCEPT ![p] = a]
        PROVE  call'[u] = call[u] /\ result'[u] = result[u]
    BY <2>2 DEF Base, TypeOK
  <2>3. CASE Read(p)
    BY <2>2, <2>3 DEF Read
  <2>4. CASE ReadAgain(p)
    BY <2>2, <2>4 DEF ReadAgain
  <2>5. ASSUME Return(p) \/ \E f \in Calls : Call(p, f)
        PROVE  call'[u] = call[u] /\ result'[u] = result[u]
    BY <2>5 DEF Return, Call, Base, TypeOK
  <2>. QED
    BY <2>1, <2>3, <2>4, <2>5
       DEF StepOf, AddStep, UserStep, LookupStep, WorkerStep, NewClusterConfig, PeekLock, Peek,
           NewClient, WriteLock, AddCachedToolchainCluster, ReadLock, List, NextItem,
           ReconcileStart, ReconcileGet, DeleteCachedToolchainCluster
<1>4. pc'[u] = pc[u] /\ snap'[u] = snap[u]
  BY OthersUnchanged DEF Base
<1>5. NameOf[k] \in stable[u] => ~Deleting(k)'
  <2>1. CASE p # Worker
    BY <2>1, OthersUnchanged DEF Base, Lookups, LookupOK, Deleting
  <2>2. CASE p = Worker
    <3>. SUFFICES ASSUME NameOf[k] \in stable[u] PROVE ~Deleting(k)'
      OBVIOUS
    <3>1. store[k] # None /\ ~Deleting(k)
      BY DEF Lookups, LookupOK
    <3>2. ASSUME NEW err, AddReturns(p, err) PROVE ~Deleting(k)'
      BY <2>2, <3>2 DEF AddReturns, Goto, Deleting, Base, TypeOK
    <3>3. ASSUME NEW label \in {"get", "config", "peek", "peeking", "newClient", "addLock", "adding"},
                 Goto(p, label)
          PROVE  ~Deleting(k)'
      BY <2>2, <3>3 DEF Goto, Deleting, Base, TypeOK
    <3>4. CASE WriteLock(p)
      BY <2>2, <3>1, <3>4 DEF WriteLock, Goto, Deleting, addVars, Base, TypeOK
    <3>5. CASE ReconcileGet
      <4>1. cur[p] # k \/ store[cur[p]] # None
        BY <3>1
      <4>2. CASE UNCHANGED cur /\ cur[p] # k
        BY <2>2, <4>2 DEF Deleting
      <4>. QED
        BY <2>2, <3>2, <3>3, <3>5, <4>1, <4>2 DEF ReconcileGet, addVars
    <3>. QED
      BY <2>2, <3>2, <3>3, <3>4, <3>5
         DEF StepOf, AddStep, WorkerStep, NewClusterConfig, PeekLock, Peek, NewClient,
             AddCachedToolchainCluster, ReconcileStart, DeleteCachedToolchainCluster
  <2>. QED
    BY <2>1, <2>2
<1>6. ~Deleting(k) /\ clusters[NameOf[k]] # None => clusters'[NameOf[k]] # None
  BY EntryStays
<1>. QED
  BY <1>1, <1>2, <1>3, <1>4, <1>5, <1>6 DEF Lookups, LookupOK

(* A step of u keeps what u counts on.                                     *)
LEMMA LookupsOwn ==
  ASSUME Base, Lookups, NEW u \in Users, StepOf(u), NEW k \in Own
  PROVE  /\ LookupOK(u, k)'
         /\ stable'[u] \subseteq stable[u] \cup Findable
<1>. USE KeysAssumption, NoneAssumption, ProcsAssumption
<1>1. UNCHANGED <<store, secret, registered>>
  BY DEF StepOf, AddStep, UserStep, LookupStep, WorkerStep, NewClusterConfig, PeekLock, Peek,
         NewClient, WriteLock, AddCachedToolchainCluster, ReadLock, Read, List, NextItem,
         ReadAgain, Return, Call, envVars
<1>2. Deleting(k)' <=> Deleting(k)
  BY OthersUnchanged DEF Base, Deleting
<1>3. ~Deleting(k) /\ clusters[NameOf[k]] # None => clusters'[NameOf[k]] # None
  BY EntryStays
<1>. DEFINE Goal == LookupOK(u, k)' /\ stable'[u] \subseteq stable[u] \cup Findable
<1>4. LookupOK(u, k)
  BY DEF Lookups
<1>. USE <1>1, <1>2, <1>3, <1>4
<1>. USE DEF LookupOK, Base, TypeOK, Goto, addVars, callVars, histVars, AddPcs
<1>5. ASSUME NEW err, AddReturns(u, err), UNCHANGED callVars, stable'[u] \subseteq stable[u],
             pc[u] \in AddPcs,
             NameOf[k] \in stable'[u] => cur[u] # k \/ clusters'[NameOf[k]] # None
      PROVE  Goal
  BY <1>5 DEF AddReturns, ItemsLeft
<1>6. CASE NewClusterConfig(u)
  <2>1. CASE Goto(u, "peek") /\ UNCHANGED <<snap, stable>>
    BY <1>6, <2>1 DEF NewClusterConfig
  <2>2. CASE AddReturns(u, TRUE) /\ secret[cur[u]] = None /\ UNCHANGED stable
    BY <1>5, <1>6, <2>2 DEF NewClusterConfig
  <2>3. CASE AddReturns(u, TRUE) /\ Excuse(u)
    <3>1. stable'[u] = stable[u] \ {NameOf[cur[u]]}
      BY <2>3 DEF Excuse
    <3>. QED
      BY <1>5, <1>6, <2>3, <3>1 DEF NewClusterConfig
  <2>. QED
    BY <1>6, <2>1, <2>2, <2>3 DEF NewClusterConfig
<1>7. CASE PeekLock(u)
  BY <1>7 DEF PeekLock
<1>8. CASE Peek(u)
  BY <1>8 DEF Peek
<1>9. CASE NewClient(u)
  <2>1. CASE Goto(u, "addLock") /\ UNCHANGED <<snap, stable>>
    BY <1>9, <2>1 DEF NewClient
  <2>2. CASE AddReturns(u, TRUE) /\ Excuse(u)
    <3>1. stable'[u] = stable[u] \ {NameOf[cur[u]]}
      BY <2>2 DEF Excuse
    <3>. QED
      BY <1>5, <1>9, <2>2, <3>1 DEF NewClient
  <2>. QED
    BY <1>9, <2>1, <2>2 DEF NewClient
<1>10. CASE WriteLock(u)
  <2>1. pc[u] = "addLock"
    BY <1>10 DEF WriteLock, LocalsOK, LocalOK, UserPcs
  <2>. QED
    BY <1>10, <2>1 DEF WriteLock
<1>11. CASE AddCachedToolchainCluster(u)
  <2>1. AddReturns(u, FALSE) /\ UNCHANGED <<callVars, stable>> /\ pc[u] \in AddPcs
    BY <1>11 DEF AddCachedToolchainCluster
  <2>2. cur[u] = k => clusters'[NameOf[k]] # None
    <3>. SUFFICES ASSUME cur[u] = k PROVE clusters'[NameOf[k]] # None
      OBVIOUS
    <3>1. clusters'[NameOf[k]] = [rest |-> cfg[u].rest, ns |-> cfg[u].ns,
                                  client |-> cl[u], object |-> snap[u][k]]
      BY <1>11 DEF AddCachedToolchainCluster
    <3>2. clusters'[NameOf[k]] \in Entry
      BY <1>11, <3>1 DEF AddCachedToolchainCluster, LocalsOK, LocalOK, ConfigPcs, Kubeconfigs, Entry
    <3>. QED
      BY <3>2
  <2>. QED
    BY <1>5, <2>1, <2>2
<1>12. CASE ReadLock(u)
  <2>1. CASE pc[u] = "readLock"
    BY <1>12, <2>1 DEF ReadLock
  <2>2. CASE pc[u] = "readLockAgain"
    BY <1>12, <2>2 DEF ReadLock
  <2>. QED
    BY <1>12, <2>1, <2>2 DEF ReadLock
<1>13. ASSUME NEW a \in Answers(call[u]),
              call[u].kind = "name" /\ call[u].name = NameOf[k] => NameOf[k] \in Selected(call[u]),
              Selected(call[u]) # {}
       PROVE  /\ call[u].kind = "name" /\ call[u].name = NameOf[k] => NameOf[k] \in a
              /\ a # {}
  <2>1. CASE call[u].kind = "host"
    <3>1. \E n \in Selected(call[u]) : a = {n}
      <4>1. Answers(call[u]) = {{n} : n \in Selected(call[u])}
        BY <1>13, <2>1 DEF Answers
      <4>. QED
        BY <1>13, <4>1
    <3>. QED
      BY <2>1, <3>1
  <2>2. CASE call[u].kind # "host"
    <3>1. a = Selected(call[u])
      BY <2>2 DEF Answers
    <3>. QED
      BY <1>13, <3>1
  <2>. QED
    BY <2>1, <2>2
<1>14. CASE Read(u)
  <2>1. CASE Goto(u, "done") /\ NameOf[k] \in stable[u]
    <3>1. Selected(call[u]) # {}
      BY <1>14, <2>1 DEF Read
    <3>2. call[u].kind = "name" /\ call[u].name = NameOf[k] => NameOf[k] \in Selected(call[u])
      BY <3>1 DEF Selected
    <3>3. \E a \in Answers(call[u]) : result' = [result EXCEPT ![u] = a]
      BY <1>14, <3>1 DEF Read
    <3>4. PICK a \in Answers(call[u]) : result' = [result EXCEPT ![u] = a]
      BY <3>3
    <3>5. result'[u] = a
      BY <3>4
    <3>. QED
      BY <1>13, <1>14, <2>1, <3>1, <3>2, <3>5 DEF Read
  <2>2. CASE Goto(u, "list") \/ NameOf[k] \notin stable[u]
    BY <1>14, <2>2 DEF Read
  <2>. QED
    BY <1>14, <2>1, <2>2 DEF Read
<1>15. CASE List(u)
  BY <1>15 DEF List
<1>16. CASE NextItem(u)
  <2>1. CASE Goto(u, "config")
    BY <1>16, <2>1 DEF NextItem
  <2>2. CASE snap[u] = NoObjects /\ Goto(u, "readLockAgain")
    BY <1>16, <2>2 DEF NextItem, NoObjects
  <2>. QED
    BY <1>16, <2>1, <2>2 DEF NextItem
<1>17. CASE ReadAgain(u)
  <2>1. CASE NameOf[k] \in stable[u]
    <3>1. NameOf[k] \in Names /\ clusters[NameOf[k]] # None
      BY <1>17, <2>1 DEF ReadAgain
    <3>2. /\ call[u].kind = "name" /\ call[u].name = NameOf[k] => NameOf[k] \in Selected(call[u])
          /\ call[u].kind \in {"host", "members"} => NameOf[k] \in Selected(call[u])
      BY <3>1 DEF Selected
    <3>3. PICK a \in Answers(call[u]) : result' = [result EXCEPT ![u] = a]
      BY <1>17 DEF ReadAgain
    <3>4. result'[u] = a
      BY <3>3
    <3>. QED
      BY <1>13, <1>17, <2>1, <3>2, <3>4 DEF ReadAgain
  <2>2. CASE NameOf[k] \notin stable[u]
    BY <1>17, <2>2 DEF ReadAgain
  <2>. QED
    BY <2>1, <2>2
<1>18. CASE Return(u)
  BY <1>18 DEF Return
<1>19. ASSUME NEW f \in Calls, Call(u, f) PROVE Goal
  BY <1>19 DEF Call, Findable, Deleting
<1>. HIDE DEF LookupOK, Base, TypeOK, Goto, addVars, callVars, histVars, AddPcs
<1>. QED
  BY <1>6, <1>7, <1>8, <1>9, <1>10, <1>11, <1>12, <1>14, <1>15, <1>16, <1>17, <1>18, <1>19
     DEF StepOf, AddStep, UserStep, LookupStep

LEMMA LookupsStep == ASSUME Base, Lookups, [Next]_vars PROVE Lookups'
<1>1. CASE Environment \/ NewToolchainClusterService \/ UNCHANGED vars
  <2>1. ASSUME NEW u \in Users, NEW k \in Own
        PROVE  LookupOK(u, k)' /\ stable'[u] \subseteq stable[u]
    BY <1>1, LookupsEnvironment
  <2>2. ASSUME NEW u \in Users, NEW n \in stable'[u] PROVE \E k \in Own : n = NameOf[k]
    <3>1. CASE Own = {}
      <4>1. stable'[u] \subseteq stable[u]
        BY <1>1, <3>1, KeysAssumption
           DEF Environment, ToolchainClusterEvent, SecretChange, NewToolchainClusterService,
               vars, histVars
      <4>. QED
        BY <2>2, <4>1 DEF Lookups
    <3>2. CASE Own # {}
      BY <2>1, <2>2, <3>2 DEF Lookups
    <3>. QED
      BY <3>1, <3>2
  <2>. QED
    BY <2>1, <2>2 DEF Lookups
<1>2. ASSUME NEW p \in Procs, StepOf(p) PROVE Lookups'
  <2>1. ASSUME NEW u \in Users, NEW k \in Own PROVE LookupOK(u, k)'
    BY <1>2, LookupsOwn, LookupsOther
  <2>2. ASSUME NEW u \in Users, NEW n \in stable'[u] PROVE \E k \in Own : n = NameOf[k]
    <3>1. \A m \in Findable : \E k \in Own : m = NameOf[k]
      BY DEF Findable
    <3>2. CASE Own # {}
      <4>1. stable'[u] \subseteq stable[u] \cup Findable
        BY <1>2, <3>2, LookupsOwn, LookupsOther
      <4>. QED
        BY <2>2, <3>1, <4>1 DEF Lookups
    <3>3. CASE Own = {}
      <4>1. Findable = {} /\ stable = [v \in Users |-> {}]
        BY <3>1, <3>3 DEF Lookups, Base, TypeOK
      <4>2. stable'[u] = {}
        BY <1>2, <4>1
           DEF StepOf, AddStep, UserStep, LookupStep, WorkerStep, NewClusterConfig, PeekLock,
               Peek, NewClient, WriteLock, AddCachedToolchainCluster, ReadLock, Read, List,
               NextItem, ReadAgain, Return, Call, ReconcileStart, ReconcileGet,
               DeleteCachedToolchainCluster, Excuse, histVars
      <4>. QED
        BY <2>2, <4>2
    <3>. QED
      BY <3>2, <3>3
  <2>. QED
    BY <2>1, <2>2 DEF Lookups
<1>. QED
  BY <1>1, <1>2, NextCases

(***************************************************************************)
(* The inductive invariant and the theorems.                               *)
(***************************************************************************)
IInv == Base /\ ClientMatchesConfig /\ LockDiscipline /\ Settled /\ Lookups

LEMMA InductiveInit == Init => IInv
<1>. SUFFICES ASSUME Init PROVE IInv
  OBVIOUS
<1>1. Base
  BY BaseInit
<1>2. ClientMatchesConfig
  BY DEF Init, ClientMatchesConfig
<1>3. LockDiscipline
  BY NoneAssumption DEF Init, LockDiscipline, ReadPcs, WritePcs
<1>4. Settled
  BY KeysAssumption, ProcsAssumption
     DEF Init, Settled, SettledOK, WorkingOn, Matches, StaleRefresh, NoObjects
<1>5. Lookups
  BY DEF Init, Lookups, LookupOK
<1>. QED
  BY <1>1, <1>2, <1>3, <1>4, <1>5 DEF IInv

LEMMA InductiveStep == IInv /\ [Next]_vars => IInv'
<1>. SUFFICES ASSUME IInv, [Next]_vars PROVE IInv'
  OBVIOUS
<1>1. Base'
  BY TypeStep, LocalsStep DEF IInv, Base
<1>2. ClientMatchesConfig' /\ LockDiscipline'
  BY ClientStep, LockStep DEF IInv
<1>3. Settled'
  <2>1. ASSUME NEW k \in Own PROVE SettledOK(k)'
    BY NextCases, SettledEnvironment, SettledUser, SettledWorker DEF IInv
  <2>. QED
    BY <2>1 DEF Settled
<1>4. Lookups'
  BY LookupsStep DEF IInv
<1>. QED
  BY <1>1, <1>2, <1>3, <1>4 DEF IInv

LEMMA Inductive == Spec => []IInv
  BY InductiveInit, InductiveStep, PTL DEF Spec

(* The variables of the cache, its controller and its callers keep their   *)
(* types; in particular every entry has a client (addToolchainCluster      *)
(* stores none it failed to create).                                       *)
THEOREM TypeCorrect == Spec => []TypeOK
<1>1. IInv => TypeOK
  BY DEF IInv, Base
<1>. QED
  BY <1>1, Inductive, PTL

(* However many goroutines refresh the cache while the controller updates  *)
(* it, a cached client was created with the RestConfig it is stored with.  *)
THEOREM ClientsAreSound == Spec => []ClientMatchesConfig
<1>1. IInv => ClientMatchesConfig
  BY DEF IInv
<1>. QED
  BY <1>1, Inductive, PTL

(* No goroutine holds the lock of the cache during an API call, the        *)
(* creation of a client or a wait for the lock.                            *)
THEOREM LockIsHeldBriefly == Spec => []LockDiscipline
<1>1. IInv => LockDiscipline
  BY DEF IInv
<1>. QED
  BY <1>1, Inductive, PTL

(* A resource the controller is done with is in the cache with its latest  *)
(* content, or is not there if it was deleted, unless an outdated refresh  *)
(* overlapped its last reconcile.                                          *)
THEOREM CacheSettles == Spec => []QuiescentConsistent
<1>1. IInv => QuiescentConsistent
  BY DEF IInv, Settled, SettledOK, QuiescentConsistent, Matches
<1>. QED
  BY <1>1, Inductive, PTL

(* A lookup finds a cluster that was usable from the call on.              *)
THEOREM LookupsAreComplete == Spec => []LookupFindsStable
<1>1. IInv => LookupFindsStable
  BY DEF IInv, Lookups, LookupOK, LookupFindsStable
<1>. QED
  BY <1>1, Inductive, PTL
=============================================================================
