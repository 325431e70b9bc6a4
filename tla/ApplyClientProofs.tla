------------------------- MODULE ApplyClientProofs -------------------------
(***************************************************************************)
(* The invariants of ApplyClient, for any sets of objects, goroutines and  *)
(* contents.                                                               *)
(***************************************************************************)
EXTENDS ApplyClient, TLAPS

(***************************************************************************)
(* The inductive invariant.                                                *)
(***************************************************************************)

(* The informer is right about what it has caught up with.                 *)
InformerOK == \A k \in synced : informer[k] = api[k]

(* The copy a goroutine is about to send back, and what it sends.          *)
CopyOK(p) ==
    pc[p] \in {"create", "update"} =>
        key[p] \in Keys /\ (p \in current => seen[p] = api[key[p]])
HasCopy(p) == pc[p] = "update" => seen[p] \in Objects
HasWant(p) == pc[p] # "idle" => want[p] \in Configurations
Copies == \A p \in Procs : CopyOK(p) /\ HasCopy(p) /\ HasWant(p)

(* A ServiceAccount that does not exist has no secrets.                    *)
AbsentHasNoSecrets == \A k \in ServiceAccounts : api[k] = None => issued[k] = {}

(* The result so far is right at every point of a call.                    *)
ResultOK(p) ==
    /\ pc[p] # "done" => outcome[p] = "ok"
    /\ outcome[p] = "ok" => (p \in changed <=> counted[p] # {})
ResultsOK == \A p \in Procs : ResultOK(p)

AInv ==
    /\ TypeOK
    /\ InformerOK
    /\ Copies
    /\ AbsentHasNoSecrets
    /\ SecretRefsKept
    /\ ClusterIPRetained
    /\ AnnotationTruthful
    /\ ResultsOK

LEMMA AtStart == Init => AInv
  BY FaultsAssumption
     DEF Init, AInv, TypeOK, InformerOK, Copies, CopyOK, HasCopy, HasWant, AbsentHasNoSecrets,
         SecretRefsKept, ClusterIPRetained, AnnotationTruthful, ResultsOK, ResultOK,
         Outcomes, Keys

(***************************************************************************)
(* What a write does to the object, the informer and the copies.           *)
(***************************************************************************)

(* The outcome of a write of k.                                            *)
Written(k, o) ==
    /\ api' \in [Keys -> Objects \cup {None}]
    /\ api'[k] = o
    /\ \A j \in Keys \ {k} : api'[j] = api[j]
    /\ informer' \in [Keys -> Objects \cup {None}]
    /\ synced' \subseteq Keys
    /\ current' \subseteq current
    /\ \A p \in current' : key[p] # k
    /\ InformerOK'

(* p has finished with an object, or with its call.                        *)
EndsAt(p) ==
    /\ pc' \in [Procs -> {"idle", "get", "create", "update", "done"}]
    /\ pc'[p] \in {"get", "done"}
    /\ \A q \in Procs \ {p} : pc'[q] = pc[q]
    /\ todo' \in [Procs -> SUBSET Keys]
    /\ outcome' \in [Procs -> Outcomes]
    /\ changed' \subseteq Procs

LEMMA WriteTypes ==
    ASSUME TypeOK, InformerOK, NEW k \in Keys, NEW o \in Objects \cup {None}, Write(k, o)
    PROVE  Written(k, o)
  BY DEF TypeOK, InformerOK, Write, Written

LEMMA NewObjectType ==
    ASSUME NEW p, want[p] \in Configurations
    PROVE  /\ NewObject(p) \in Objects
           /\ NewObject(p).applied # None =>
                NewObject(p).applied = [spec |-> NewObject(p).spec, label |-> NewObject(p).label]
  <1>1. want[p].spec \in Specs /\ want[p].label \in Labels
    BY DEF Configurations
  <1>2. want[p] = [spec |-> want[p].spec, label |-> want[p].label]
    BY DEF Configurations
  <1>3. NewObject(p).applied \in {want[p], None}
    BY DEF NewObject
  <1> QED BY <1>1, <1>2, <1>3 DEF NewObject, Objects

(* The steps of other writers leave the goroutines alone.                  *)
LEMMA OthersWrite ==
    ASSUME AInv, NEW k \in Keys, NEW o \in Objects \cup {None}, Write(k, o),
           UNCHANGED <<pc, callVars, todo, itemVars, resultVars, faults, counted>>
    PROVE  Copies' /\ ResultsOK' /\ ClusterIPRetained'
  <1>1. /\ \A j \in Keys \ {k} : api'[j] = api[j]
        /\ current' \subseteq current
        /\ \A p \in current' : key[p] # k
    BY WriteTypes DEF AInv, Written
  <1>2. Copies'
    BY <1>1 DEF AInv, Copies, CopyOK, HasCopy, HasWant, callVars, itemVars
  <1>3. ResultsOK' /\ ClusterIPRetained'
    BY DEF AInv, ResultsOK, ResultOK, ClusterIPRetained, resultVars
  <1> QED BY <1>2, <1>3

LEMMA EditPreserves ==
    ASSUME AInv, NEW k \in Keys, NEW c \in Configurations, Edit(k, c)
    PROVE  AInv'
  <1> DEFINE o == [api[k] EXCEPT !.spec = c.spec, !.label = c.label]
  <1>1. api[k] \in Objects
    BY DEF AInv, TypeOK, Edit
  <1>2. o \in Objects /\ o.refs = api[k].refs
    BY <1>1 DEF Objects, Configurations
  <1>3. Write(k, o)
    BY DEF Edit
  <1> HIDE DEF o
  <1>4. Written(k, o)
    BY <1>2, <1>3, WriteTypes DEF AInv
  <1>5. Copies' /\ ResultsOK' /\ ClusterIPRetained'
    BY <1>2, <1>3, OthersWrite DEF Edit
  <1>6. TypeOK'
    BY <1>4 DEF AInv, TypeOK, Edit, Written, callVars, itemVars, resultVars
  <1>7. AbsentHasNoSecrets' /\ SecretRefsKept'
    BY <1>1, <1>2, <1>4, NoneAssumption
       DEF AInv, AbsentHasNoSecrets, SecretRefsKept, Edit, Written, Keys
  <1>8. AnnotationTruthful'
    BY <1>4 DEF AInv, AnnotationTruthful, Edit, Written, Keys
  <1> QED BY <1>4, <1>5, <1>6, <1>7, <1>8 DEF AInv, Written

LEMMA DeletePreserves ==
    ASSUME AInv, NEW k \in Keys, Delete(k)
    PROVE  AInv'
  <1>1. Write(k, None)
    BY DEF Delete
  <1>2. Written(k, None)
    BY <1>1, WriteTypes DEF AInv
  <1>3. Copies' /\ ResultsOK' /\ ClusterIPRetained'
    BY <1>1, OthersWrite DEF Delete
  <1>4. TypeOK'
    BY <1>2 DEF AInv, TypeOK, Delete, Written, callVars, itemVars, resultVars
  <1>5. AbsentHasNoSecrets' /\ SecretRefsKept'
    BY <1>2 DEF AInv, TypeOK, AbsentHasNoSecrets, SecretRefsKept, Delete, Written, Keys
  <1>6. AnnotationTruthful'
    BY <1>2 DEF AInv, AnnotationTruthful, Delete, Written, Keys
  <1> QED BY <1>2, <1>3, <1>4, <1>5, <1>6 DEF AInv, Written

LEMMA DeliverPreserves ==
    ASSUME AInv, NEW k \in Keys, Deliver(k)
    PROVE  AInv'
  <1>1. TypeOK' /\ InformerOK'
    BY DEF AInv, TypeOK, InformerOK, Deliver, callVars, itemVars, resultVars, historyVars
  <1>2. Copies' /\ ResultsOK' /\ ClusterIPRetained'
    BY DEF AInv, Copies, CopyOK, HasCopy, HasWant, ResultsOK, ResultOK, ClusterIPRetained,
           Deliver, callVars, itemVars, resultVars, historyVars
  <1>3. AbsentHasNoSecrets' /\ SecretRefsKept' /\ AnnotationTruthful'
    BY DEF AInv, AbsentHasNoSecrets, SecretRefsKept, AnnotationTruthful, Deliver, historyVars
  <1> QED BY <1>1, <1>2, <1>3 DEF AInv

LEMMA AddSecretPreserves ==
    ASSUME AInv, NEW k \in Keys, NEW r \in Refs, AddSecret(k, r)
    PROVE  AInv'
  <1> DEFINE o == [api[k] EXCEPT !.refs = @ \cup {r}]
  <1>1. api[k] \in Objects
    BY DEF AInv, TypeOK, AddSecret
  <1>2. o \in Objects /\ o.refs = api[k].refs \cup {r}
    BY <1>1 DEF Objects
  <1>3. Write(k, o)
    BY DEF AddSecret
  <1> HIDE DEF o
  <1>4. Written(k, o)
    BY <1>2, <1>3, WriteTypes DEF AInv
  <1>5. Copies' /\ ResultsOK' /\ ClusterIPRetained'
    BY <1>2, <1>3, OthersWrite DEF AddSecret
  <1>6. TypeOK'
    BY <1>4 DEF AInv, TypeOK, AddSecret, Written, callVars, itemVars, resultVars
  <1>7. AbsentHasNoSecrets' /\ SecretRefsKept'
    BY <1>1, <1>2, <1>4, NoneAssumption
       DEF AInv, TypeOK, AbsentHasNoSecrets, SecretRefsKept, AddSecret, Written, Keys
  <1>8. AnnotationTruthful'
    BY <1>4, KindsAssumption DEF AInv, AnnotationTruthful, AddSecret, Written, Keys
  <1> QED BY <1>4, <1>5, <1>6, <1>7, <1>8 DEF AInv, Written

(***************************************************************************)
(* The steps of a goroutine.                                               *)
(***************************************************************************)

LEMMA CallPreserves ==
    ASSUME AInv, NEW p \in Procs, NEW f \in Ops, NEW c \in Configurations,
           NEW ks \in SUBSET Keys, Call(p, f, c, ks)
    PROVE  AInv'
  <1>1. TypeOK' /\ InformerOK'
    BY DEF AInv, TypeOK, InformerOK, Call, Goto, apiVars, itemVars, resultVars, historyVars
  <1>2. Copies'
    BY DEF AInv, TypeOK, Copies, CopyOK, HasCopy, HasWant, Call, Goto, apiVars, itemVars
  <1>3. ResultsOK' /\ ClusterIPRetained'
    BY DEF AInv, TypeOK, ResultsOK, ResultOK, ClusterIPRetained, Call, Goto, resultVars,
           historyVars
  <1>4. AbsentHasNoSecrets' /\ SecretRefsKept' /\ AnnotationTruthful'
    BY DEF AInv, AbsentHasNoSecrets, SecretRefsKept, AnnotationTruthful, Call, apiVars,
           historyVars
  <1> QED BY <1>1, <1>2, <1>3, <1>4 DEF AInv

LEMMA ReturnPreserves ==
    ASSUME AInv, NEW p \in Procs, Return(p)
    PROVE  AInv'
  <1>1. TypeOK' /\ InformerOK'
    BY DEF AInv, TypeOK, InformerOK, Return, Goto, apiVars, Outcomes
  <1>2. Copies'
    BY DEF AInv, TypeOK, Copies, CopyOK, HasCopy, HasWant, Return, Goto, apiVars
  <1>3. ResultsOK' /\ ClusterIPRetained'
    BY DEF AInv, TypeOK, ResultsOK, ResultOK, ClusterIPRetained, Return, Goto
  <1>4. AbsentHasNoSecrets' /\ SecretRefsKept' /\ AnnotationTruthful'
    BY DEF AInv, AbsentHasNoSecrets, SecretRefsKept, AnnotationTruthful, Return, apiVars
  <1> QED BY <1>1, <1>2, <1>3, <1>4 DEF AInv

LEMMA FaultsBounded ==
    ASSUME TypeOK, Fault \/ UNCHANGED faults
    PROVE  faults' \in 0 .. MaxFaults
  <1>1. CASE Fault
    BY <1>1, FaultsAssumption DEF TypeOK, Fault
  <1>2. CASE UNCHANGED faults
    BY <1>2 DEF TypeOK
  <1> QED BY <1>1, <1>2

(* An object is done with, successfully: fresh is what the step adds to    *)
(* the objects that count.                                                 *)
LEMMA SucceedsResult ==
    ASSUME AInv, NEW p \in Procs, NEW k \in Keys, NEW fresh \in SUBSET Keys,
           pc[p] # "done", Succeeds(p, k, fresh # {}),
           counted' = [counted EXCEPT ![p] = @ \cup fresh]
    PROVE  /\ ResultsOK' /\ ClusterIPRetained'
           /\ EndsAt(p)
           /\ counted' \in [Procs -> SUBSET Keys]
  <1>1. /\ outcome' = outcome
        /\ \A q \in Procs \ {p} : pc'[q] = pc[q] /\ counted'[q] = counted[q]
        /\ counted'[p] = counted[p] \cup fresh
        /\ outcome[p] = "ok"
    BY DEF AInv, TypeOK, ResultsOK, ResultOK, Succeeds, Goto
  <1>2. \A q \in Procs \ {p} : q \in changed' <=> q \in changed
    BY DEF Succeeds
  <1>3. p \in changed' <=> p \in changed \/ fresh # {}
    BY DEF Succeeds, CreatedOrUpdated
  <1>4. p \in changed <=> counted[p] # {}
    BY <1>1 DEF AInv, ResultsOK, ResultOK
  <1>5. p \in changed' <=> counted'[p] # {}
    BY <1>1, <1>3, <1>4
  <1>6. ResultsOK'
    BY <1>1, <1>2, <1>5 DEF AInv, ResultsOK, ResultOK
  <1>7. ClusterIPRetained'
    BY <1>1 DEF AInv, ClusterIPRetained
  <1>8. EndsAt(p)
    BY DEF AInv, TypeOK, Succeeds, CreatedOrUpdated, Goto, EndsAt
  <1>9. counted' \in [Procs -> SUBSET Keys]
    BY DEF AInv, TypeOK
  <1> QED BY <1>6, <1>7, <1>8, <1>9

(* A failed call has nothing to report.                                    *)
LEMMA FailsResult ==
    ASSUME AInv, NEW p \in Procs, NEW result, NEW fresh \in SUBSET Keys,
           Fails(p, "error", result),
           counted' = [counted EXCEPT ![p] = @ \cup fresh] \/ counted' = counted
    PROVE  /\ ResultsOK' /\ ClusterIPRetained'
           /\ EndsAt(p)
           /\ counted' \in [Procs -> SUBSET Keys]
  <1>1. /\ pc'[p] = "done" /\ outcome'[p] = "error"
        /\ \A q \in Procs \ {p} :
              pc'[q] = pc[q] /\ outcome'[q] = outcome[q] /\ counted'[q] = counted[q]
    BY DEF AInv, TypeOK, Fails, Goto
  <1>2. \A q \in Procs \ {p} : q \in changed' <=> q \in changed
    BY DEF Fails
  <1>3. ResultsOK'
    BY <1>1, <1>2 DEF AInv, ResultsOK, ResultOK
  <1>4. ClusterIPRetained'
    BY <1>1 DEF AInv, ClusterIPRetained
  <1>5. EndsAt(p)
    BY DEF AInv, TypeOK, Fails, Goto, EndsAt, Outcomes
  <1>6. counted' \in [Procs -> SUBSET Keys]
    BY DEF AInv, TypeOK
  <1> QED BY <1>3, <1>4, <1>5, <1>6

(* What ends without a write keeps everything else.                        *)
LEMMA EndsUnwritten ==
    ASSUME AInv, NEW p \in Procs, EndsAt(p), pc[p] # "idle", faults' \in 0 .. MaxFaults,
           UNCHANGED <<apiVars, callVars, itemVars, current, historyVars>>
    PROVE  /\ TypeOK' /\ InformerOK' /\ Copies'
           /\ AbsentHasNoSecrets' /\ SecretRefsKept' /\ AnnotationTruthful'
  <1>1. TypeOK' /\ InformerOK'
    BY DEF AInv, TypeOK, InformerOK, EndsAt, apiVars, callVars, itemVars, historyVars
  <1>2. Copies'
    BY DEF AInv, TypeOK, Copies, CopyOK, HasCopy, HasWant, EndsAt, apiVars, callVars, itemVars
  <1>3. AbsentHasNoSecrets' /\ SecretRefsKept' /\ AnnotationTruthful'
    BY DEF AInv, AbsentHasNoSecrets, SecretRefsKept, AnnotationTruthful, apiVars, historyVars
  <1> QED BY <1>1, <1>2, <1>3

(* What ends with a write of an object that is sound.                      *)
LEMMA EndsWritten ==
    ASSUME AInv, NEW p \in Procs, NEW k \in Keys, NEW o \in Objects,
           Stores(p, k, o), EndsAt(p), pc[p] # "idle",
           faults' \in 0 .. MaxFaults, counted' \in [Procs -> SUBSET Keys],
           UNCHANGED <<callVars, itemVars, issued>>,
           k \in ServiceAccounts => issued[k] \subseteq o.refs,
           k \in Services \cup Others =>
                (o.applied # None => o.applied = [spec |-> o.spec, label |-> o.label])
    PROVE  /\ TypeOK' /\ InformerOK' /\ Copies'
           /\ AbsentHasNoSecrets' /\ SecretRefsKept' /\ AnnotationTruthful'
  <1>1. Written(k, o)
    BY WriteTypes DEF AInv, Stores
  <1>2. TypeOK'
    BY <1>1 DEF AInv, TypeOK, Written, EndsAt, Stores, callVars, itemVars
  <1>3. Copies'
    BY <1>1 DEF AInv, TypeOK, Copies, CopyOK, HasCopy, HasWant, Written, EndsAt, callVars,
                itemVars
  <1>4. AbsentHasNoSecrets' /\ SecretRefsKept'
    BY <1>1, NoneAssumption DEF AInv, AbsentHasNoSecrets, SecretRefsKept, Written, Keys
  <1>5. AnnotationTruthful'
    BY <1>1 DEF AInv, AnnotationTruthful, Written, Stores, Keys
  <1> QED BY <1>1, <1>2, <1>3, <1>4, <1>5 DEF Written

LEMMA GetPreserves ==
    ASSUME AInv, NEW p \in Procs, NEW k \in Keys, Get(p, k)
    PROVE  AInv'
  <1> USE DEF historyVars
  <1>1. pc[p] = "get" /\ UNCHANGED <<apiVars, callVars, historyVars>>
    BY DEF Get
  <1>2. CASE Succeeds(p, k, FALSE) /\ UNCHANGED <<itemVars, current, faults>>
    <2>1. Succeeds(p, k, {} # {})
      BY <1>2 DEF Succeeds, CreatedOrUpdated
    <2>2. counted' = [counted EXCEPT ![p] = @ \cup {}]
      BY <1>1 DEF AInv, TypeOK
    <2>3. ResultsOK' /\ ClusterIPRetained' /\ EndsAt(p)
      BY <1>1, <2>1, <2>2, SucceedsResult
    <2>4. faults' \in 0 .. MaxFaults
      BY <1>2 DEF AInv, TypeOK
    <2> QED BY <1>1, <1>2, <2>3, <2>4, EndsUnwritten DEF AInv
  <1>3. CASE Fault /\ Fails(p, "error", FALSE) /\ UNCHANGED <<itemVars, current>>
    <2>1. ResultsOK' /\ ClusterIPRetained' /\ EndsAt(p)
      BY <1>1, <1>3, FailsResult
    <2>2. faults' \in 0 .. MaxFaults
      BY <1>3, FaultsBounded DEF AInv
    <2> QED BY <1>1, <1>3, <2>1, <2>2, EndsUnwritten DEF AInv
  <1>4. CASE /\ \/ informer[k] = None /\ Goto(p, "create")
                \/ informer[k] # None /\ ~LooksSame(p, informer[k]) /\ Goto(p, "update")
             /\ key' = [key EXCEPT ![p] = k]
             /\ seen' = [seen EXCEPT ![p] = informer[k]]
             /\ current' = IF k \in synced THEN current \cup {p} ELSE current \ {p}
             /\ UNCHANGED <<todo, resultVars, faults>>
    <2>1. /\ pc' \in [Procs -> {"idle", "get", "create", "update", "done"}]
          /\ pc'[p] \in {"create", "update"}
          /\ pc'[p] = "update" => informer[k] \in Objects
          /\ \A q \in Procs \ {p} : pc'[q] = pc[q]
      BY <1>4 DEF AInv, TypeOK, Goto
    <2>2. TypeOK' /\ InformerOK'
      BY <1>1, <1>4, <2>1 DEF AInv, TypeOK, InformerOK, apiVars, callVars, resultVars
    <2>3. CopyOK(p)' /\ HasCopy(p)' /\ HasWant(p)'
      BY <1>1, <1>4, <2>1
         DEF AInv, TypeOK, InformerOK, Copies, CopyOK, HasCopy, HasWant, apiVars, callVars
    <2>4. \A q \in Procs \ {p} : CopyOK(q)' /\ HasCopy(q)' /\ HasWant(q)'
      BY <1>1, <1>4, <2>1
         DEF AInv, TypeOK, Copies, CopyOK, HasCopy, HasWant, apiVars, callVars
    <2>5. Copies'
      BY <2>3, <2>4 DEF Copies
    <2>6. ResultsOK' /\ ClusterIPRetained'
      BY <1>1, <1>4, <2>1 DEF AInv, ResultsOK, ResultOK, ClusterIPRetained, resultVars
    <2>7. AbsentHasNoSecrets' /\ SecretRefsKept' /\ AnnotationTruthful'
      BY <1>1 DEF AInv, AbsentHasNoSecrets, SecretRefsKept, AnnotationTruthful, apiVars
    <2> QED BY <2>2, <2>5, <2>6, <2>7 DEF AInv
  <1> QED BY <1>2, <1>3, <1>4 DEF Get

LEMMA CreatePreserves ==
    ASSUME AInv, NEW p \in Procs, NEW k \in Keys, Create(p, k)
    PROVE  AInv'
  <1>1. pc[p] = "create" /\ k = key[p] /\ UNCHANGED <<callVars, itemVars, issued>>
    BY DEF Create
  <1>2. want[p] \in Configurations
    BY <1>1 DEF AInv, Copies, HasWant
  <1>3. CASE /\ api[k] = None
             /\ \E o \in Created(k, NewObject(p)) : Stores(p, k, o)
             /\ counted' = [counted EXCEPT ![p] = @ \cup {k}]
             /\ \/ Succeeds(p, k, TRUE) /\ UNCHANGED faults
                \/ Fault /\ Fails(p, "error", TRUE)
    <2>1. PICK o \in Created(k, NewObject(p)) : Stores(p, k, o)
      BY <1>3
    <2>2. /\ o \in Objects
          /\ o.applied # None => o.applied = [spec |-> o.spec, label |-> o.label]
      BY <1>2, NewObjectType DEF Created, Objects
    <2>3. k \in ServiceAccounts => issued[k] \subseteq o.refs
      BY <1>3 DEF AInv, AbsentHasNoSecrets
    <2>4. ResultsOK' /\ ClusterIPRetained' /\ EndsAt(p) /\ counted' \in [Procs -> SUBSET Keys]
      <3>1. CASE Succeeds(p, k, TRUE)
        <4> DEFINE fresh == {k}
        <4>1. Succeeds(p, k, fresh # {})
          BY <3>1 DEF Succeeds, CreatedOrUpdated
        <4>2. fresh \in SUBSET Keys /\ counted' = [counted EXCEPT ![p] = @ \cup fresh]
          BY <1>3
        <4> HIDE DEF fresh
        <4> QED BY <1>1, <4>1, <4>2, SucceedsResult
      <3>2. CASE Fails(p, "error", TRUE)
        BY <1>3, <3>2, FailsResult
      <3> QED BY <1>3, <3>1, <3>2
    <2>5. faults' \in 0 .. MaxFaults
      BY <1>3, FaultsBounded DEF AInv
    <2> QED BY <1>1, <2>1, <2>2, <2>3, <2>4, <2>5, EndsWritten DEF AInv
  <1>4. CASE /\ \/ api[k] # None /\ UNCHANGED faults
                \/ Fault
             /\ Fails(p, "error", TRUE)
             /\ UNCHANGED <<apiVars, current, counted, edited>>
    <2>1. ResultsOK' /\ ClusterIPRetained' /\ EndsAt(p)
      BY <1>4, FailsResult
    <2>2. faults' \in 0 .. MaxFaults
      BY <1>4, FaultsBounded DEF AInv
    <2>3. UNCHANGED historyVars
      BY <1>1, <1>4 DEF historyVars
    <2> QED BY <1>1, <1>4, <2>1, <2>2, <2>3, EndsUnwritten DEF AInv
  <1> QED BY <1>3, <1>4 DEF Create

(* What an accepted update sends: the clusterIP, and the secrets of a      *)
(* ServiceAccount, of the object in the API server.                        *)
LEMMA SentType ==
    ASSUME AInv, NEW p \in Procs, pc[p] = "update", Accepted(p)
    PROVE  /\ Sent(p) \in Objects
           /\ ~Immutable(key[p], Sent(p))
           /\ key[p] \in ServiceAccounts => issued[key[p]] \subseteq Sent(p).refs
           /\ key[p] \in Services \cup Others =>
                (Sent(p).applied # None =>
                    Sent(p).applied = [spec |-> Sent(p).spec, label |-> Sent(p).label])
  <1>1. /\ seen[p] \in Objects /\ want[p] \in Configurations
        /\ key[p] \in Keys /\ seen[p] = api[key[p]]
    BY DEF AInv, Copies, CopyOK, HasCopy, HasWant, Accepted
  <1>2. want[p].label \in Labels
    BY <1>1 DEF Configurations
  <1>3. CASE key[p] \in ServiceAccounts
    <2>1. AnnotationMerged(p) \in Configurations \cup {None}
      BY <1>1 DEF AnnotationMerged, Objects
    <2>2. Sent(p) = [seen[p] EXCEPT !.label = want[p].label, !.applied = AnnotationMerged(p)]
      BY <1>3 DEF Sent
    <2>3. Sent(p) \in Objects /\ Sent(p).refs = seen[p].refs
      BY <1>1, <1>2, <2>1, <2>2 DEF Objects
    <2>4. issued[key[p]] \subseteq Sent(p).refs
      BY <1>1, <1>3, <2>3, NoneAssumption DEF AInv, SecretRefsKept
    <2> QED BY <1>3, <2>3, <2>4, KindsAssumption DEF Immutable
  <1>4. CASE key[p] \notin ServiceAccounts
    <2>1. /\ NewObject(p) \in Objects
          /\ NewObject(p).applied # None =>
               NewObject(p).applied = [spec |-> NewObject(p).spec, label |-> NewObject(p).label]
      BY <1>1, NewObjectType
    <2>2. Sent(p) = [NewObject(p) EXCEPT !.ip = seen[p].ip, !.applied = NewObject(p).applied]
      BY <1>4 DEF Sent, RetainedIP, Annotation
    <2>3. seen[p].ip \in IPs \cup {None}
      BY <1>1 DEF Objects
    <2>4. /\ Sent(p) \in Objects /\ Sent(p).ip = api[key[p]].ip
          /\ Sent(p).applied # None =>
                Sent(p).applied = [spec |-> Sent(p).spec, label |-> Sent(p).label]
      BY <1>1, <2>1, <2>2, <2>3 DEF Objects
    <2> QED BY <1>4, <2>4 DEF Immutable
  <1> QED BY <1>3, <1>4

LEMMA UpdatePreserves ==
    ASSUME AInv, NEW p \in Procs, NEW k \in Keys, Update(p, k)
    PROVE  AInv'
  <1>1. pc[p] = "update" /\ k = key[p] /\ UNCHANGED <<callVars, itemVars, issued>>
    BY DEF Update
  <1>2. CASE /\ Accepted(p) /\ ~Immutable(k, Sent(p))
             /\ Stores(p, k, Sent(p))
             /\ counted' = [counted EXCEPT ![p] =
                               IF NewGeneration(k, Sent(p)) THEN @ \cup {k} ELSE @]
             /\ \/ Succeeds(p, k, GenerationDiffers(p)) /\ UNCHANGED faults
                \/ Fault /\ Fails(p, "error", FALSE)
    <2> DEFINE fresh == IF NewGeneration(k, Sent(p)) THEN {k} ELSE {}
    <2>1. /\ fresh \in SUBSET Keys
          /\ counted' = [counted EXCEPT ![p] = @ \cup fresh]
      BY <1>2 DEF AInv, TypeOK
    <2>2. ResultsOK' /\ ClusterIPRetained' /\ EndsAt(p) /\ counted' \in [Procs -> SUBSET Keys]
      <3>1. CASE Succeeds(p, k, GenerationDiffers(p))
        <4>1. GenerationDiffers(p) <=> fresh # {}
          <5>1. seen[p] = api[k]
            BY <1>1, <1>2 DEF AInv, Copies, CopyOK, Accepted
          <5> QED BY <1>1, <5>1 DEF GenerationDiffers, NewGeneration
        <4>2. Succeeds(p, k, fresh # {})
          BY <3>1, <4>1 DEF Succeeds, CreatedOrUpdated
        <4> HIDE DEF fresh
        <4> QED BY <1>1, <2>1, <4>2, SucceedsResult
      <3>2. CASE Fails(p, "error", FALSE)
        BY <2>1, <3>2, FailsResult
      <3> QED BY <1>2, <3>1, <3>2
    <2>3. faults' \in 0 .. MaxFaults
      BY <1>2, FaultsBounded DEF AInv
    <2> QED BY <1>1, <1>2, <2>2, <2>3, SentType, EndsWritten DEF AInv
  <1>3. CASE /\ \/ ~Accepted(p) /\ Fails(p, "error", FALSE) /\ UNCHANGED faults
                \/ Fault /\ Fails(p, "error", FALSE)
             /\ UNCHANGED <<apiVars, current, counted, edited>>
    <2>1. ResultsOK' /\ ClusterIPRetained' /\ EndsAt(p)
      BY <1>3, FailsResult
    <2>2. faults' \in 0 .. MaxFaults
      BY <1>3, FaultsBounded DEF AInv
    <2>3. UNCHANGED historyVars
      BY <1>1, <1>3 DEF historyVars
    <2> QED BY <1>1, <1>3, <2>1, <2>2, <2>3, EndsUnwritten DEF AInv
  <1>4. CASE Accepted(p) /\ Immutable(k, Sent(p))
    BY <1>1, <1>4, SentType
  <1> QED BY <1>2, <1>3, <1>4 DEF Update

(***************************************************************************)
(* The theorems.                                                           *)
(***************************************************************************)

LEMMA StepPreserves == AInv /\ [Next]_vars => AInv'
  <1> SUFFICES ASSUME AInv, [Next]_vars PROVE AInv'
    OBVIOUS
  <1>1. ASSUME NEW k \in Keys, NEW c \in Configurations, Edit(k, c) PROVE AInv'
    BY <1>1, EditPreserves
  <1>2. ASSUME NEW k \in Keys, Delete(k) PROVE AInv'
    BY <1>2, DeletePreserves
  <1>3. ASSUME NEW k \in Keys, Deliver(k) PROVE AInv'
    BY <1>3, DeliverPreserves
  <1>4. ASSUME NEW k \in Keys, NEW r \in Refs, AddSecret(k, r) PROVE AInv'
    BY <1>4, AddSecretPreserves
  <1>5. ASSUME NEW p \in Procs, NEW f \in Ops, NEW c \in Configurations,
               NEW ks \in (SUBSET Keys) \ {{}}, Call(p, f, c, ks)
        PROVE  AInv'
    BY <1>5, CallPreserves
  <1>6. ASSUME NEW p \in Procs, NEW k \in Keys, Get(p, k) PROVE AInv'
    BY <1>6, GetPreserves
  <1>7. ASSUME NEW p \in Procs, NEW k \in Keys, Create(p, k) PROVE AInv'
    BY <1>7, CreatePreserves
  <1>8. ASSUME NEW p \in Procs, NEW k \in Keys, Update(p, k) PROVE AInv'
    BY <1>8, UpdatePreserves
  <1>9. ASSUME NEW p \in Procs, Return(p) PROVE AInv'
    BY <1>9, ReturnPreserves
  <1>10. CASE UNCHANGED vars
    <2>1. TypeOK' /\ InformerOK' /\ Copies'
      BY <1>10 DEF AInv, TypeOK, InformerOK, Copies, CopyOK, HasCopy, HasWant, vars, apiVars,
                   callVars, itemVars, resultVars, historyVars
    <2>2. AbsentHasNoSecrets' /\ SecretRefsKept' /\ ClusterIPRetained'
          /\ AnnotationTruthful' /\ ResultsOK'
      BY <1>10 DEF AInv, AbsentHasNoSecrets, SecretRefsKept, ClusterIPRetained,
                   AnnotationTruthful, ResultsOK, ResultOK, vars, apiVars, resultVars,
                   historyVars
    <2> QED BY <2>1, <2>2 DEF AInv
  <1> QED BY <1>1, <1>2, <1>3, <1>4, <1>5, <1>6, <1>7, <1>8, <1>9, <1>10
            DEF Next, OthersDo, Applies

LEMMA Always == Spec => []AInv
  BY AtStart, StepPreserves, PTL DEF Spec

(* Every variable of the model keeps its type: what create and update send *)
(* is an object also when the caller's is a mere template.                 *)
THEOREM ApplyTypeCorrect == Spec => []TypeOK
  BY Always, PTL DEF AInv

(* Whatever a goroutine applies and others write in between, applyObject   *)
(* drops no secret reference of a ServiceAccount.                          *)
THEOREM SecretsSurvive == Spec => []SecretRefsKept
  BY Always, PTL DEF AInv

(* No update of a Service is refused for its clusterIP, although it is     *)
(* retained from a copy that may be outdated.                              *)
THEOREM AddressesSurvive == Spec => []ClusterIPRetained
  BY Always, PTL DEF AInv

(* The annotation with the configuration applied last can be relied on, as *)
(* applyObject does when it skips an update.                               *)
THEOREM AnnotationsAreTrue == Spec => []AnnotationTruthful
  BY Always, PTL DEF AInv

(* The boolean that Apply and ApplyObject return without an error is       *)
(* right, for any number of objects and other writers.                     *)
THEOREM ResultsAreRight == Spec => []ReportsGenerations
  <1>1. AInv => ReportsGenerations
    BY DEF AInv, ResultsOK, ResultOK, ReportsGenerations
  <1> QED BY <1>1, Always, PTL
=============================================================================
