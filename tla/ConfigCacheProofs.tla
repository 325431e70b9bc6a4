------------------------- MODULE ConfigCacheProofs -------------------------
(***************************************************************************)
(* Proofs about ConfigCache, for any set of goroutines and any bounds.     *)
(***************************************************************************)
EXTENDS ConfigCache, TLAPS

(***************************************************************************)
(* The inductive invariant.  LoadedTogether is kept by Set because what a  *)
(* load is about to set is a complete load; UndisturbedLoadIsLatest is     *)
(* kept by GetAfterSet because a load that runs alone finds in the cache   *)
(* what it set.                                                            *)
(***************************************************************************)

(* What a goroutine holds at each point of its call.                       *)
LocalsOK ==
    \A p \in Loaders :
        /\ stage[p] = "begin" => op[p] # "LoadLatest"
        /\ stage[p] \in LoadPcs => readConfig[p] # Nil
        /\ stage[p] \in {"set", "get"} =>
            [config |-> readConfig[p], secrets |-> readSecrets[p]] \in loads
        /\ stage[p] = "get" => cached # Nil
        /\ stage[p] = "done" => returned[p] # Nil

(* A load reads a configuration that is not older than its call.           *)
ReadsForward ==
    \A p \in Loaders :
        /\ Loading(p) => began[p] <= config
        /\ stage[p] \in LoadPcs => began[p] <= readConfig[p]

(* No other load is under way beside one that is alone, which therefore    *)
(* finds in the cache what it set.                                         *)
AloneMeansAlone ==
    \A p \in Loaders :
        p \in alone =>
            /\ Loading(p) => \A q \in Loaders \ {p} : ~Loading(q)
            /\ stage[p] = "get" =>
                cached = [config |-> readConfig[p], secrets |-> readSecrets[p]]

IInv ==
    /\ ConfigTypeOK
    /\ LocalsOK
    /\ LoadedTogether
    /\ ReadsForward
    /\ AloneMeansAlone
    /\ UndisturbedLoadIsLatest

(* What a call returns is a result, not nothing.                           *)
LEMMA NotNone ==
    /\ NotFound # Nil /\ Failed # Nil
    /\ \A v \in Pairs \cup {Nil} : Value(v) # Nil
    /\ \A v \in Pairs : v # Nil
  BY NilAssumption DEF NotFound, Failed, Value, Results

LEMMA InitIInv == ConfigInit => IInv
  BY NilAssumption, ConfigBoundsAssumption
     DEF ConfigInit, IInv, ConfigTypeOK, LocalsOK, LoadedTogether, ReadsForward, AloneMeansAlone,
         UndisturbedLoadIsLatest, Versions, Pairs, LoadPcs, Loading

(* Every step keeps the types.                                             *)
LEMMA TypeStep == ConfigTypeOK /\ LocalsOK /\ [ConfigNext]_configVars => ConfigTypeOK'
<1> SUFFICES ASSUME ConfigTypeOK, LocalsOK, [ConfigNext]_configVars PROVE ConfigTypeOK'
  OBVIOUS
<1> USE NilAssumption, ConfigBoundsAssumption DEF ConfigTypeOK, LocalsOK, apiVars, readVars, Versions,
        LoadPcs, Loading
<1>1. ASSUME NEW exist \in BOOLEAN, ConfigChange(exist) PROVE ConfigTypeOK'
  BY <1>1 DEF ConfigChange
<1>2. CASE SecretsChange
  BY <1>2 DEF SecretsChange
<1>3. ASSUME NEW p \in Loaders, NEW f \in Ops, ConfigCall(p, f) PROVE ConfigTypeOK'
  BY <1>3 DEF ConfigCall, LoadBegins, Moves
<1>4. ASSUME NEW p \in Loaders, ReadCache(p) PROVE ConfigTypeOK'
  <2>1. CASE op[p] = "GetConfig" /\ cached = Nil /\ LoadBegins(p) /\ UNCHANGED returned
    BY <1>4, <2>1 DEF ReadCache, LoadBegins, Moves, Results, Value, Pairs
  <2>2. CASE Returns(p, Value(cached)) /\ UNCHANGED <<began, alone>>
    BY <1>4, <2>2 DEF ReadCache, Returns, Moves, Results, Value, Pairs
  <2> QED
    BY <1>4, <2>1, <2>2 DEF ReadCache
<1>5. ASSUME NEW p \in Loaders, LoadConfig(p) PROVE ConfigTypeOK'
  <2>1. CASE exists /\ Moves(p, "secrets")
             /\ readConfig' = [readConfig EXCEPT ![p] = config]
             /\ UNCHANGED <<returned, failures>>
    BY <1>5, <2>1 DEF LoadConfig, Moves, Results, Value, Pairs
  <2>2. CASE Returns(p, NotFound) /\ UNCHANGED <<readConfig, failures>>
    BY <1>5, <2>2 DEF LoadConfig, Returns, Moves, NotFound, Results, Value, Pairs
  <2>3. CASE CallFails /\ Returns(p, Failed) /\ UNCHANGED readConfig
    BY <1>5, <2>3 DEF LoadConfig, Returns, Moves, Failed, CallFails, Results, Value, Pairs
  <2> QED
    BY <1>5, <2>1, <2>2, <2>3 DEF LoadConfig
<1>6. ASSUME NEW p \in Loaders, LoadSecrets(p) PROVE ConfigTypeOK'
  <2>1. CASE Moves(p, "set")
             /\ readSecrets' = [readSecrets EXCEPT ![p] = secrets]
             /\ loads' = loads \cup {[config |-> readConfig[p], secrets |-> secrets]}
             /\ UNCHANGED <<returned, failures>>
    <3>1. [config |-> readConfig[p], secrets |-> secrets] \in Pairs
      BY <1>6 DEF LoadSecrets, Pairs
    <3> QED
      BY <1>6, <2>1, <3>1 DEF LoadSecrets, Moves
  <2>2. CASE CallFails /\ SecretsFailed(p)
    BY <1>6, <2>2 DEF LoadSecrets, SecretsFailed, Returns, Moves, Failed, CallFails, Results, Value, Pairs
  <2> QED
    BY <1>6, <2>1, <2>2 DEF LoadSecrets
<1>7. ASSUME NEW p \in Loaders, Set(p) PROVE ConfigTypeOK'
  <2>1. CASE Returns(p, NotFound)
    BY <1>7, <2>1 DEF Set, Stored, Returns, Moves, NotFound, Results, Value, Pairs
  <2>2. CASE Moves(p, "get") /\ UNCHANGED returned
    BY <1>7, <2>2 DEF Set, Stored, Moves, Results, Value, Pairs
  <2> QED
    BY <1>7, <2>1, <2>2 DEF Set
<1>8. ASSUME NEW p \in Loaders, GetAfterSet(p) PROVE ConfigTypeOK'
  BY <1>8 DEF GetAfterSet, Returns, Moves, Results, Value
<1>9. ASSUME NEW p \in Loaders, ConfigReturn(p) PROVE ConfigTypeOK'
  BY <1>9 DEF ConfigReturn, Moves, Results, Value
<1>10. CASE UNCHANGED configVars
  BY <1>10 DEF configVars
<1> QED
  BY <1>1, <1>2, <1>3, <1>4, <1>5, <1>6, <1>7, <1>8, <1>9, <1>10 DEF ConfigNext

(* A load that begins overlaps those under way: none of them is alone.     *)
LEMMA LoadBeginsAlone ==
    ASSUME NEW p \in Loaders, ConfigTypeOK, AloneMeansAlone, stage[p] \in {"idle", "begin"},
           LoadBegins(p), UNCHANGED <<cached, readVars>>
    PROVE  AloneMeansAlone'
<1> SUFFICES ASSUME NEW r \in Loaders, r \in alone'
             PROVE  /\ Loading(r)' => \A q \in Loaders \ {r} : ~Loading(q)'
                    /\ stage'[r] = "get" => (cached = [config |-> readConfig[r],
                                                    secrets |-> readSecrets[r]])'
  BY DEF AloneMeansAlone
<1>1. CASE r = p
  <2>1. \A q \in Loaders : ~Loading(q)
    BY <1>1 DEF LoadBegins, Loading, LoadPcs
  <2> QED
    BY <1>1, <2>1 DEF LoadBegins, Moves, Loading, ConfigTypeOK
<1>2. CASE r # p
  <2>1. r \in alone /\ ~Loading(r)
    BY <1>2 DEF LoadBegins
  <2>2. stage'[r] = stage[r]
    BY <1>2 DEF LoadBegins, Moves, ConfigTypeOK
  <2> QED
    BY <2>1, <2>2 DEF Loading, LoadPcs
<1> QED
  BY <1>1, <1>2

(* Every step keeps the rest of the invariant.                             *)
LEMMA StepIInv == IInv /\ [ConfigNext]_configVars => IInv'
<1> SUFFICES ASSUME IInv, [ConfigNext]_configVars PROVE IInv'
  OBVIOUS
<1> DEFINE Rest == LocalsOK /\ LoadedTogether /\ ReadsForward /\ AloneMeansAlone
                     /\ UndisturbedLoadIsLatest
<1>0. ConfigTypeOK'
  BY TypeStep DEF IInv
<1> SUFFICES Rest'
  BY <1>0 DEF IInv
<1> USE NotNone, NilAssumption, ConfigBoundsAssumption, <1>0
    DEF IInv, ConfigTypeOK, LocalsOK, LoadedTogether, ReadsForward, AloneMeansAlone,
        UndisturbedLoadIsLatest, apiVars, readVars, Versions, Loading, LoadPcs
<1>1. ASSUME NEW exist \in BOOLEAN, ConfigChange(exist) PROVE Rest'
  BY <1>1 DEF ConfigChange
<1>2. CASE SecretsChange
  BY <1>2 DEF SecretsChange
<1>3. ASSUME NEW p \in Loaders, NEW f \in Ops, ConfigCall(p, f) PROVE Rest'
  <2>1. CASE f \in {"LoadLatest", "UpdateConfig"} /\ LoadBegins(p)
    <3>1. LocalsOK'
      BY <1>3, <2>1 DEF ConfigCall, LoadBegins, Moves
    <3>2. LoadedTogether'
      BY <1>3, <2>1 DEF ConfigCall, LoadBegins, Moves
    <3>3. ReadsForward'
      BY <1>3, <2>1 DEF ConfigCall, LoadBegins, Moves
    <3>4. UndisturbedLoadIsLatest'
      BY <1>3, <2>1 DEF ConfigCall, LoadBegins, Moves
    <3>5. AloneMeansAlone'
      BY <1>3, <2>1, LoadBeginsAlone DEF ConfigCall
    <3> QED
      BY <3>1, <3>2, <3>3, <3>4, <3>5
  <2>2. CASE f # "LoadLatest" /\ Moves(p, "begin") /\ UNCHANGED <<began, alone>>
    BY <1>3, <2>2 DEF ConfigCall, Moves
  <2> QED
    BY <1>3, <2>1, <2>2 DEF ConfigCall
<1>4. ASSUME NEW p \in Loaders, ReadCache(p) PROVE Rest'
  <2>1. CASE op[p] = "GetConfig" /\ cached = Nil /\ LoadBegins(p) /\ UNCHANGED returned
    <3>1. LocalsOK'
      BY <1>4, <2>1 DEF ReadCache, LoadBegins, Moves
    <3>2. LoadedTogether'
      BY <1>4, <2>1 DEF ReadCache, LoadBegins, Moves
    <3>3. ReadsForward'
      BY <1>4, <2>1 DEF ReadCache, LoadBegins, Moves
    <3>4. AloneMeansAlone'
      BY <1>4, <2>1, LoadBeginsAlone DEF ReadCache
    <3>5. UndisturbedLoadIsLatest'
      BY <1>4, <2>1 DEF ReadCache, LoadBegins, Moves
    <3> QED
      BY <3>1, <3>2, <3>3, <3>4, <3>5
  <2>2. CASE Returns(p, Value(cached)) /\ UNCHANGED <<began, alone>>
    <3>1. LocalsOK'
      BY <1>4, <2>2 DEF ReadCache, Returns, Moves
    <3>2. LoadedTogether'
      BY <1>4, <2>2 DEF ReadCache, Returns, Moves, Value, NotFound, Failed
    <3>3. ReadsForward'
      BY <1>4, <2>2 DEF ReadCache, Returns, Moves
    <3>4. AloneMeansAlone'
      BY <1>4, <2>2 DEF ReadCache, Returns, Moves
    <3>5. UndisturbedLoadIsLatest'
      <4>1. op'[p] # "LoadLatest"
        BY <1>4 DEF ReadCache
      <4>2. ASSUME NEW q \in Loaders, q # p
            PROVE  stage'[q] = stage[q] /\ returned'[q] = returned[q]
        BY <2>2, <4>2 DEF Returns, Moves
      <4>3. UNCHANGED <<op, alone, began>>
        BY <1>4, <2>2 DEF ReadCache
      <4> QED
        BY <4>1, <4>2, <4>3
    <3> QED
      BY <3>1, <3>2, <3>3, <3>4, <3>5
  <2> QED
    BY <1>4, <2>1, <2>2 DEF ReadCache
<1>5. ASSUME NEW p \in Loaders, LoadConfig(p) PROVE Rest'
  <2>1. CASE exists /\ Moves(p, "secrets")
             /\ readConfig' = [readConfig EXCEPT ![p] = config]
             /\ UNCHANGED <<returned, failures>>
    <3>1. LocalsOK'
      BY <1>5, <2>1 DEF LoadConfig, Moves
    <3>2. LoadedTogether'
      BY <1>5, <2>1 DEF LoadConfig, Moves
    <3>3. ReadsForward'
      BY <1>5, <2>1 DEF LoadConfig, Moves
    <3>4. AloneMeansAlone'
      BY <1>5, <2>1 DEF LoadConfig, Moves
    <3>5. UndisturbedLoadIsLatest'
      BY <1>5, <2>1 DEF LoadConfig, Moves
    <3> QED
      BY <3>1, <3>2, <3>3, <3>4, <3>5
  <2>2. CASE Returns(p, NotFound) /\ UNCHANGED <<readConfig, failures>>
    <3>1. LocalsOK'
      BY <1>5, <2>2 DEF LoadConfig, Returns, Moves
    <3>2. LoadedTogether'
      BY <1>5, <2>2 DEF LoadConfig, Returns, Moves, Value, NotFound, Failed
    <3>3. ReadsForward'
      BY <1>5, <2>2 DEF LoadConfig, Returns, Moves
    <3>4. AloneMeansAlone'
      BY <1>5, <2>2 DEF LoadConfig, Returns, Moves
    <3>5. UndisturbedLoadIsLatest'
      BY <1>5, <2>2 DEF LoadConfig, Returns, Moves, Value, NotFound, Failed
    <3> QED
      BY <3>1, <3>2, <3>3, <3>4, <3>5
  <2>3. CASE CallFails /\ Returns(p, Failed) /\ UNCHANGED readConfig
    <3>1. LocalsOK'
      BY <1>5, <2>3 DEF LoadConfig, Returns, Moves, CallFails
    <3>2. LoadedTogether'
      BY <1>5, <2>3 DEF LoadConfig, Returns, Moves, CallFails, Value, NotFound, Failed
    <3>3. ReadsForward'
      BY <1>5, <2>3 DEF LoadConfig, Returns, Moves, CallFails
    <3>4. AloneMeansAlone'
      BY <1>5, <2>3 DEF LoadConfig, Returns, Moves, CallFails
    <3>5. UndisturbedLoadIsLatest'
      BY <1>5, <2>3 DEF LoadConfig, Returns, Moves, CallFails, Value, NotFound, Failed
    <3> QED
      BY <3>1, <3>2, <3>3, <3>4, <3>5
  <2> QED
    BY <1>5, <2>1, <2>2, <2>3 DEF LoadConfig
<1>6. ASSUME NEW p \in Loaders, LoadSecrets(p) PROVE Rest'
  <2>1. CASE Moves(p, "set")
             /\ readSecrets' = [readSecrets EXCEPT ![p] = secrets]
             /\ loads' = loads \cup {[config |-> readConfig[p], secrets |-> secrets]}
             /\ UNCHANGED <<returned, failures>>
    <3>1. LocalsOK'
      BY <1>6, <2>1 DEF LoadSecrets, Moves
    <3>2. LoadedTogether'
      BY <1>6, <2>1 DEF LoadSecrets, Moves
    <3>3. ReadsForward'
      BY <1>6, <2>1 DEF LoadSecrets, Moves
    <3>4. AloneMeansAlone'
      BY <1>6, <2>1 DEF LoadSecrets, Moves
    <3>5. UndisturbedLoadIsLatest'
      BY <1>6, <2>1 DEF LoadSecrets, Moves
    <3> QED
      BY <3>1, <3>2, <3>3, <3>4, <3>5
  <2>2. CASE CallFails /\ SecretsFailed(p)
    <3>1. LocalsOK'
      BY <1>6, <2>2 DEF LoadSecrets, SecretsFailed, Returns, Moves, CallFails
    <3>2. LoadedTogether'
      BY <1>6, <2>2 DEF LoadSecrets, SecretsFailed, Returns, Moves, CallFails, Value, NotFound, Failed
    <3>3. ReadsForward'
      BY <1>6, <2>2 DEF LoadSecrets, SecretsFailed, Returns, Moves, CallFails
    <3>4. AloneMeansAlone'
      BY <1>6, <2>2 DEF LoadSecrets, SecretsFailed, Returns, Moves, CallFails
    <3>5. UndisturbedLoadIsLatest'
      BY <1>6, <2>2 DEF LoadSecrets, SecretsFailed, Returns, Moves, CallFails, Value, NotFound, Failed
    <3> QED
      BY <3>1, <3>2, <3>3, <3>4, <3>5
  <2> QED
    BY <1>6, <2>1, <2>2 DEF LoadSecrets
<1>7. ASSUME NEW p \in Loaders, Set(p) PROVE Rest'
  <2>1. CASE Returns(p, NotFound)
    <3>1. LocalsOK'
      BY <1>7, <2>1 DEF Set, Stored, Returns, Moves
    <3>2. LoadedTogether'
      BY <1>7, <2>1 DEF Set, Stored, Returns, Moves, Value, NotFound, Failed
    <3>3. ReadsForward'
      BY <1>7, <2>1 DEF Set, Stored, Returns, Moves
    <3>4. AloneMeansAlone'
      BY <1>7, <2>1 DEF Set, Stored, Returns, Moves
    <3>5. UndisturbedLoadIsLatest'
      BY <1>7, <2>1 DEF Set, Stored, Returns, Moves, Value, NotFound, Failed
    <3> QED
      BY <3>1, <3>2, <3>3, <3>4, <3>5
  <2>2. CASE Moves(p, "get") /\ UNCHANGED returned
    <3>1. LocalsOK'
      BY <1>7, <2>2 DEF Set, Stored, Moves
    <3>2. LoadedTogether'
      BY <1>7, <2>2 DEF Set, Stored, Moves
    <3>3. ReadsForward'
      BY <1>7, <2>2 DEF Set, Stored, Moves
    <3>4. AloneMeansAlone'
      BY <1>7, <2>2 DEF Set, Stored, Moves
    <3>5. UndisturbedLoadIsLatest'
      BY <1>7, <2>2 DEF Set, Stored, Moves
    <3> QED
      BY <3>1, <3>2, <3>3, <3>4, <3>5
  <2> QED
    BY <1>7, <2>1, <2>2 DEF Set
<1>8. ASSUME NEW p \in Loaders, GetAfterSet(p) PROVE Rest'
  <2>1. LocalsOK'
    BY <1>8 DEF GetAfterSet, Returns, Moves
  <2>2. LoadedTogether'
    BY <1>8 DEF GetAfterSet, Returns, Moves, Value, NotFound, Failed
  <2>3. ReadsForward'
    BY <1>8 DEF GetAfterSet, Returns, Moves
  <2>4. AloneMeansAlone'
    BY <1>8 DEF GetAfterSet, Returns, Moves
  <2>5. UndisturbedLoadIsLatest'
    BY <1>8 DEF GetAfterSet, Returns, Moves, Value, NotFound, Failed
  <2> QED
    BY <2>1, <2>2, <2>3, <2>4, <2>5
<1>9. ASSUME NEW p \in Loaders, ConfigReturn(p) PROVE Rest'
  <2>1. LocalsOK'
    BY <1>9 DEF ConfigReturn, Moves
  <2>2. LoadedTogether'
    BY <1>9 DEF ConfigReturn, Moves
  <2>3. ReadsForward'
    BY <1>9 DEF ConfigReturn, Moves
  <2>4. AloneMeansAlone'
    BY <1>9 DEF ConfigReturn, Moves
  <2>5. UndisturbedLoadIsLatest'
    BY <1>9 DEF ConfigReturn, Moves
  <2> QED
    BY <2>1, <2>2, <2>3, <2>4, <2>5
<1>10. CASE UNCHANGED configVars
  BY <1>10 DEF configVars
<1> QED
  BY <1>1, <1>2, <1>3, <1>4, <1>5, <1>6, <1>7, <1>8, <1>9, <1>10 DEF ConfigNext

LEMMA Invariance == ConfigSpec => []IInv
  BY InitIInv, StepIInv, PTL DEF ConfigSpec

(* The variables of the configuration cache and of its callers keep their  *)
(* types, whichever of the loads of pkg/configuration overlap.             *)
THEOREM TypeCorrect == ConfigSpec => []ConfigTypeOK
<1>1. IInv => ConfigTypeOK
  BY DEF IInv
<1> QED
  BY <1>1, Invariance, PTL

(* The cache and what calls return (set and get of pkg/configuration): a   *)
(* configuration always comes with the Secrets read in the same load.      *)
THEOREM LoadsAreAtomic == ConfigSpec => []LoadedTogether
<1>1. IInv => LoadedTogether
  BY DEF IInv
<1> QED
  BY <1>1, Invariance, PTL

(* LoadLatest, which returns what it finds in the cache after its set,     *)
(* returns nothing older than its call unless another load overlaps it.    *)
THEOREM LoneLoadsAreLatest == ConfigSpec => []UndisturbedLoadIsLatest
<1>1. IInv => UndisturbedLoadIsLatest
  BY DEF IInv
<1> QED
  BY <1>1, Invariance, PTL
=============================================================================
