----------------------- MODULE ClusterResourcesProofs -----------------------
(***************************************************************************)
(* Proofs about ClusterResources for any number of objects, fields,        *)
(* releases and edits: its invariants, and that it implements              *)
(* ManagedObjects.                                                         *)
(***************************************************************************)
EXTENDS ClusterResources, TLAPS

(***************************************************************************)
(* The inductive invariant.                                                *)
(***************************************************************************)

(* The fields that are set are those that somebody manages.                *)
Managing == \A i \in Objects, f \in Fields : managers[i][f] = {} <=> value[i][f] = None

Absent == \A i \in Objects \ exists : value[i] = NoContent

Migrated(i) == \A f \in Fields : "legacy" \notin managers[i][f]

(* Between the Get and the Patch nothing of an earlier release is left, or *)
(* the Update takes care of it.                                            *)
MigratedBeforePatch ==
    /\ pc = "patch" => Migrated(at)
    /\ fetched => pc = "update" /\ at \in exists

(* A template object is as it was loaded, and labelled from the Get on,    *)
(* until it is replaced by an answer.                                      *)
HeldFresh ==
    pc # "down" =>
        \A i \in Objects \ stamped :
            /\ held[i] \in {Template[release][i], Desired(i)}
            /\ pc \in {"update", "patch"} /\ i = at => held[i] = Desired(i)

AsDescribed(i) ==
    \A f \in Fields : \/ value[i][f] = Desired(i)[f]
                      \/ Desired(i)[f] = None /\ f \in Foreign(i)

(* A current copy is the object, and the object as described.              *)
HeldCurrent ==
    \A i \in current : i \in exists /\ held[i] = value[i] /\ AsDescribed(i) /\ Migrated(i)

NothingHeld == pc = "down" => stamped = {} /\ current = {}

Good(i) ==
    /\ i \in exists
    /\ \A f \in {Label} \cup SpecFields : Desired(i)[f] \in {None, value[i][f]}

(* Without a request in the queue, the objects the reconcile has been at   *)
(* are good.                                                               *)
GoodSoFar ==
    pc # "down" /\ ~queued => \A i \in Objects : (pc = "idle" \/ i < at) => Good(i)

Inv ==
    /\ TypeOK /\ Managing /\ Absent /\ MigratedBeforePatch
    /\ HeldFresh /\ HeldCurrent /\ NothingHeld /\ GoodSoFar

(***************************************************************************)
(* Types.                                                                  *)
(***************************************************************************)

LEMMA ConstantFacts ==
    /\ 1 \in Objects /\ N \in Objects
    /\ NoContent \in Contents
    /\ \A c \in Contents : Configured(c) \in Contents /\ Configured(c)[Label] = Provider
    /\ \A c \in Contents, f \in Fields \ {Label} : Configured(c)[f] = c[f]
    /\ \A r \in Releases : Template[r] \in [Objects -> Contents]
    /\ Provider # None
  BY NAssumption, FieldsAssumption, ValuesAssumption, TemplateAssumption
     DEF Objects, Contents, NoContent, Configured

LEMMA DesiredFacts ==
  ASSUME TypeOK, NEW i \in Objects
  PROVE  Desired(i) \in Contents /\ Desired(i)[Label] = Provider
  BY ConstantFacts DEF TypeOK, Desired

(* A write changes one object.                                             *)
LEMMA Written ==
  ASSUME TypeOK, NEW i \in Objects, NEW es \in SUBSET Objects, NEW c \in Contents,
         NEW m \in [Fields -> SUBSET Managers], NewVersion(i, es, c, m)
  PROVE  /\ exists' = es /\ exists' \subseteq Objects
         /\ value' \in [Objects -> Contents] /\ value'[i] = c
         /\ managers' \in [Objects -> [Fields -> SUBSET Managers]] /\ managers'[i] = m
         /\ \A j \in Objects \ {i} : value'[j] = value[j] /\ managers'[j] = managers[j]
         /\ fetched' \in BOOLEAN
         /\ fetched' => fetched /\ i # at
  BY DEF TypeOK, NewVersion

LEMMA SetByType ==
  ASSUME TypeOK, NEW i \in Objects, NEW f \in Fields, NEW v \in Values \cup {None},
         NEW m \in Managers
  PROVE  /\ [value[i] EXCEPT ![f] = v] \in Contents
         /\ SetBy(m, i, f, v) \in [Fields -> SUBSET Managers]
  <1>1. value[i] \in Contents /\ managers[i] \in [Fields -> SUBSET Managers]
    BY DEF TypeOK
  <1>2. [value[i] EXCEPT ![f] = v] \in Contents
    BY <1>1 DEF Contents
  <1>3. SetBy(m, i, f, v) \in [Fields -> SUBSET Managers]
    BY <1>1 DEF SetBy
  <1> QED BY <1>2, <1>3

LEMMA UpgradedType ==
  ASSUME TypeOK, NEW i \in Objects
  PROVE  Upgraded(i) \in [Fields -> SUBSET Managers] /\ value[i] \in Contents
  BY DEF TypeOK, Upgraded, Managers

LEMMA ForcedType ==
  ASSUME TypeOK, NEW i \in Objects
  PROVE  /\ Forced(i) \in Contents
         /\ ForcedManagers(i) \in [Fields -> SUBSET Managers]
  <1>1. /\ value[i] \in Contents /\ held[i] \in Contents
        /\ managers[i] \in [Fields -> SUBSET Managers]
    BY DEF TypeOK
  <1>2. ForcedManagers(i) \in [Fields -> SUBSET Managers]
    BY <1>1 DEF ForcedManagers, Managers
  <1>3. Forced(i) \in Contents
    BY <1>1 DEF Forced, Contents
  <1> QED BY <1>2, <1>3

(* The types of the objects in the API server and those of the rest.       *)
ApiOK ==
    /\ exists \subseteq Objects
    /\ value \in [Objects -> Contents]
    /\ managers \in [Objects -> [Fields -> SUBSET Managers]]
    /\ fetched \in BOOLEAN
ControlOK ==
    /\ pc \in {"down", "idle", "get", "update", "patch"}
    /\ at \in Objects
    /\ release \in Releases
    /\ queued \in BOOLEAN
    /\ edits \in 0 .. MaxEdits /\ faults \in 0 .. MaxFaults
HeldOK ==
    /\ held \in [Objects -> Contents]
    /\ stamped \subseteq Objects /\ current \subseteq stamped

LEMMA ApiStep == TypeOK /\ [Next]_vars => ApiOK'
  <1> SUFFICES ASSUME TypeOK, [Next]_vars PROVE ApiOK'
    OBVIOUS
  <1>1. ASSUME NEW i \in Objects, NEW f \in Fields, NEW v \in Values \cup {None},
               OtherWrite(i, f, v) \/ LegacyWrite(i, f, v)
        PROVE ApiOK'
    <2>1. PICK m \in Managers, es \in SUBSET Objects :
            NewVersion(i, es, [value[i] EXCEPT ![f] = v], SetBy(m, i, f, v))
      BY <1>1 DEF OtherWrite, LegacyWrite, Managers, TypeOK
    <2> QED BY <2>1, SetByType, Written DEF ApiOK
  <1>2. ASSUME NEW i \in Objects, OtherDelete(i) PROVE ApiOK'
    <2>1. [f \in Fields |-> {}] \in [Fields -> SUBSET Managers]
      OBVIOUS
    <2>2. exists \ {i} \in SUBSET Objects
      BY DEF TypeOK
    <2> QED BY <1>2, <2>1, <2>2, Written, ConstantFacts DEF OtherDelete, ApiOK
  <1>3. ASSUME NEW i \in Objects, Update(i) PROVE ApiOK'
    <2>1. CASE NewVersion(i, exists, value[i], Upgraded(i))
      BY <2>1, UpgradedType, Written DEF ApiOK, TypeOK
    <2>2. CASE UNCHANGED apiVars /\ fetched' = FALSE
      BY <2>2 DEF ApiOK, TypeOK, apiVars
    <2> QED BY <1>3, <2>1, <2>2 DEF Update, apiVars
  <1>4. ASSUME NEW i \in Objects, Patch(i) PROVE ApiOK'
    <2>1. CASE NewVersion(i, exists \cup {i}, Forced(i), ForcedManagers(i))
      <3>1. exists \cup {i} \in SUBSET Objects
        BY DEF TypeOK
      <3> QED BY <2>1, <3>1, ForcedType, Written DEF ApiOK
    <2>2. CASE UNCHANGED <<apiVars, fetched>>
      BY <2>2 DEF ApiOK, TypeOK, apiVars
    <2> QED BY <1>4, <2>1, <2>2 DEF Patch, apiVars
  <1>5. ASSUME NEW i \in Objects, Get(i) PROVE ApiOK'
    <2>1. UNCHANGED apiVars /\ fetched' \in BOOLEAN
      BY <1>5 DEF Get, TypeOK
    <2> QED BY <2>1 DEF ApiOK, TypeOK, apiVars
  <1>6. ASSUME UNCHANGED apiVars, fetched' \in BOOLEAN PROVE ApiOK'
    BY <1>6 DEF ApiOK, TypeOK, apiVars
  <1>7. CASE ServiceAccountEvent \/ Stop \/ Reconcile \/ \E r \in Releases : Start(r)
    BY <1>6, <1>7 DEF ServiceAccountEvent, Stop, Reconcile, Start, TypeOK
  <1>8. CASE UNCHANGED vars
    BY <1>6, <1>8 DEF vars, TypeOK
  <1> QED BY <1>1, <1>2, <1>3, <1>4, <1>5, <1>7, <1>8 DEF Next

LEMMA ControlStep == TypeOK /\ [Next]_vars => ControlOK'
  <1> SUFFICES ASSUME TypeOK, [Next]_vars PROVE ControlOK'
    OBVIOUS
  <1> USE BoundsAssumption
  <1>1. ASSUME NEW i \in Objects, NEW f \in Fields, NEW v \in Values \cup {None},
               OtherWrite(i, f, v) \/ LegacyWrite(i, f, v)
        PROVE ControlOK'
    <2>1. CASE OtherWrite(i, f, v)
      BY <2>1 DEF OtherWrite, Edit, ControlOK, TypeOK
    <2>2. CASE LegacyWrite(i, f, v)
      BY <2>2 DEF LegacyWrite, Edit, ControlOK, TypeOK
    <2> QED BY <1>1, <2>1, <2>2
  <1>2. ASSUME NEW i \in Objects, OtherDelete(i) PROVE ControlOK'
    BY <1>2 DEF OtherDelete, Edit, ControlOK, TypeOK
  <1>3. ASSUME Fault \/ UNCHANGED faults PROVE faults' \in 0 .. MaxFaults
    BY <1>3 DEF Fault, TypeOK
  <1>4. ASSUME NEW i \in Objects, Get(i) PROVE ControlOK'
    BY <1>3, <1>4 DEF Get, Fails, ControlOK, TypeOK
  <1>5. ASSUME NEW i \in Objects, Update(i) PROVE ControlOK'
    <2>1. \/ pc' = "patch" /\ UNCHANGED <<at, queued>>
          \/ Fails
      BY <1>5 DEF Update
    <2>2. (Fault \/ UNCHANGED faults) /\ UNCHANGED <<release, edits>>
      BY <1>5 DEF Update
    <2> QED BY <1>3, <2>1, <2>2 DEF Fails, ControlOK, TypeOK
  <1>6. ASSUME NEW i \in Objects, Patch(i) PROVE ControlOK'
    <2>1. ASSUME ApplyAllContinues(i)
          PROVE  pc' \in {"idle", "get"} /\ at' \in Objects
      BY <2>1, NAssumption DEF ApplyAllContinues, Objects, TypeOK
    <2> QED BY <1>3, <1>6, <2>1 DEF Patch, Fails, ControlOK, TypeOK
  <1>7. CASE ServiceAccountEvent
    BY <1>7 DEF ServiceAccountEvent, Edit, ControlOK, TypeOK
  <1>8. CASE Stop \/ Reconcile \/ \E r \in Releases : Start(r)
    BY <1>8, ConstantFacts DEF Stop, Reconcile, Start, ControlOK, TypeOK
  <1>9. CASE UNCHANGED vars
    BY <1>9 DEF vars, ControlOK, TypeOK
  <1> QED BY <1>1, <1>2, <1>4, <1>5, <1>6, <1>7, <1>8, <1>9 DEF Next

LEMMA HeldStep == TypeOK /\ [Next]_vars => HeldOK'
  <1> SUFFICES ASSUME TypeOK, [Next]_vars PROVE HeldOK'
    OBVIOUS
  <1>1. ASSUME UNCHANGED heldVars, current' \subseteq current PROVE HeldOK'
    BY <1>1 DEF HeldOK, TypeOK, heldVars
  <1>2. ASSUME NEW i \in Objects, NEW f \in Fields, NEW v \in Values \cup {None},
               OtherWrite(i, f, v) \/ LegacyWrite(i, f, v)
        PROVE HeldOK'
    BY <1>1, <1>2 DEF OtherWrite, LegacyWrite
  <1>3. ASSUME NEW i \in Objects, OtherDelete(i) \/ Update(i) PROVE HeldOK'
    BY <1>1, <1>3 DEF OtherDelete, Update
  <1>4. ASSUME NEW i \in Objects, Get(i) PROVE HeldOK'
    BY <1>4, ConstantFacts DEF Get, HeldOK, TypeOK
  <1>5. ASSUME NEW i \in Objects, Patch(i) PROVE HeldOK'
    <2>1. CASE UNCHANGED heldVars /\ current' \subseteq current
      BY <1>1, <2>1
    <2>2. CASE /\ held' = [held EXCEPT ![i] = Forced(i)]
               /\ stamped' = stamped \cup {i}
               /\ current' = current \cup {i}
      BY <2>2, ForcedType DEF HeldOK, TypeOK
    <2> QED BY <1>5, <2>1, <2>2 DEF Patch
  <1>6. CASE ServiceAccountEvent \/ Reconcile \/ UNCHANGED vars
    BY <1>1, <1>6 DEF ServiceAccountEvent, Reconcile, vars
  <1>7. CASE Stop \/ \E r \in Releases : Start(r)
    BY <1>7, ConstantFacts DEF Stop, Start, HeldOK, TypeOK
  <1> QED BY <1>2, <1>3, <1>4, <1>5, <1>6, <1>7 DEF Next

LEMMA TypeStep == TypeOK /\ [Next]_vars => TypeOK'
  <1>1. TypeOK' <=> ApiOK' /\ ControlOK' /\ HeldOK'
    BY DEF TypeOK, ApiOK, ControlOK, HeldOK
  <1> QED BY <1>1, ApiStep, ControlStep, HeldStep

(***************************************************************************)
(* The rest of the invariant: what each step does to the objects, ...      *)
(***************************************************************************)

LEMMA ManagingStep == Inv /\ [Next]_vars => Managing' /\ Absent'
  <1> SUFFICES ASSUME Inv, [Next]_vars PROVE Managing' /\ Absent'
    OBVIOUS
  <1> USE DEF Inv
  <1>1. ASSUME NEW i \in Objects, NEW es \in SUBSET Objects, NEW c \in Contents,
               NEW m \in [Fields -> SUBSET Managers], NewVersion(i, es, c, m),
               exists \ {i} = es \ {i},
               \A f \in Fields : m[f] = {} <=> c[f] = None,
               i \notin es => c = NoContent
        PROVE Managing' /\ Absent'
    <2>1. /\ exists' = es /\ value'[i] = c /\ managers'[i] = m
          /\ \A j \in Objects \ {i} : value'[j] = value[j] /\ managers'[j] = managers[j]
      BY <1>1, Written
    <2>2. Managing'
      BY <1>1, <2>1 DEF Managing
    <2>3. ASSUME NEW j \in Objects, j \notin exists' PROVE value'[j] = NoContent
      <3>1. CASE j = i
        BY <1>1, <2>1, <2>3, <3>1
      <3>2. CASE j # i
        BY <1>1, <2>1, <2>3, <3>2 DEF Absent
      <3> QED BY <3>1, <3>2
    <2>4. Absent'
      BY <2>3 DEF Absent, NoContent
    <2> QED BY <2>2, <2>4
  <1>2. ASSUME NEW i \in Objects, NEW f \in Fields, NEW v \in Values \cup {None},
               OtherWrite(i, f, v) \/ LegacyWrite(i, f, v)
        PROVE Managing' /\ Absent'
    <2>1. PICK m \in Managers, es \in SUBSET Objects :
            /\ NewVersion(i, es, [value[i] EXCEPT ![f] = v], SetBy(m, i, f, v))
            /\ exists \ {i} = es \ {i}
            /\ i \in es
      <3>1. CASE OtherWrite(i, f, v)
        BY <3>1 DEF OtherWrite, Managers, TypeOK
      <3>2. CASE LegacyWrite(i, f, v)
        <4>1. NewVersion(i, exists \cup {i}, [value[i] EXCEPT ![f] = v], SetBy("legacy", i, f, v))
          BY <3>2 DEF LegacyWrite
        <4>2. /\ "legacy" \in Managers /\ exists \cup {i} \in SUBSET Objects
              /\ exists \ {i} = (exists \cup {i}) \ {i}
          BY DEF Managers, TypeOK
        <4> QED BY <4>1, <4>2
      <3> QED BY <1>2, <3>1, <3>2
    <2>2. /\ [value[i] EXCEPT ![f] = v] \in Contents
          /\ SetBy(m, i, f, v) \in [Fields -> SUBSET Managers]
      BY SetByType
    <2>3. ASSUME NEW g \in Fields
          PROVE  SetBy(m, i, f, v)[g] = {} <=> [value[i] EXCEPT ![f] = v][g] = None
      <3>1. value[i] \in [Fields -> Values \cup {None}] /\ managers[i] \in [Fields -> SUBSET Managers]
        BY DEF TypeOK, Contents
      <3>2. managers[i][g] = {} <=> value[i][g] = None
        BY DEF Managing
      <3>3. CASE g = f
        BY <3>1, <3>2, <3>3, ValuesAssumption DEF SetBy
      <3>4. CASE g # f
        BY <3>1, <3>2, <3>4 DEF SetBy
      <3> QED BY <3>3, <3>4
    <2> DEFINE c == [value[i] EXCEPT ![f] = v]
               n == SetBy(m, i, f, v)
    <2>4. /\ c \in Contents /\ n \in [Fields -> SUBSET Managers]
          /\ \A g \in Fields : n[g] = {} <=> c[g] = None
          /\ NewVersion(i, es, c, n)
      BY <2>1, <2>2, <2>3
    <2> HIDE DEF c, n
    <2> QED BY <1>1, <2>1, <2>4
  <1>3. ASSUME NEW i \in Objects, OtherDelete(i) PROVE Managing' /\ Absent'
    <2>1. [f \in Fields |-> {}] \in [Fields -> SUBSET Managers]
      OBVIOUS
    <2>2. /\ exists \ {i} \in SUBSET Objects
          /\ exists \ {i} = (exists \ {i}) \ {i}
          /\ \A f \in Fields : [g \in Fields |-> {}][f] = {} <=> NoContent[f] = None
      BY DEF TypeOK, NoContent
    <2>3. NewVersion(i, exists \ {i}, NoContent, [f \in Fields |-> {}])
      BY <1>3 DEF OtherDelete
    <2>4. NoContent \in Contents
      BY ConstantFacts
    <2> QED BY <1>1, <2>1, <2>2, <2>3, <2>4
  <1>4. ASSUME UNCHANGED apiVars PROVE Managing' /\ Absent'
    BY <1>4 DEF Managing, Absent, apiVars, NoContent
  <1>5. ASSUME NEW i \in Objects, Update(i) PROVE Managing' /\ Absent'
    <2>1. CASE Accepted(i) /\ NewVersion(i, exists, value[i], Upgraded(i))
      <3>1. \A f \in Fields : Upgraded(i)[f] = {} <=> value[i][f] = None
        BY DEF Upgraded, Managing
      <3>2. i \in exists
        BY <1>5, <2>1 DEF Update, Accepted, MigratedBeforePatch
      <3>3. exists \in SUBSET Objects
        BY DEF TypeOK
      <3> QED BY <1>1, <2>1, <3>1, <3>2, <3>3, UpgradedType
    <2>2. CASE UNCHANGED apiVars
      BY <1>4, <2>2
    <2> QED BY <1>5, <2>1, <2>2 DEF Update, apiVars
  <1>6. ASSUME NEW i \in Objects, Patch(i) PROVE Managing' /\ Absent'
    <2>1. CASE NewVersion(i, exists \cup {i}, Forced(i), ForcedManagers(i))
      <3>1. \A f \in Fields : ForcedManagers(i)[f] = {} <=> Forced(i)[f] = None
        BY DEF Forced, ForcedManagers, Managing, TypeOK
      <3>2. exists \cup {i} \in SUBSET Objects /\ exists \ {i} = (exists \cup {i}) \ {i}
        BY DEF TypeOK
      <3> QED BY <1>1, <2>1, <3>1, <3>2, ForcedType
    <2>2. CASE UNCHANGED apiVars
      BY <1>4, <2>2
    <2> QED BY <1>6, <2>1, <2>2 DEF Patch, apiVars
  <1>7. ASSUME NEW i \in Objects, Get(i) PROVE Managing' /\ Absent'
    BY <1>4, <1>7 DEF Get, apiVars
  <1>8. CASE ServiceAccountEvent \/ Stop \/ Reconcile \/ \E r \in Releases : Start(r)
    BY <1>4, <1>8 DEF ServiceAccountEvent, Stop, Reconcile, Start, apiVars
  <1>9. CASE UNCHANGED vars
    BY <1>4, <1>9 DEF vars, apiVars
  <1> QED BY <1>2, <1>3, <1>5, <1>6, <1>7, <1>8, <1>9 DEF Next

(* ... what the Patch makes of an object whose template is as it was       *)
(* loaded, ...                                                             *)
LEMMA PatchedFresh ==
  ASSUME Inv, NEW i \in Objects, held[i] = Desired(i), Migrated(i)
  PROVE  \A f \in Fields :
            /\ Forced(i)[f] = IF Desired(i)[f] # None THEN Desired(i)[f]
                              ELSE IF f \in Foreign(i) THEN value[i][f] ELSE None
            /\ "other" \in ForcedManagers(i)[f] <=>
                    f \in Foreign(i) /\ Desired(i)[f] \in {None, value[i][f]}
            /\ "legacy" \notin ForcedManagers(i)[f]
  <1> SUFFICES ASSUME NEW f \in Fields
               PROVE  /\ Forced(i)[f] = IF Desired(i)[f] # None THEN Desired(i)[f]
                                        ELSE IF f \in Foreign(i) THEN value[i][f] ELSE None
                      /\ "other" \in ForcedManagers(i)[f] <=>
                            f \in Foreign(i) /\ Desired(i)[f] \in {None, value[i][f]}
                      /\ "legacy" \notin ForcedManagers(i)[f]
    OBVIOUS
  <1>1. /\ managers[i][f] \subseteq {"apply", "other"}
        /\ f \in Foreign(i) <=> "other" \in managers[i][f]
        /\ managers[i][f] = {} <=> value[i][f] = None
    BY DEF Inv, TypeOK, Managers, Migrated, Foreign, Managing
  <1>2. ForcedManagers(i)[f] =
            IF Desired(i)[f] = None THEN managers[i][f] \ {"apply"}
            ELSE IF Desired(i)[f] = value[i][f] THEN managers[i][f] \cup {"apply"}
            ELSE {"apply"}
    BY DEF ForcedManagers
  <1>3. Forced(i)[f] =
            IF Desired(i)[f] # None THEN Desired(i)[f]
            ELSE IF ForcedManagers(i)[f] = {} THEN None ELSE value[i][f]
    BY DEF Forced
  <1>4. CASE Desired(i)[f] = None
    <2>1. ForcedManagers(i)[f] = managers[i][f] \ {"apply"}
      BY <1>2, <1>4
    <2>2. ForcedManagers(i)[f] = {} <=> "other" \notin managers[i][f]
      BY <1>1, <2>1
    <2> QED BY <1>1, <1>3, <1>4, <2>1, <2>2
  <1>5. CASE Desired(i)[f] # None /\ Desired(i)[f] = value[i][f]
    BY <1>1, <1>2, <1>3, <1>5
  <1>6. CASE Desired(i)[f] # None /\ Desired(i)[f] # value[i][f]
    BY <1>1, <1>2, <1>3, <1>6
  <1> QED BY <1>4, <1>5, <1>6

(* ... and of one whose copy is the current version: nothing.              *)
LEMMA PatchedCurrent ==
  ASSUME Inv, NEW i \in current
  PROVE  /\ i \in exists
         /\ Forced(i) = value[i]
         /\ \A f \in Fields :
                /\ "other" \in ForcedManagers(i)[f] <=> f \in Foreign(i)
                /\ "legacy" \notin ForcedManagers(i)[f]
  <1>1. /\ i \in Objects /\ i \in exists /\ held[i] = value[i] /\ Migrated(i)
        /\ value[i] \in [Fields -> Values \cup {None}]
    BY DEF Inv, HeldCurrent, TypeOK, Contents
  <1>2. ASSUME NEW f \in Fields
        PROVE  /\ Forced(i)[f] = value[i][f]
               /\ "other" \in ForcedManagers(i)[f] <=> f \in Foreign(i)
               /\ "legacy" \notin ForcedManagers(i)[f]
    <2>1. /\ managers[i][f] = {} <=> value[i][f] = None
          /\ "legacy" \notin managers[i][f]
          /\ f \in Foreign(i) <=> "other" \in managers[i][f]
      BY <1>1 DEF Inv, Managing, Migrated, Foreign
    <2>2. ForcedManagers(i)[f] = IF value[i][f] = None THEN managers[i][f] \ {"apply"}
                                 ELSE managers[i][f] \cup {"apply"}
      BY <1>1 DEF ForcedManagers
    <2>3. Forced(i)[f] = IF value[i][f] # None THEN value[i][f]
                         ELSE IF ForcedManagers(i)[f] = {} THEN None ELSE value[i][f]
      BY <1>1 DEF Forced
    <2> QED BY <2>1, <2>2, <2>3
  <1>3. Forced(i) = value[i]
    BY <1>1, <1>2 DEF Forced
  <1> QED BY <1>1, <1>2, <1>3

(* A Patch that is not refused does one or the other.                      *)
LEMMA PatchCases ==
  ASSUME Inv, NEW i \in Objects, Patch(i), ~Refused(i)
  PROVE  (held[i] = Desired(i) /\ Migrated(i)) \/ i \in current
  BY DEF Inv, Patch, Refused, HeldFresh, MigratedBeforePatch

LEMMA PatchedAsDescribed ==
  ASSUME Inv, NEW i \in Objects, Patch(i), ~Refused(i)
  PROVE  \A f \in Fields :
            /\ \/ Forced(i)[f] = Desired(i)[f]
               \/ Desired(i)[f] = None /\ "other" \in ForcedManagers(i)[f]
            /\ "legacy" \notin ForcedManagers(i)[f]
  <1>1. CASE held[i] = Desired(i) /\ Migrated(i)
    BY <1>1, PatchedFresh
  <1>2. CASE i \in current
    <2>1. AsDescribed(i)
      BY <1>2 DEF Inv, HeldCurrent
    <2> QED BY <1>2, <2>1, PatchedCurrent DEF AsDescribed
  <1> QED BY <1>1, <1>2, PatchCases

(***************************************************************************)
(* The remaining conjuncts, step by step.                                  *)
(***************************************************************************)

LEMMA MigratedStep == Inv /\ [Next]_vars => MigratedBeforePatch'
  <1> SUFFICES ASSUME Inv, [Next]_vars PROVE MigratedBeforePatch'
    OBVIOUS
  <1> USE DEF Inv
  <1>1. ASSUME NEW i \in Objects, NEW f \in Fields, NEW v \in Values \cup {None},
               OtherWrite(i, f, v)
        PROVE MigratedBeforePatch'
    <2>1. NewVersion(i, exists, [value[i] EXCEPT ![f] = v], SetBy("other", i, f, v))
      BY <1>1 DEF OtherWrite
    <2>2. /\ managers'[i] = SetBy("other", i, f, v) /\ exists' = exists
          /\ \A j \in Objects \ {i} : managers'[j] = managers[j]
          /\ fetched' => fetched /\ i # at
      BY <2>1, SetByType, Written DEF Managers, TypeOK
    <2>3. \A g \in Fields : "legacy" \in SetBy("other", i, f, v)[g] => "legacy" \in managers[i][g]
      BY DEF SetBy, TypeOK
    <2>4. at \in Objects /\ at' = at /\ pc' = pc
      BY <1>1 DEF OtherWrite, TypeOK
    <2>5. Migrated(at) => Migrated(at)'
      <3>1. CASE at = i
        BY <2>2, <2>3, <2>4, <3>1 DEF Migrated
      <3>2. CASE at # i
        BY <2>2, <2>4, <3>2 DEF Migrated
      <3> QED BY <3>1, <3>2
    <2> QED BY <2>2, <2>4, <2>5 DEF MigratedBeforePatch
  <1>2. ASSUME NEW i \in Objects, NEW f \in Fields, NEW v \in Values \cup {None},
               LegacyWrite(i, f, v)
        PROVE MigratedBeforePatch'
    <2>1. pc' = "down" /\ ~fetched
      BY <1>2 DEF LegacyWrite, MigratedBeforePatch
    <2>2. ~fetched'
      BY <1>2, <2>1 DEF LegacyWrite, NewVersion
    <2> QED BY <2>1, <2>2 DEF MigratedBeforePatch
  <1>3. ASSUME NEW i \in Objects, OtherDelete(i) PROVE MigratedBeforePatch'
    <2>1. NewVersion(i, exists \ {i}, NoContent, [f \in Fields |-> {}])
      BY <1>3 DEF OtherDelete
    <2>2. exists \ {i} \in SUBSET Objects /\ [f \in Fields |-> {}] \in [Fields -> SUBSET Managers]
      BY DEF TypeOK
    <2>3. /\ managers'[i] = [f \in Fields |-> {}] /\ exists' = exists \ {i}
          /\ \A j \in Objects \ {i} : managers'[j] = managers[j]
          /\ fetched' => fetched /\ i # at
      BY <2>1, <2>2, Written, ConstantFacts
    <2>4. at \in Objects /\ at' = at /\ pc' = pc
      BY <1>3 DEF OtherDelete, TypeOK
    <2>5. Migrated(at) => Migrated(at)'
      BY <2>3, <2>4 DEF Migrated
    <2> QED BY <2>3, <2>4, <2>5 DEF MigratedBeforePatch
  <1>4. ASSUME NEW i \in Objects, Get(i) PROVE MigratedBeforePatch'
    <2>1. UNCHANGED apiVars /\ at' = at /\ at = i /\ ~fetched
      BY <1>4 DEF Get, Fails, MigratedBeforePatch
    <2>2. CASE i \in exists /\ isSsaMigrationNeeded(i) /\ pc' = "update" /\ fetched'
      BY <2>1, <2>2 DEF MigratedBeforePatch, apiVars
    <2>3. CASE (i \notin exists \/ ~isSsaMigrationNeeded(i)) /\ pc' = "patch" /\ fetched' = fetched
      <3>1. Migrated(i)
        <4>1. CASE i \notin exists
          BY <4>1 DEF Absent, Managing, Migrated, NoContent
        <4>2. CASE ~isSsaMigrationNeeded(i)
          BY <4>2 DEF isSsaMigrationNeeded, Migrated
        <4> QED BY <2>3, <4>1, <4>2
      <3> QED BY <2>1, <2>3, <3>1 DEF MigratedBeforePatch, Migrated, apiVars
    <2>4. CASE Fails /\ fetched' = fetched
      BY <2>1, <2>4 DEF Fails, MigratedBeforePatch
    <2> QED BY <1>4, <2>2, <2>3, <2>4 DEF Get
  <1>5. ASSUME NEW i \in Objects, Update(i) PROVE MigratedBeforePatch'
    <2>1. CASE NewVersion(i, exists, value[i], Upgraded(i))
      <3>1. managers'[i] = Upgraded(i) /\ ~fetched'
        <4>1. exists \in SUBSET Objects /\ at = i
          BY <1>5 DEF Update, TypeOK
        <4> QED BY <2>1, <4>1, UpgradedType, Written
      <3>2. \A f \in Fields : "legacy" \notin Upgraded(i)[f]
        BY DEF Upgraded
      <3>3. at' = i
        BY <1>5 DEF Update, Fails
      <3> QED BY <3>1, <3>2, <3>3 DEF MigratedBeforePatch, Migrated
    <2>2. CASE Fails /\ fetched' = FALSE
      BY <2>2 DEF Fails, MigratedBeforePatch
    <2> QED BY <1>5, <2>1, <2>2 DEF Update
  <1>6. ASSUME NEW i \in Objects, Patch(i) PROVE MigratedBeforePatch'
    <2>1. pc' \in {"idle", "get"}
      BY <1>6 DEF Patch, ApplyAllContinues, Fails
    <2>2. ~fetched
      BY <1>6 DEF Patch, MigratedBeforePatch
    <2>3. ~fetched'
      BY <1>6, <2>2 DEF Patch, NewVersion
    <2> QED BY <2>1, <2>3 DEF MigratedBeforePatch
  <1>7. CASE ServiceAccountEvent \/ UNCHANGED vars
    BY <1>7 DEF ServiceAccountEvent, vars, apiVars, MigratedBeforePatch, Migrated
  <1>8. CASE Stop \/ Reconcile \/ \E r \in Releases : Start(r)
    BY <1>8 DEF Stop, Reconcile, Start, MigratedBeforePatch
  <1> QED BY <1>1, <1>2, <1>3, <1>4, <1>5, <1>6, <1>7, <1>8 DEF Next

LEMMA NothingHeldStep == Inv /\ [Next]_vars => NothingHeld'
  <1> SUFFICES ASSUME Inv, [Next]_vars PROVE NothingHeld'
    OBVIOUS
  <1>1. ASSUME NEW i \in Objects, NEW f \in Fields, NEW v \in Values \cup {None},
               OtherWrite(i, f, v) \/ LegacyWrite(i, f, v)
        PROVE NothingHeld'
    BY <1>1 DEF Inv, NothingHeld, OtherWrite, LegacyWrite, heldVars
  <1>2. ASSUME NEW i \in Objects, OtherDelete(i) PROVE NothingHeld'
    BY <1>2 DEF Inv, NothingHeld, OtherDelete, heldVars
  <1>3. ASSUME pc' # "down" PROVE NothingHeld'
    BY <1>3 DEF NothingHeld
  <1>4. ASSUME NEW i \in Objects, Get(i) \/ Update(i) PROVE NothingHeld'
    BY <1>3, <1>4 DEF Get, Update, Fails
  <1>5. ASSUME NEW i \in Objects, Patch(i) PROVE NothingHeld'
    BY <1>3, <1>5 DEF Patch, ApplyAllContinues, Fails
  <1>6. CASE Reconcile \/ \E r \in Releases : Start(r)
    BY <1>3, <1>6 DEF Reconcile, Start
  <1>7. CASE ServiceAccountEvent \/ Stop \/ UNCHANGED vars
    BY <1>7 DEF Inv, NothingHeld, ServiceAccountEvent, Stop, vars, heldVars
  <1> QED BY <1>1, <1>2, <1>4, <1>5, <1>6, <1>7 DEF Next

LEMMA HeldFreshStep == Inv /\ [Next]_vars => HeldFresh'
  <1> SUFFICES ASSUME Inv, [Next]_vars PROVE HeldFresh'
    OBVIOUS
  <1> USE DEF Inv
  <1>1. ASSUME UNCHANGED <<pc, at, release, heldVars>> PROVE HeldFresh'
    BY <1>1 DEF HeldFresh, Desired, heldVars
  <1>2. ASSUME NEW i \in Objects, NEW f \in Fields, NEW v \in Values \cup {None},
               OtherWrite(i, f, v) \/ LegacyWrite(i, f, v)
        PROVE HeldFresh'
    BY <1>1, <1>2 DEF OtherWrite, LegacyWrite, heldVars
  <1>3. ASSUME NEW i \in Objects, OtherDelete(i) PROVE HeldFresh'
    BY <1>1, <1>3 DEF OtherDelete, heldVars
  <1>4. ASSUME NEW i \in Objects, Get(i) PROVE HeldFresh'
    <2>1. /\ held' = [held EXCEPT ![i] = Configured(held[i])] /\ stamped' = stamped
          /\ release' = release /\ pc # "down" /\ at' = i
      BY <1>4 DEF Get, Fails
    <2>2. Configured(Template[release][i]) = Desired(i)
      BY DEF Desired
    <2>3. Configured(Desired(i)) = Desired(i)
      BY ConstantFacts DEF Desired, TypeOK, Configured
    <2>4. i \notin stamped => held'[i] = Desired(i)
      BY <2>1, <2>2, <2>3 DEF HeldFresh, TypeOK
    <2>5. \A j \in Objects \ {i} : held'[j] = held[j]
      BY <2>1 DEF TypeOK
    <2> QED BY <2>1, <2>4, <2>5 DEF HeldFresh, Desired
  <1>5. ASSUME NEW i \in Objects, Update(i) PROVE HeldFresh'
    <2>1. UNCHANGED <<at, release, held, stamped>> /\ pc = "update" /\ pc' # "down"
      BY <1>5 DEF Update, Fails, heldVars
    <2> QED BY <2>1 DEF HeldFresh, Desired
  <1>6. ASSUME NEW i \in Objects, Patch(i) PROVE HeldFresh'
    <2>1. release' = release /\ pc = "patch" /\ pc' \in {"idle", "get"}
      BY <1>6 DEF Patch, ApplyAllContinues, Fails
    <2>2. \/ UNCHANGED <<held, stamped>>
          \/ held' = [held EXCEPT ![i] = Forced(i)] /\ stamped' = stamped \cup {i}
      BY <1>6 DEF Patch, heldVars
    <2>3. \A j \in Objects \ stamped' : j \notin stamped /\ held'[j] = held[j]
      BY <2>2 DEF TypeOK
    <2> QED BY <2>1, <2>3 DEF HeldFresh, Desired
  <1>7. CASE Reconcile
    BY <1>7 DEF Reconcile, HeldFresh, Desired, heldVars
  <1>8. ASSUME NEW r \in Releases, Start(r) PROVE HeldFresh'
    BY <1>8 DEF Start, HeldFresh, Desired
  <1>9. CASE Stop
    BY <1>9 DEF Stop, HeldFresh
  <1>10. CASE ServiceAccountEvent \/ UNCHANGED vars
    BY <1>1, <1>10 DEF ServiceAccountEvent, vars, heldVars
  <1> QED BY <1>2, <1>3, <1>4, <1>5, <1>6, <1>7, <1>8, <1>9, <1>10 DEF Next

LEMMA HeldCurrentStep == Inv /\ [Next]_vars => HeldCurrent'
  <1> SUFFICES ASSUME Inv, [Next]_vars PROVE HeldCurrent'
    OBVIOUS
  <1> USE DEF Inv
  <1>1. ASSUME NEW i \in Objects, i \in current, i \in exists',
               value'[i] = value[i], managers'[i] = managers[i], held'[i] = held[i],
               release' = release
        PROVE  i \in exists' /\ held'[i] = value'[i] /\ AsDescribed(i)' /\ Migrated(i)'
    BY <1>1 DEF HeldCurrent, AsDescribed, Migrated, Foreign, Desired
  <1>2. ASSUME NEW i \in Objects, NEW es \in SUBSET Objects, NEW c \in Contents,
               NEW m \in [Fields -> SUBSET Managers], NewVersion(i, es, c, m),
               exists \ {i} = es \ {i}, current' \subseteq current \ {i},
               \A j \in Objects \ {i} : held'[j] = held[j], release' = release
        PROVE HeldCurrent'
    <2>1. /\ exists' = es
          /\ \A j \in Objects \ {i} : value'[j] = value[j] /\ managers'[j] = managers[j]
      BY <1>2, Written
    <2>2. ASSUME NEW j \in current'
          PROVE  j \in exists' /\ held'[j] = value'[j] /\ AsDescribed(j)' /\ Migrated(j)'
      <3>1. j \in Objects \ {i} /\ j \in current /\ j \in exists'
        BY <1>2, <2>1, <2>2 DEF TypeOK, HeldCurrent
      <3> QED BY <1>1, <1>2, <2>1, <3>1
    <2> QED BY <2>2 DEF HeldCurrent
  <1>3. ASSUME NEW i \in Objects, NEW f \in Fields, NEW v \in Values \cup {None},
               OtherWrite(i, f, v)
        PROVE HeldCurrent'
    <2> DEFINE c == [value[i] EXCEPT ![f] = v]
               n == SetBy("other", i, f, v)
    <2>1. c \in Contents /\ n \in [Fields -> SUBSET Managers] /\ exists \in SUBSET Objects
      BY SetByType DEF Managers, TypeOK
    <2>2. /\ NewVersion(i, exists, c, n) /\ current' = current \ {i}
          /\ held' = held /\ release' = release
      BY <1>3 DEF OtherWrite, heldVars
    <2> HIDE DEF c, n
    <2> QED BY <1>2, <2>1, <2>2
  <1>4. ASSUME current' = {} PROVE HeldCurrent'
    BY <1>4 DEF HeldCurrent
  <1>5. ASSUME NEW i \in Objects, NEW f \in Fields, NEW v \in Values \cup {None},
               LegacyWrite(i, f, v)
        PROVE HeldCurrent'
    BY <1>4, <1>5 DEF LegacyWrite, NothingHeld
  <1>6. ASSUME NEW i \in Objects, OtherDelete(i) PROVE HeldCurrent'
    <2>1. /\ NoContent \in Contents /\ exists \ {i} \in SUBSET Objects
          /\ [f \in Fields |-> {}] \in [Fields -> SUBSET Managers]
      BY ConstantFacts DEF TypeOK
    <2>2. /\ NewVersion(i, exists \ {i}, NoContent, [f \in Fields |-> {}])
          /\ current' = current \ {i} /\ held' = held /\ release' = release
      BY <1>6 DEF OtherDelete, heldVars
    <2> QED BY <1>2, <2>1, <2>2
  <1>7. ASSUME UNCHANGED <<apiVars, release, held>>, current' = current PROVE HeldCurrent'
    BY <1>7 DEF HeldCurrent, AsDescribed, Migrated, Foreign, Desired, apiVars
  <1>8. ASSUME NEW i \in Objects, Get(i) PROVE HeldCurrent'
    <2>1. /\ held' = [held EXCEPT ![i] = Configured(held[i])] /\ current' = current
          /\ UNCHANGED apiVars /\ release' = release
      BY <1>8 DEF Get
    <2>2. ASSUME i \in current PROVE Configured(held[i]) = held[i]
      <3>1. held[i][Label] = Provider
        BY <2>2, DesiredFacts, ConstantFacts, FieldsAssumption DEF HeldCurrent, AsDescribed
      <3> QED BY <3>1 DEF Configured, TypeOK, Contents
    <2>3. \A j \in current : held'[j] = held[j]
      BY <2>1, <2>2 DEF TypeOK
    <2> QED
      BY <2>1, <2>3 DEF HeldCurrent, AsDescribed, Migrated, Foreign, Desired, apiVars
  <1>9. ASSUME NEW i \in Objects, Update(i) PROVE HeldCurrent'
    <2>1. held' = held /\ release' = release
      BY <1>9 DEF Update, heldVars
    <2>2. CASE NewVersion(i, exists, value[i], Upgraded(i)) /\ current' = current \ {i}
      <3>1. exists \in SUBSET Objects
        BY DEF TypeOK
      <3> QED BY <1>2, <2>1, <2>2, <3>1, UpgradedType
    <2>3. CASE UNCHANGED <<apiVars, current>>
      BY <1>7, <2>1, <2>3
    <2> QED BY <1>9, <2>2, <2>3 DEF Update
  <1>10. ASSUME NEW i \in Objects, Patch(i) PROVE HeldCurrent'
    <2>1. release' = release
      BY <1>10 DEF Patch
    <2>2. CASE UNCHANGED <<apiVars, heldVars, current>>
      BY <1>7, <2>1, <2>2 DEF heldVars
    <2>3. CASE ~Refused(i) /\ NewVersion(i, exists \cup {i}, Forced(i), ForcedManagers(i))
      <3>1. /\ exists' = exists \cup {i}
            /\ value'[i] = Forced(i) /\ managers'[i] = ForcedManagers(i)
            /\ \A j \in Objects \ {i} : value'[j] = value[j] /\ managers'[j] = managers[j]
        <4>1. exists \cup {i} \in SUBSET Objects
          BY DEF TypeOK
        <4> QED BY <2>3, <4>1, Written, ForcedType
      <3>2. \A j \in Objects \ {i} : held'[j] = held[j]
        BY <1>10, <2>3 DEF Patch, heldVars, TypeOK
      <3>3. ASSUME NEW j \in current', j # i
            PROVE  j \in exists' /\ held'[j] = value'[j] /\ AsDescribed(j)' /\ Migrated(j)'
        <4>1. j \in current /\ j \in Objects
          BY <1>10, <2>3, <3>3 DEF Patch, TypeOK
        <4>2. j \in exists'
          BY <3>1, <4>1 DEF HeldCurrent
        <4> QED BY <1>1, <2>1, <3>1, <3>2, <3>3, <4>1, <4>2
      <3>4. AsDescribed(i)' /\ Migrated(i)'
        BY <1>10, <2>1, <2>3, <3>1, PatchedAsDescribed
           DEF AsDescribed, Migrated, Foreign, Desired
      <3>5. ASSUME i \in current' PROVE held'[i] = value'[i]
        <4>1. CASE held' = [held EXCEPT ![i] = Forced(i)]
          BY <3>1, <4>1 DEF TypeOK
        <4>2. CASE UNCHANGED heldVars /\ i \in current
          BY <3>1, <4>2, PatchedCurrent DEF HeldCurrent, heldVars
        <4>3. CASE UNCHANGED heldVars /\ current' \subseteq current
          BY <3>5, <4>2, <4>3
        <4>4. \/ held' = [held EXCEPT ![i] = Forced(i)]
              \/ UNCHANGED heldVars /\ current' \subseteq current
          BY <1>10 DEF Patch
        <4> QED BY <4>1, <4>3, <4>4
      <3> QED BY <3>1, <3>3, <3>4, <3>5 DEF HeldCurrent
    <2> QED BY <1>10, <2>2, <2>3 DEF Patch
  <1>11. CASE Stop \/ \E r \in Releases : Start(r)
    BY <1>4, <1>11 DEF Stop, Start, NothingHeld
  <1>12. CASE ServiceAccountEvent \/ Reconcile \/ UNCHANGED vars
    BY <1>7, <1>12 DEF ServiceAccountEvent, Reconcile, vars, heldVars
  <1> QED
    BY <1>3, <1>5, <1>6, <1>8, <1>9, <1>10, <1>11, <1>12 DEF Next

(* A good object is labelled, so a write that makes it bad is noticed.     *)
LEMMA GoodNoticed ==
  ASSUME Inv, NEW i \in Objects, Good(i), pc # "down", release' = release,
         i \in exists' => exists' = exists, ~Enqueues(i)
  PROVE  Good(i)'
  <1>1. value[i][Label] = Provider
    BY DesiredFacts, ConstantFacts DEF Inv, Good
  <1>2. MapToController(i)
    BY <1>1 DEF MapToController
  <1>3. exists' = exists /\ ~LabelsAndGenerationPredicate(i)
    BY <1>2 DEF Enqueues
  <1>4. \A f \in {Label} \cup SpecFields : value'[i][f] = value[i][f]
    BY <1>3 DEF LabelsAndGenerationPredicate
  <1> QED BY <1>3, <1>4 DEF Good, Desired

LEMMA GoodStep == Inv /\ [Next]_vars => GoodSoFar'
  <1> SUFFICES ASSUME Inv, [Next]_vars PROVE GoodSoFar'
    OBVIOUS
  <1> USE DEF Inv
  <1>1. ASSUME NEW i \in Objects, i \in exists', value'[i] = value[i], release' = release, Good(i)
        PROVE Good(i)'
    BY <1>1 DEF Good, Desired
  <1>2. ASSUME queued' \/ pc' = "down" PROVE GoodSoFar'
    BY <1>2 DEF GoodSoFar
  <1>3. ASSUME UNCHANGED <<exists, value, release, pc, at>>, queued' \/ queued' = queued
        PROVE GoodSoFar'
    BY <1>3 DEF GoodSoFar, Good, Desired
  <1>4. ASSUME NEW i \in Objects, NEW es \in SUBSET Objects, NEW c \in Contents,
               NEW m \in [Fields -> SUBSET Managers], NewVersion(i, es, c, m),
               exists \ {i} = es \ {i}, i \in exists,
               queued' = (queued \/ Enqueues(i)), UNCHANGED <<pc, at, release>>
        PROVE GoodSoFar'
    <2> SUFFICES ASSUME pc # "down", ~queued, ~Enqueues(i),
                        NEW j \in Objects, pc = "idle" \/ j < at
                 PROVE  Good(j)'
      BY <1>4 DEF GoodSoFar
    <2>1. Good(j)
      BY DEF GoodSoFar
    <2>2. exists' = es /\ \A k \in Objects \ {i} : value'[k] = value[k]
      BY <1>4, Written
    <2>3. CASE j = i
      <3>1. i \in exists' => exists' = exists
        BY <1>4, <2>2
      <3> QED BY <1>4, <2>1, <2>3, <3>1, GoodNoticed
    <2>4. CASE j # i
      <3>1. j \in exists'
        BY <1>4, <2>1, <2>2, <2>4 DEF Good
      <3> QED BY <1>1, <1>4, <2>1, <2>2, <2>4, <3>1
    <2> QED BY <2>3, <2>4
  <1>5. ASSUME NEW i \in Objects, NEW f \in Fields, NEW v \in Values \cup {None},
               OtherWrite(i, f, v)
        PROVE GoodSoFar'
    <2> DEFINE c == [value[i] EXCEPT ![f] = v]
               n == SetBy("other", i, f, v)
    <2>1. c \in Contents /\ n \in [Fields -> SUBSET Managers] /\ exists \in SUBSET Objects
      BY SetByType DEF Managers, TypeOK
    <2>2. /\ NewVersion(i, exists, c, n) /\ i \in exists
          /\ queued' = (queued \/ Enqueues(i)) /\ UNCHANGED <<pc, at, release>>
      BY <1>5 DEF OtherWrite
    <2> HIDE DEF c, n
    <2> QED BY <1>4, <2>1, <2>2
  <1>6. ASSUME NEW i \in Objects, NEW f \in Fields, NEW v \in Values \cup {None},
               LegacyWrite(i, f, v)
        PROVE GoodSoFar'
    BY <1>2, <1>6 DEF LegacyWrite
  <1>7. ASSUME NEW i \in Objects, OtherDelete(i) PROVE GoodSoFar'
    <2>1. /\ NoContent \in Contents /\ exists \ {i} \in SUBSET Objects
          /\ [f \in Fields |-> {}] \in [Fields -> SUBSET Managers]
      BY ConstantFacts DEF TypeOK
    <2>2. /\ NewVersion(i, exists \ {i}, NoContent, [f \in Fields |-> {}]) /\ i \in exists
          /\ queued' = (queued \/ Enqueues(i)) /\ UNCHANGED <<pc, at, release>>
      BY <1>7 DEF OtherDelete
    <2> QED BY <1>4, <2>1, <2>2
  <1>8. ASSUME NEW i \in Objects, Get(i) PROVE GoodSoFar'
    <2>1. CASE Fails
      BY <1>2, <2>1 DEF Fails
    <2>2. CASE /\ UNCHANGED <<apiVars, release, at, queued>>
               /\ pc = "get" /\ pc' \in {"update", "patch"}
      BY <2>2 DEF GoodSoFar, Good, Desired, apiVars
    <2> QED BY <1>8, <2>1, <2>2 DEF Get
  <1>9. ASSUME NEW i \in Objects, Update(i) PROVE GoodSoFar'
    <2>1. CASE Fails
      BY <1>2, <2>1 DEF Fails
    <2>2. CASE /\ NewVersion(i, exists, value[i], Upgraded(i))
               /\ UNCHANGED <<at, queued>> /\ pc' = "patch"
      <3>1. exists \in SUBSET Objects
        BY DEF TypeOK
      <3>2. exists' = exists /\ \A j \in Objects : value'[j] = value[j]
        BY <2>2, <3>1, UpgradedType, Written
      <3>3. release' = release /\ pc = "update"
        BY <1>9 DEF Update
      <3> QED BY <2>2, <3>2, <3>3 DEF GoodSoFar, Good, Desired
    <2> QED BY <1>9, <2>1, <2>2 DEF Update
  <1>10. ASSUME NEW i \in Objects, Patch(i) PROVE GoodSoFar'
    <2>1. CASE Fails
      BY <1>2, <2>1 DEF Fails
    <2>2. CASE /\ ~Refused(i)
               /\ NewVersion(i, exists \cup {i}, Forced(i), ForcedManagers(i))
               /\ ApplyAllContinues(i)
               /\ queued' = (queued \/ Enqueues(i))
      <3>1. /\ exists' = exists \cup {i} /\ value'[i] = Forced(i)
            /\ \A j \in Objects \ {i} : value'[j] = value[j]
        <4>1. exists \cup {i} \in SUBSET Objects
          BY DEF TypeOK
        <4> QED BY <2>2, <4>1, Written, ForcedType
      <3>2. release' = release /\ pc = "patch" /\ at = i
        BY <1>10 DEF Patch
      <3>3. Good(i)'
        <4>1. \A f \in Fields : Desired(i)[f] \in {None, Forced(i)[f]}
          BY <1>10, <2>2, PatchedAsDescribed
        <4> QED BY <3>1, <3>2, <4>1, FieldsAssumption DEF Good, Desired
      <3>4. ASSUME NEW j \in Objects, pc' = "idle" \/ j < at', j # i PROVE j < at
        BY <2>2, <3>2, <3>4, NAssumption DEF ApplyAllContinues, Objects
      <3>5. ASSUME ~queued, NEW j \in Objects, pc' = "idle" \/ j < at' PROVE Good(j)'
        <4>1. CASE j = i
          BY <3>3, <4>1
        <4>2. CASE j # i
          <5>1. Good(j)
            BY <3>2, <3>4, <3>5, <4>2 DEF GoodSoFar
          <5>2. j \in exists'
            BY <3>1, <5>1 DEF Good
          <5> QED BY <1>1, <3>1, <3>2, <4>2, <5>1, <5>2
        <4> QED BY <4>1, <4>2
      <3> QED BY <2>2, <3>5 DEF GoodSoFar
    <2> QED BY <1>10, <2>1, <2>2 DEF Patch
  <1>11. CASE Stop \/ \E r \in Releases : Start(r)
    BY <1>2, <1>11 DEF Stop, Start
  <1>12. CASE Reconcile
    BY <1>12 DEF Reconcile, GoodSoFar, Objects
  <1>13. CASE ServiceAccountEvent \/ UNCHANGED vars
    BY <1>3, <1>13 DEF ServiceAccountEvent, vars, apiVars
  <1> QED
    BY <1>5, <1>6, <1>7, <1>8, <1>9, <1>10, <1>11, <1>12, <1>13 DEF Next

(***************************************************************************)
(* The theorems.                                                           *)
(***************************************************************************)

LEMMA InitInv == Init => Inv
  <1> SUFFICES ASSUME Init PROVE Inv
    OBVIOUS
  <1>1. TypeOK
    <2>1. value \in [Objects -> Contents] /\ held \in [Objects -> Contents]
      BY ConstantFacts DEF Init
    <2>2. managers \in [Objects -> [Fields -> SUBSET Managers]]
      BY DEF Init
    <2>3. /\ exists \subseteq Objects /\ at \in Objects /\ release \in Releases
          /\ stamped \subseteq Objects /\ current \subseteq stamped
      BY NAssumption DEF Init, Objects
    <2>4. /\ pc \in {"down", "idle", "get", "update", "patch"}
          /\ fetched \in BOOLEAN /\ queued \in BOOLEAN
      BY DEF Init
    <2>5. edits \in 0 .. MaxEdits /\ faults \in 0 .. MaxFaults
      BY BoundsAssumption DEF Init
    <2> QED BY <2>1, <2>2, <2>3, <2>4, <2>5 DEF TypeOK
  <1>2. Managing /\ Absent
    BY DEF Init, Managing, Absent, NoContent
  <1>3. MigratedBeforePatch /\ HeldFresh /\ HeldCurrent /\ NothingHeld /\ GoodSoFar
    BY DEF Init, MigratedBeforePatch, HeldFresh, HeldCurrent, NothingHeld, GoodSoFar
  <1> QED BY <1>1, <1>2, <1>3 DEF Inv

LEMMA StepInv == Inv /\ [Next]_vars => Inv'
  BY TypeStep, ManagingStep, MigratedStep, HeldFreshStep, HeldCurrentStep, NothingHeldStep,
     GoodStep
     DEF Inv

(* The invariant of the controller and the apply client holds in every     *)
(* state.                                                                  *)
THEOREM Invariance == Spec => []Inv
  BY InitInv, StepInv, PTL DEF Spec

(* The variables of ClusterResources.tla keep their types.                 *)
THEOREM TypeCorrect == Spec => []TypeOK
  BY Invariance, PTL DEF Inv

(* ApplyObject prunes and completes: what has been applied and not written *)
(* since is the template plus what others manage.                          *)
THEOREM AppliedCorrect == Spec => []AppliedAsDescribed
  <1>1. Inv => AppliedAsDescribed
    BY DEF Inv, HeldCurrent, AsDescribed, AppliedAsDescribed
  <1> QED BY <1>1, Invariance, PTL

(* LabelsAndGenerationPredicate and MapToControllerByMatchingLabel let     *)
(* every event through that Reconcile has to answer.                       *)
THEOREM RestsCorrect == Spec => []RestsOnlyWhenApplied
  <1>1. Inv => RestsOnlyWhenApplied
    BY DEF Inv, GoodSoFar, Good, RestsOnlyWhenApplied
  <1> QED BY <1>1, Invariance, PTL

(***************************************************************************)
(* The refinement.                                                         *)
(***************************************************************************)

LEMMA ManagedInit == Init => Managed!Init
  <1> SUFFICES ASSUME Init PROVE Managed!Init
    OBVIOUS
  <1>1. TypeOK
    BY InitInv DEF Inv
  <1>2. /\ exists \in SUBSET Objects
        /\ value \in Managed!Contents
        /\ [i \in Objects |-> Desired(i)] \in Managed!Contents
    BY <1>1, DesiredFacts DEF TypeOK, Managed!Contents, Contents
  <1>3. [i \in Objects |-> Foreign(i)] = [i \in Objects |-> {}]
    BY DEF Init, Foreign
  <1> QED BY <1>2, <1>3 DEF Managed!Init

(* What a write of one object does to the mapped state.                    *)
LEMMA MappedWrite ==
  ASSUME Inv, NEW i \in Objects, NEW es, NEW c \in Contents,
         NEW m \in [Fields -> SUBSET Managers], NewVersion(i, es, c, m), release' = release
  PROVE  /\ exists' = es
         /\ value' = [value EXCEPT ![i] = c]
         /\ [j \in Objects |-> Foreign(j)]' =
                [[j \in Objects |-> Foreign(j)] EXCEPT ![i] = {f \in Fields : "other" \in m[f]}]
         /\ UNCHANGED [j \in Objects |-> Desired(j)]
  <1>1. TypeOK
    BY DEF Inv
  <1>2. /\ managers'[i] = m
        /\ \A j \in Objects \ {i} : managers'[j] = managers[j]
    BY <1>1 DEF TypeOK, NewVersion
  <1>3. [j \in Objects |-> Foreign(j)]' =
            [[j \in Objects |-> Foreign(j)] EXCEPT ![i] = {f \in Fields : "other" \in m[f]}]
    BY <1>2 DEF Foreign
  <1>4. exists' = es /\ value' = [value EXCEPT ![i] = c]
    BY DEF NewVersion
  <1> QED BY <1>3, <1>4 DEF Desired

(* Steps that neither write the cluster nor change the release.            *)
LEMMA MappedStutter ==
  ASSUME UNCHANGED <<apiVars, release>>
  PROVE  UNCHANGED Managed!vars
  BY DEF apiVars, Managed!vars, Foreign, Desired

LEMMA ManagedStep == Inv /\ [Next]_vars => [Managed!Next]_(Managed!vars)
  <1> SUFFICES ASSUME Inv, [Next]_vars PROVE Managed!Next \/ UNCHANGED Managed!vars
    BY DEF Managed!vars
  <1> USE DEF Inv
  <1>1. ASSUME NEW i \in Objects, NEW f \in Fields, NEW v \in Values \cup {None},
               OtherWrite(i, f, v)
        PROVE Managed!Next
    <2> DEFINE c == [value[i] EXCEPT ![f] = v]
               n == SetBy("other", i, f, v)
    <2>1. c \in Contents /\ n \in [Fields -> SUBSET Managers] /\ exists \in SUBSET Objects
      BY SetByType DEF Managers, TypeOK
    <2>2. NewVersion(i, exists, c, n) /\ i \in exists /\ release' = release
      BY <1>1 DEF OtherWrite
    <2>3. {g \in Fields : "other" \in n[g]} =
            IF v = None THEN Foreign(i) \ {f} ELSE Foreign(i) \cup {f}
      <3>1. \A g \in Fields :
                n[g] = IF g = f THEN (IF v = None THEN {}
                                      ELSE IF v = value[i][f] THEN managers[i][f] \cup {"other"}
                                      ELSE {"other"})
                       ELSE managers[i][g]
        BY DEF SetBy, TypeOK
      <3> HIDE DEF n
      <3> QED BY <3>1 DEF Foreign
    <2>4. [value EXCEPT ![i] = c] = [value EXCEPT ![i][f] = v]
      OBVIOUS
    <2> HIDE DEF c, n
    <2>5. /\ exists' = exists /\ value' = [value EXCEPT ![i] = c]
          /\ [j \in Objects |-> Foreign(j)]' =
                 [[j \in Objects |-> Foreign(j)] EXCEPT ![i] = {g \in Fields : "other" \in n[g]}]
          /\ UNCHANGED [j \in Objects |-> Desired(j)]
      BY <2>1, <2>2, MappedWrite
    <2>6. [[j \in Objects |-> Foreign(j)] EXCEPT
                ![i] = IF v = None THEN @ \ {f} ELSE @ \cup {f}] =
          [[j \in Objects |-> Foreign(j)] EXCEPT ![i] = {g \in Fields : "other" \in n[g]}]
      BY <2>3
    <2>7. Managed!Write(i, f, v)
      BY <2>2, <2>4, <2>5, <2>6 DEF Managed!Write
    <2> QED BY <2>7 DEF Managed!Next
  <1>2. ASSUME NEW i \in Objects, NEW f \in Fields, NEW v \in Values \cup {None},
               LegacyWrite(i, f, v)
        PROVE Managed!Next
    <2> DEFINE c == [value[i] EXCEPT ![f] = v]
               n == SetBy("legacy", i, f, v)
    <2>1. /\ c \in Contents /\ n \in [Fields -> SUBSET Managers]
          /\ exists \cup {i} \in SUBSET Objects
      BY SetByType DEF Managers, TypeOK
    <2>2. NewVersion(i, exists \cup {i}, c, n) /\ release' = release
      BY <1>2 DEF LegacyWrite
    <2>3. v # value[i][f] \/ v # None
      BY <1>2 DEF LegacyWrite
    <2>4. {g \in Fields : "other" \in n[g]} =
            IF v = value[i][f] THEN Foreign(i) ELSE Foreign(i) \ {f}
      <3>1. \A g \in Fields :
                n[g] = IF g = f THEN (IF v = None THEN {}
                                      ELSE IF v = value[i][f] THEN managers[i][f] \cup {"legacy"}
                                      ELSE {"legacy"})
                       ELSE managers[i][g]
        BY DEF SetBy, TypeOK
      <3> HIDE DEF n
      <3> QED BY <2>3, <3>1 DEF Foreign
    <2>5. [value EXCEPT ![i] = c] = [value EXCEPT ![i][f] = v]
      OBVIOUS
    <2> HIDE DEF c, n
    <2>6. /\ exists' = exists \cup {i} /\ value' = [value EXCEPT ![i] = c]
          /\ [j \in Objects |-> Foreign(j)]' =
                 [[j \in Objects |-> Foreign(j)] EXCEPT ![i] = {g \in Fields : "other" \in n[g]}]
          /\ UNCHANGED [j \in Objects |-> Desired(j)]
      <3> DEFINE e == exists \cup {i}
      <3>1. /\ e \in SUBSET Objects /\ c \in Contents /\ n \in [Fields -> SUBSET Managers]
            /\ NewVersion(i, e, c, n) /\ release' = release
        BY <2>1, <2>2
      <3> HIDE DEF e
      <3>2. /\ exists' = e /\ value' = [value EXCEPT ![i] = c]
            /\ [j \in Objects |-> Foreign(j)]' =
                   [[j \in Objects |-> Foreign(j)] EXCEPT ![i] = {g \in Fields : "other" \in n[g]}]
            /\ UNCHANGED [j \in Objects |-> Desired(j)]
        BY <3>1, MappedWrite
      <3> QED BY <3>2 DEF e
    <2>7. [[j \in Objects |-> Foreign(j)] EXCEPT
                ![i] = IF v = value[i][f] THEN @ ELSE @ \ {f}] =
          [[j \in Objects |-> Foreign(j)] EXCEPT ![i] = {g \in Fields : "other" \in n[g]}]
      BY <2>4
    <2>8. Managed!EarlierWrite(i, f, v)
      BY <2>5, <2>6, <2>7 DEF Managed!EarlierWrite
    <2> QED BY <2>8 DEF Managed!Next
  <1>3. ASSUME NEW i \in Objects, OtherDelete(i) PROVE Managed!Next
    <2>1. /\ NoContent \in Contents /\ exists \ {i} \in SUBSET Objects
          /\ [f \in Fields |-> {}] \in [Fields -> SUBSET Managers]
      BY ConstantFacts DEF TypeOK
    <2>2. /\ NewVersion(i, exists \ {i}, NoContent, [f \in Fields |-> {}])
          /\ release' = release
      BY <1>3 DEF OtherDelete
    <2> DEFINE n == [f \in Fields |-> {}]
    <2>3. {f \in Fields : "other" \in n[f]} = {}
      OBVIOUS
    <2>4. /\ n \in [Fields -> SUBSET Managers]
          /\ NewVersion(i, exists \ {i}, NoContent, n)
      BY <2>1, <2>2
    <2> HIDE DEF n
    <2>5. /\ exists' = exists \ {i} /\ value' = [value EXCEPT ![i] = NoContent]
          /\ [j \in Objects |-> Foreign(j)]' =
                 [[j \in Objects |-> Foreign(j)] EXCEPT ![i] = {f \in Fields : "other" \in n[f]}]
          /\ UNCHANGED [j \in Objects |-> Desired(j)]
      <3> DEFINE e == exists \ {i}
      <3>1. /\ e \in SUBSET Objects /\ NoContent \in Contents
            /\ n \in [Fields -> SUBSET Managers]
            /\ NewVersion(i, e, NoContent, n) /\ release' = release
        BY <2>1, <2>2, <2>4
      <3> HIDE DEF e
      <3>2. /\ exists' = e /\ value' = [value EXCEPT ![i] = NoContent]
            /\ [j \in Objects |-> Foreign(j)]' =
                   [[j \in Objects |-> Foreign(j)] EXCEPT ![i] = {f \in Fields : "other" \in n[f]}]
            /\ UNCHANGED [j \in Objects |-> Desired(j)]
        BY <3>1, MappedWrite
      <3> QED BY <3>2 DEF e
    <2>6. Managed!Delete(i)
      BY <2>3, <2>5 DEF Managed!Delete, NoContent
    <2> QED BY <2>6 DEF Managed!Next
  <1>4. ASSUME NEW i \in Objects, Get(i) PROVE UNCHANGED Managed!vars
    BY <1>4, MappedStutter DEF Get, apiVars
  <1>5. ASSUME NEW i \in Objects, Update(i) PROVE UNCHANGED Managed!vars
    <2>1. release' = release
      BY <1>5 DEF Update
    <2>2. CASE UNCHANGED apiVars
      BY <2>1, <2>2, MappedStutter
    <2>3. CASE NewVersion(i, exists, value[i], Upgraded(i))
      <3>1. {f \in Fields : "other" \in Upgraded(i)[f]} = Foreign(i)
        BY DEF Upgraded, Foreign
      <3>2. exists \in SUBSET Objects
        BY DEF TypeOK
      <3>3. /\ exists' = exists /\ value' = [value EXCEPT ![i] = value[i]]
            /\ [j \in Objects |-> Foreign(j)]' =
                 [[j \in Objects |-> Foreign(j)] EXCEPT ![i] = Foreign(i)]
            /\ UNCHANGED [j \in Objects |-> Desired(j)]
        <4> DEFINE n == Upgraded(i)
        <4>1. n \in [Fields -> SUBSET Managers] /\ value[i] \in Contents
          BY UpgradedType DEF TypeOK
        <4>2. NewVersion(i, exists, value[i], n)
          BY <2>3
        <4>3. {f \in Fields : "other" \in n[f]} = Foreign(i)
          BY <3>1
        <4> HIDE DEF n
        <4> QED BY <2>1, <3>2, <4>1, <4>2, <4>3, MappedWrite
      <3>4. /\ [value EXCEPT ![i] = value[i]] = value
            /\ [[j \in Objects |-> Foreign(j)] EXCEPT ![i] = Foreign(i)] =
                    [j \in Objects |-> Foreign(j)]
        BY DEF TypeOK
      <3> QED BY <3>3, <3>4 DEF Managed!vars
    <2> QED BY <1>5, <2>2, <2>3 DEF Update
  <1>6. ASSUME NEW i \in Objects, Patch(i) PROVE Managed!Next \/ UNCHANGED Managed!vars
    <2>1. release' = release
      BY <1>6 DEF Patch
    <2>2. CASE UNCHANGED apiVars
      BY <2>1, <2>2, MappedStutter
    <2>3. CASE ~Refused(i) /\ NewVersion(i, exists \cup {i}, Forced(i), ForcedManagers(i))
      <3> DEFINE F == {f \in Fields : "other" \in ForcedManagers(i)[f]}
      <3>1. /\ exists' = exists \cup {i} /\ value' = [value EXCEPT ![i] = Forced(i)]
            /\ [j \in Objects |-> Foreign(j)]' =
                    [[j \in Objects |-> Foreign(j)] EXCEPT ![i] = F]
            /\ UNCHANGED [j \in Objects |-> Desired(j)]
        <4> DEFINE n == ForcedManagers(i)
                   c == Forced(i)
                   e == exists \cup {i}
        <4>1. e \in SUBSET Objects
          BY DEF TypeOK
        <4>2. n \in [Fields -> SUBSET Managers] /\ c \in Contents
          BY ForcedType
        <4>3. NewVersion(i, e, c, n)
          BY <2>3
        <4>4. F = {f \in Fields : "other" \in n[f]} /\ c = Forced(i)
          OBVIOUS
        <4> HIDE DEF n, c, e, F
        <4>5. /\ exists' = e /\ value' = [value EXCEPT ![i] = c]
              /\ [j \in Objects |-> Foreign(j)]' =
                     [[j \in Objects |-> Foreign(j)] EXCEPT ![i] = {f \in Fields : "other" \in n[f]}]
              /\ UNCHANGED [j \in Objects |-> Desired(j)]
          BY <2>1, <4>1, <4>2, <4>3, MappedWrite
        <4> QED BY <4>4, <4>5 DEF e
      <3>2. CASE held[i] = Desired(i) /\ Migrated(i)
        <4>1. F = {f \in Foreign(i) : Desired(i)[f] \in {None, value[i][f]}}
          BY <3>2, PatchedFresh DEF Foreign
        <4>2. Forced(i) = [f \in Fields |->
                              IF Desired(i)[f] # None THEN Desired(i)[f]
                              ELSE IF f \in Foreign(i) THEN value[i][f] ELSE None]
          BY <3>2, PatchedFresh DEF Forced
        <4>3. Managed!Merged(i) = Forced(i)
          BY <4>2 DEF Managed!Merged
        <4> HIDE DEF F
        <4>4. Managed!Apply(i)
          BY <3>1, <4>1, <4>3 DEF Managed!Apply
        <4> QED BY <4>4 DEF Managed!Next
      <3>3. CASE i \in current
        <4>1. F = Foreign(i) /\ Forced(i) = value[i] /\ i \in exists
          BY <3>3, PatchedCurrent DEF Foreign
        <4>2. /\ [value EXCEPT ![i] = value[i]] = value
              /\ [[j \in Objects |-> Foreign(j)] EXCEPT ![i] = Foreign(i)] =
                      [j \in Objects |-> Foreign(j)]
          BY DEF TypeOK
        <4> HIDE DEF F
        <4> QED BY <3>1, <4>1, <4>2 DEF Managed!vars
      <3> QED BY <1>6, <2>3, <3>2, <3>3, PatchCases
    <2> QED BY <1>6, <2>2, <2>3 DEF Patch, apiVars
  <1>7. ASSUME NEW r \in Releases, Start(r) PROVE Managed!Next
    <2>1. release' \in Releases /\ UNCHANGED apiVars
      BY <1>7 DEF Start
    <2>2. [i \in Objects |-> Desired(i)]' \in Managed!Contents
      BY <2>1, ConstantFacts DEF Desired, Managed!Contents, Contents
    <2>3. Managed!Release
      BY <2>1, <2>2 DEF Managed!Release, Foreign, apiVars
    <2> QED BY <2>3 DEF Managed!Next
  <1>8. CASE ServiceAccountEvent \/ Stop \/ Reconcile \/ UNCHANGED vars
    BY <1>8, MappedStutter DEF ServiceAccountEvent, Stop, Reconcile, vars, apiVars
  <1> QED BY <1>1, <1>2, <1>3, <1>4, <1>5, <1>6, <1>7, <1>8 DEF Next

(* The controller and the apply client implement ManagedObjects: beside    *)
(* other writers, failing calls and restarts, the only visible step of the *)
(* operator is the application of a template at once.                      *)
THEOREM Refinement == Spec => ManagedSpec
  <1>1. Spec => Managed!Init /\ [][Managed!Next]_(Managed!vars)
    BY Invariance, ManagedInit, ManagedStep, PTL DEF Spec
  <1> QED BY <1>1 DEF ManagedSpec, Managed!Spec
=============================================================================
