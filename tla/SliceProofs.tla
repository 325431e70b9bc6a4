---------------------------- MODULE SliceProofs ----------------------------
(***************************************************************************)
(* Proofs about the parts that work on slices and strings:                 *)
(* UserSignupStates, for any sequence of calls, StatusConditions, for any  *)
(* types, statuses, reasons and any number of conditions, and Usernames,   *)
(* for usernames and limits of any length.                                 *)
(***************************************************************************)
EXTENDS UserSignupStates, StatusConditions, Usernames, TLAPS, NaturalsInduction,
        WellFoundedInduction, SequenceTheorems, FiniteSetTheorems

(***************************************************************************)
(* The first match in a sequence.                                          *)
(***************************************************************************)

(* A set of indices has its least element in it.                           *)
LEMMA MinOfIndices ==
    ASSUME NEW I \in SUBSET Nat, I # {}
    PROVE  Min(I) \in I /\ \A i \in I : Min(I) <= i
<1>1. \E m \in I : \A i \in I : m <= i
  <2>1. PICK m \in I : \A i \in I : ~(<<i, m>> \in OpToRel(<, Nat))
    BY NatLessThanWellFounded, WFMin, Zenon DEF OpToRel
  <2>2. \A i \in I : ~(i < m)
    BY <2>1, Zenon DEF OpToRel
  <2>3. \A i \in I : m <= i
    BY <2>2
  <2>. QED BY <2>3
<1>. QED BY <1>1 DEF Min

(***************************************************************************)
(* The states.                                                             *)
(***************************************************************************)

State == {"approved", "verificationRequired", "deactivating", "deactivated", "rejected"}

(* A state is listed once: remove, which drops the first occurrence only,  *)
(* then drops the state.                                                   *)
NoDuplicates(s) == \A i, j \in 1 .. Len(s) : s[i] = s[j] => i = j

(* append unless it is there.                                              *)
LEMMA AppendedSets ==
    ASSUME NEW s \in Seq(State), NoDuplicates(s), NEW state \in State
    PROVE  /\ Appended(s, state) \in Seq(State)
           /\ NoDuplicates(Appended(s, state))
           /\ Contains(Appended(s, state), state)
           /\ \A other \in State \ {state} : Contains(Appended(s, state), other) <=> Contains(s, other)
<1>1. CASE Contains(s, state)
  BY <1>1 DEF Appended
<1>2. CASE ~Contains(s, state)
  <2>. DEFINE t == Append(s, state)
  <2>1. Appended(s, state) = t
    BY <1>2 DEF Appended
  <2>2. /\ t \in Seq(State) /\ Len(t) = Len(s) + 1
        /\ \A i \in 1 .. Len(s) : t[i] = s[i]
        /\ t[Len(s) + 1] = state
    OBVIOUS
  <2>3. \A i \in 1 .. Len(s) : s[i] # state
    BY <1>2 DEF Contains
  <2>. HIDE DEF t
  <2>4. NoDuplicates(t)
    BY <2>2, <2>3 DEF NoDuplicates
  <2>5. Contains(t, state)
    BY <2>2 DEF Contains
  <2>6. \A other \in State \ {state} : Contains(t, other) <=> Contains(s, other)
    BY <2>2 DEF Contains
  <2>. QED BY <2>1, <2>2, <2>4, <2>5, <2>6
<1>. QED BY <1>1, <1>2

(* remove takes the only occurrence.                                       *)
LEMMA RemoveFirstUnsets ==
    ASSUME NEW s \in Seq(State), NoDuplicates(s), NEW state \in State
    PROVE  /\ RemoveFirst(s, state) \in Seq(State)
           /\ NoDuplicates(RemoveFirst(s, state))
           /\ ~Contains(RemoveFirst(s, state), state)
           /\ \A other \in State \ {state} : Contains(RemoveFirst(s, state), other) <=> Contains(s, other)
<1>1. CASE ~Contains(s, state)
  BY <1>1 DEF RemoveFirst, Contains
<1>2. CASE Contains(s, state)
  <2>. DEFINE I == {i \in 1 .. Len(s) : s[i] = state}
              k == Min(I)
              t == SubSeq(s, 1, k - 1) \o SubSeq(s, k + 1, Len(s))
  <2>1. I \in SUBSET Nat /\ I # {}
    BY <1>2 DEF Contains
  <2>2. RemoveFirst(s, state) = t
    BY <1>2, <2>1 DEF RemoveFirst, Contains, SelectInSeq, RemoveAt
  <2>3. k \in 1 .. Len(s) /\ s[k] = state
    BY <2>1, MinOfIndices
  <2>. HIDE DEF k
  <2>4. /\ t \in Seq(State) /\ Len(t) = Len(s) - 1
        /\ \A i \in 1 .. Len(s) - 1 : t[i] = IF i < k THEN s[i] ELSE s[i + 1]
    <3>. DEFINE a == SubSeq(s, 1, k - 1)
                b == SubSeq(s, k + 1, Len(s))
    <3>1. a \in Seq(State) /\ Len(a) = k - 1 /\ \A i \in 1 .. k - 1 : a[i] = s[i]
      BY <2>3
    <3>2. /\ b \in Seq(State) /\ Len(b) = Len(s) - k
          /\ \A i \in 1 .. Len(s) - k : b[i] = s[i + k]
      BY <2>3
    <3>. HIDE DEF a, b
    <3>3. k \in Nat /\ k >= 1 /\ Len(s) \in Nat /\ k <= Len(s)
      BY <2>3
    <3>4. /\ a \o b \in Seq(State) /\ Len(a \o b) = Len(a) + Len(b)
          /\ \A i \in 1 .. Len(a) + Len(b) :
                (a \o b)[i] = IF i <= Len(a) THEN a[i] ELSE b[i - Len(a)]
      BY <3>1, <3>2, ConcatProperties
    <3>5. ASSUME NEW i \in 1 .. Len(s) - 1
          PROVE  (a \o b)[i] = IF i < k THEN s[i] ELSE s[i + 1]
      BY <3>1, <3>2, <3>3, <3>4
    <3>6. Len(a \o b) = Len(s) - 1
      BY <3>1, <3>2, <3>3, <3>4
    <3>. QED BY <3>4, <3>5, <3>6 DEF a, b
  <2>. HIDE DEF t
  <2>5. NoDuplicates(t)
    BY <2>3, <2>4 DEF NoDuplicates
  <2>6. ~Contains(t, state)
    BY <2>3, <2>4 DEF NoDuplicates, Contains
  <2>7. ASSUME NEW other \in State \ {state}
        PROVE  Contains(t, other) <=> Contains(s, other)
    <3>1. ASSUME NEW i \in 1 .. Len(s), s[i] = other
          PROVE  \E j \in 1 .. Len(t) : t[j] = other
      <4>1. CASE i < k
        <5>1. i \in 1 .. Len(t) /\ t[i] = s[i]
          BY <4>1, <2>3, <2>4
        <5>. QED BY <5>1, <3>1
      <4>2. CASE i > k
        <5>1. i - 1 \in 1 .. Len(t) /\ t[i - 1] = s[i]
          BY <4>2, <2>3, <2>4
        <5>. QED BY <5>1, <3>1
      <4>3. i # k
        BY <3>1, <2>3
      <4>. QED BY <4>1, <4>2, <4>3, <2>3
    <3>2. ASSUME NEW j \in 1 .. Len(t), t[j] = other
          PROVE  \E i \in 1 .. Len(s) : s[i] = other
      BY <3>2, <2>3, <2>4
    <3>. QED BY <3>1, <3>2 DEF Contains
  <2>. QED BY <2>2, <2>4, <2>5, <2>6, <2>7
<1>. QED BY <1>1, <1>2

(* setState makes the getter of its state answer val and leaves the other  *)
(* states alone.                                                           *)
LEMMA SetStateSets ==
    ASSUME NEW s \in Seq(State), NoDuplicates(s), NEW state \in State, NEW val \in BOOLEAN
    PROVE  /\ setState(s, state, val) \in Seq(State)
           /\ NoDuplicates(setState(s, state, val))
           /\ Contains(setState(s, state, val), state) <=> val
           /\ \A other \in State \ {state} :
                Contains(setState(s, state, val), other) <=> Contains(s, other)
<1>1. CASE val
  <2>1. setState(s, state, val) = Appended(s, state)
    BY <1>1 DEF setState
  <2>. QED BY <1>1, <2>1, AppendedSets, Zenon
<1>2. CASE ~val
  <2>1. setState(s, state, val) = RemoveFirst(s, state)
    BY <1>2 DEF setState
  <2>. QED BY <1>2, <2>1, RemoveFirstUnsets, Zenon
<1>. QED BY <1>1, <1>2

(* What unsetting does, for chains of it.                                  *)
LEMMA UnsetUnsets ==
    ASSUME NEW s \in Seq(State), NoDuplicates(s), NEW state \in State
    PROVE  /\ Unset(s, state) \in Seq(State)
           /\ NoDuplicates(Unset(s, state))
           /\ ~Contains(Unset(s, state), state)
           /\ \A other \in State \ {state} : Contains(Unset(s, state), other) <=> Contains(s, other)
BY SetStateSets, Zenon DEF Unset

StatesInv ==
    /\ states \in Seq(State) /\ NoDuplicates(states)
    /\ DeactivatedExcludes
    /\ LastSetterHolds

LEMMA StatesInvStart == Init => StatesInv
BY DEF Init, StatesInv, NoDuplicates, DeactivatedExcludes, LastSetterHolds, Contains

LEMMA StatesInvStep ==
    ASSUME StatesInv, [Next]_vars
    PROVE  StatesInv'
<1>. USE DEF StatesInv
<1>1. ASSUME NEW val \in BOOLEAN, SetApprovedManually(val)
      PROVE  StatesInv'
  <2>. DEFINE s == setState(states, "approved", val)
              s1 == Unset(s, "verificationRequired")
              s2 == Unset(s1, "deactivating")
              s3 == Unset(s2, "deactivated")
  <2>1. /\ s \in Seq(State) /\ NoDuplicates(s)
        /\ Contains(s, "approved") <=> val
        /\ \A other \in {"deactivating", "deactivated"} : Contains(s, other) <=> Contains(states, other)
    BY SetStateSets, Zenon DEF State
  <2>2. /\ states' = IF val THEN s3 ELSE s
        /\ last' = [setter |-> "SetApprovedManually", val |-> val]
    BY <1>1, Zenon DEF SetApprovedManually, Sets, UnsetByApproved
  <2>. HIDE DEF s
  <2>3. /\ s1 \in Seq(State) /\ NoDuplicates(s1)
        /\ \A other \in {"approved"} : Contains(s1, other) <=> Contains(s, other)
    BY <2>1, UnsetUnsets, Zenon DEF State
  <2>. HIDE DEF s1
  <2>4. /\ s2 \in Seq(State) /\ NoDuplicates(s2)
        /\ \A other \in {"approved"} : Contains(s2, other) <=> Contains(s1, other)
    BY <2>3, UnsetUnsets, Zenon DEF State
  <2>. HIDE DEF s2
  <2>5. /\ s3 \in Seq(State) /\ NoDuplicates(s3) /\ ~Contains(s3, "deactivated")
        /\ \A other \in {"approved"} : Contains(s3, other) <=> Contains(s2, other)
    BY <2>4, UnsetUnsets, Zenon DEF State
  <2>. HIDE DEF s3
  <2>6. Contains(states', "approved") <=> val
    BY <2>1, <2>2, <2>3, <2>4, <2>5, Zenon
  <2>7. DeactivatedExcludes'
    BY <2>1, <2>2, <2>5, Zenon DEF DeactivatedExcludes
  <2>8. LastSetterHolds'
    BY <2>2, <2>6 DEF LastSetterHolds, StateOf
  <2>. QED BY <2>1, <2>2, <2>5, <2>7, <2>8
<1>2. ASSUME NEW val \in BOOLEAN, SetVerificationRequired(val)
      PROVE  StatesInv'
  <2>. DEFINE s == setState(states, "verificationRequired", val)
  <2>1. /\ s \in Seq(State) /\ NoDuplicates(s)
        /\ Contains(s, "verificationRequired") <=> val
        /\ \A other \in {"approved", "deactivating", "deactivated"} :
            Contains(s, other) <=> Contains(states, other)
    BY SetStateSets, Zenon DEF State
  <2>2. states' = s /\ last' = [setter |-> "SetVerificationRequired", val |-> val]
    BY <1>2, Zenon DEF SetVerificationRequired, Sets
  <2>. HIDE DEF s
  <2>3. DeactivatedExcludes'
    BY <2>1, <2>2, Zenon DEF DeactivatedExcludes
  <2>4. LastSetterHolds'
    BY <2>1, <2>2 DEF LastSetterHolds, StateOf
  <2>. QED BY <2>1, <2>2, <2>3, <2>4
<1>3. ASSUME NEW val \in BOOLEAN, SetDeactivating(val)
      PROVE  StatesInv'
  <2>. DEFINE s == setState(states, "deactivating", val)
              s1 == Unset(s, "deactivated")
  <2>1. /\ s \in Seq(State) /\ NoDuplicates(s)
        /\ Contains(s, "deactivating") <=> val
        /\ \A other \in {"approved", "deactivated"} : Contains(s, other) <=> Contains(states, other)
    BY SetStateSets, Zenon DEF State
  <2>2. /\ states' = IF val THEN s1 ELSE s
        /\ last' = [setter |-> "SetDeactivating", val |-> val]
    BY <1>3, Zenon DEF SetDeactivating, Sets, UnsetByDeactivating
  <2>. HIDE DEF s
  <2>3. /\ s1 \in Seq(State) /\ NoDuplicates(s1) /\ ~Contains(s1, "deactivated")
        /\ \A other \in {"deactivating"} : Contains(s1, other) <=> Contains(s, other)
    BY <2>1, UnsetUnsets, Zenon DEF State
  <2>. HIDE DEF s1
  <2>4. Contains(states', "deactivating") <=> val
    BY <2>1, <2>2, <2>3, Zenon
  <2>5. DeactivatedExcludes'
    BY <2>1, <2>2, <2>3, Zenon DEF DeactivatedExcludes
  <2>6. LastSetterHolds'
    BY <2>2, <2>4 DEF LastSetterHolds, StateOf
  <2>. QED BY <2>1, <2>2, <2>3, <2>5, <2>6
<1>4. ASSUME NEW val \in BOOLEAN, SetDeactivated(val)
      PROVE  StatesInv'
  <2>. DEFINE s == setState(states, "deactivated", val)
              s1 == Unset(s, "approved")
              s2 == Unset(s1, "deactivating")
  <2>1. s \in Seq(State) /\ NoDuplicates(s) /\ (Contains(s, "deactivated") <=> val)
    BY SetStateSets, Zenon DEF State
  <2>2. /\ states' = IF val THEN s2 ELSE s
        /\ last' = [setter |-> "SetDeactivated", val |-> val]
    BY <1>4, Zenon DEF SetDeactivated, Sets, UnsetByDeactivated
  <2>. HIDE DEF s
  <2>3. /\ s1 \in Seq(State) /\ NoDuplicates(s1) /\ ~Contains(s1, "approved")
        /\ Contains(s1, "deactivated") <=> Contains(s, "deactivated")
    BY <2>1, UnsetUnsets, Zenon DEF State
  <2>. HIDE DEF s1
  <2>4. /\ s2 \in Seq(State) /\ NoDuplicates(s2)
        /\ ~Contains(s2, "approved") /\ ~Contains(s2, "deactivating")
        /\ Contains(s2, "deactivated") <=> Contains(s, "deactivated")
    <3>1. /\ s2 \in Seq(State) /\ NoDuplicates(s2) /\ ~Contains(s2, "deactivating")
          /\ \A other \in {"approved", "deactivated"} : Contains(s2, other) <=> Contains(s1, other)
      BY <2>3, UnsetUnsets, Zenon DEF State
    <3>. HIDE DEF s2
    <3>. QED BY <2>3, <3>1, Zenon
  <2>. HIDE DEF s2
  <2>5. Contains(states', "deactivated") <=> val
    BY <2>1, <2>2, <2>4, Zenon
  <2>6. DeactivatedExcludes'
    BY <2>1, <2>2, <2>4, Zenon DEF DeactivatedExcludes
  <2>7. LastSetterHolds'
    BY <2>2, <2>5 DEF LastSetterHolds, StateOf
  <2>. QED BY <2>1, <2>2, <2>4, <2>6, <2>7
<1>5. ASSUME NEW val \in BOOLEAN, SetRejected(val)
      PROVE  StatesInv'
  <2>. DEFINE s == setState(states, "rejected", val)
  <2>1. /\ s \in Seq(State) /\ NoDuplicates(s)
        /\ Contains(s, "rejected") <=> val
        /\ \A other \in {"approved", "deactivating", "deactivated"} :
            Contains(s, other) <=> Contains(states, other)
    BY SetStateSets, Zenon DEF State
  <2>2. states' = s /\ last' = [setter |-> "SetRejected", val |-> val]
    BY <1>5, Zenon DEF SetRejected, Sets
  <2>. HIDE DEF s
  <2>3. DeactivatedExcludes'
    BY <2>1, <2>2, Zenon DEF DeactivatedExcludes
  <2>4. LastSetterHolds'
    BY <2>1, <2>2 DEF LastSetterHolds, StateOf
  <2>. QED BY <2>1, <2>2, <2>3, <2>4
<1>6. CASE UNCHANGED vars
  BY <1>6 DEF vars, DeactivatedExcludes, LastSetterHolds, NoDuplicates
<1>. QED BY <1>1, <1>2, <1>3, <1>4, <1>5, <1>6 DEF Next

(* The setters of pkg/states in any order never leave a deactivated user   *)
(* approved or about to be deactivated.                                    *)
THEOREM DeactivatedIsExclusive == Spec => []DeactivatedExcludes
<1>1. StatesInv => DeactivatedExcludes
  BY DEF StatesInv
<1>. QED BY <1>1, StatesInvStart, StatesInvStep, PTL DEF Spec

(* After any sequence of setters, the getter of the state that was set     *)
(* last answers what was set.                                              *)
THEOREM LastSetterIsObeyed == Spec => []LastSetterHolds
<1>1. StatesInv => LastSetterHolds
  BY DEF StatesInv
<1>. QED BY <1>1, StatesInvStart, StatesInvStep, PTL DEF Spec

(***************************************************************************)
(* The conditions.                                                         *)
(***************************************************************************)

Condition == [type : ConditionTypes, status : Statuses, reason : Reasons, since : 0 .. MaxAge]

(* i is the index of the first condition of type t.                        *)
First(conds, t, i) ==
    /\ i \in 1 .. Len(conds) /\ conds[i].type = t
    /\ \A j \in 1 .. Len(conds) : conds[j].type = t => i <= j

(* FindConditionByType finds the first one, and none only if there is none. *)
LEMMA FindFirst ==
    ASSUME NEW conds \in Seq(Condition), NEW t
    PROVE  \/ FindConditionByType(conds, t) = 0 /\ \A i \in 1 .. Len(conds) : conds[i].type # t
           \/ FindConditionByType(conds, t) # 0 /\ First(conds, t, FindConditionByType(conds, t))
<1>. DEFINE I == {i \in 1 .. Len(conds) : conds[i].type = t}
<1>1. FindConditionByType(conds, t) = IF I # {} THEN Min(I) ELSE 0
  BY DEF FindConditionByType, SelectInSeq
<1>2. I \in SUBSET Nat
  OBVIOUS
<1>3. CASE I = {}
  BY <1>1, <1>3
<1>4. CASE I # {}
  <2>1. Min(I) \in I /\ \A i \in I : Min(I) <= i
    BY <1>2, <1>4, MinOfIndices
  <2>. QED BY <1>1, <1>4, <2>1 DEF First
<1>. QED BY <1>3, <1>4

(* The first one is the only index that FindConditionByType can return.    *)
LEMMA FirstIsFound ==
    ASSUME NEW conds \in Seq(Condition), NEW t, NEW i, First(conds, t, i)
    PROVE  FindConditionByType(conds, t) = i
BY FindFirst DEF First

LEMMA NoneIsFound ==
    ASSUME NEW conds \in Seq(Condition), NEW t, \A i \in 1 .. Len(conds) : conds[i].type # t
    PROVE  FindConditionByType(conds, t) = 0
BY FindFirst DEF First

(* What the conditions answer for a type is what rep says of it.           *)
Answers(conds, rep, t) ==
    LET i == FindConditionByType(conds, t) IN
    IF i = 0 THEN rep[t].status = "none"
    ELSE /\ conds[i].status = rep[t].status
         /\ conds[i].reason = rep[t].reason
         /\ conds[i].since = rep[t].since

AllAnswer(conds, rep) == \A t \in ConditionTypes : Answers(conds, rep, t)

(* A condition that is appended is found if it is the first of its type.   *)
LEMMA AppendFinds ==
    ASSUME NEW conds \in Seq(Condition), NEW new \in Condition, NEW t \in ConditionTypes
    PROVE  LET i == FindConditionByType(conds, t)
               j == FindConditionByType(Append(conds, new), t)
           IN  /\ Append(conds, new) \in Seq(Condition)
               /\ i # 0 => j = i /\ Append(conds, new)[i] = conds[i]
               /\ i = 0 /\ new.type # t => j = 0
               /\ i = 0 /\ new.type = t => j = Len(conds) + 1 /\ Append(conds, new)[j] = new
<1>. DEFINE ext == Append(conds, new)
            i == FindConditionByType(conds, t)
<1>1. /\ ext \in Seq(Condition) /\ Len(ext) = Len(conds) + 1
      /\ \A k \in 1 .. Len(conds) : ext[k] = conds[k]
      /\ ext[Len(conds) + 1] = new
  OBVIOUS
<1>. HIDE DEF ext
<1>2. CASE i # 0
  <2>1. First(conds, t, i)
    BY <1>2, FindFirst
  <2>. HIDE DEF i
  <2>2. First(ext, t, i)
    BY <2>1, <1>1 DEF First
  <2>3. FindConditionByType(ext, t) = i /\ ext[i] = conds[i]
    BY <2>1, <2>2, <1>1, FirstIsFound DEF First
  <2>. QED BY <1>1, <1>2, <2>3 DEF ext, i
<1>3. CASE i = 0
  <2>1. \A k \in 1 .. Len(conds) : conds[k].type # t
    BY <1>3, FindFirst
  <2>2. new.type # t => FindConditionByType(ext, t) = 0
    BY <2>1, <1>1, NoneIsFound
  <2>3. new.type = t => First(ext, t, Len(conds) + 1)
    BY <2>1, <1>1 DEF First
  <2>4. new.type = t => FindConditionByType(ext, t) = Len(conds) + 1
    BY <2>3, <1>1, FirstIsFound
  <2>. QED BY <1>1, <1>3, <2>2, <2>4 DEF ext
<1>. QED BY <1>2, <1>3

(* Replacing the first condition of a type leaves the others first.        *)
LEMMA ReplaceFinds ==
    ASSUME NEW conds \in Seq(Condition), NEW t \in ConditionTypes,
           NEW k \in 1 .. Len(conds), NEW new \in Condition, conds[k].type = new.type
    PROVE  /\ ReplaceAt(conds, k, new) \in Seq(Condition)
           /\ Len(ReplaceAt(conds, k, new)) = Len(conds)
           /\ FindConditionByType(ReplaceAt(conds, k, new), t) = FindConditionByType(conds, t)
<1>. DEFINE rep == ReplaceAt(conds, k, new)
<1>1. /\ rep \in Seq(Condition) /\ Len(rep) = Len(conds)
      /\ \A j \in 1 .. Len(conds) : rep[j] = IF j = k THEN new ELSE conds[j]
  BY DEF ReplaceAt
<1>. HIDE DEF rep
<1>2. \A j \in 1 .. Len(conds) : rep[j].type = conds[j].type
  BY <1>1
<1>3. CASE FindConditionByType(conds, t) = 0
  <2>1. \A j \in 1 .. Len(rep) : rep[j].type # t
    BY <1>1, <1>2, <1>3, FindFirst
  <2>. QED BY <1>1, <1>3, <2>1, NoneIsFound DEF rep
<1>4. CASE FindConditionByType(conds, t) # 0
  <2>. DEFINE i == FindConditionByType(conds, t)
  <2>1. First(conds, t, i)
    BY <1>4, FindFirst
  <2>. HIDE DEF i
  <2>2. First(rep, t, i)
    BY <1>1, <1>2, <2>1 DEF First
  <2>. QED BY <1>1, <2>2, FirstIsFound DEF rep, i
<1>. QED BY <1>3, <1>4

Report == [status : Statuses \cup {"none"}, reason : Reasons \cup {"none"}, since : 0 .. MaxAge]

LEMMA WithReportType ==
    ASSUME NEW rep \in [ConditionTypes -> Report], NEW new \in Condition
    PROVE  /\ WithReport(rep, new) \in [ConditionTypes -> Report]
           /\ WithReport(rep, new)[new.type] = Reported(rep[new.type], new)
           /\ \A t \in ConditionTypes \ {new.type} : WithReport(rep, new)[t] = rep[t]
<1>1. Reported(rep[new.type], new) \in Report
  BY DEF Reported, Report, Condition
<1>. HIDE DEF Report
<1>2. new.type \in ConditionTypes
  BY DEF Condition
<1>. QED BY <1>1, <1>2 DEF WithReport

(* addOrUpdateStatusCondition makes the conditions answer with the new     *)
(* one, and tells of no update only if it changed nothing.                 *)
LEMMA UpdateAnswers ==
    ASSUME NEW conds \in Seq(Condition), NEW rep \in [ConditionTypes -> Report],
           AllAnswer(conds, rep), NEW new \in Condition, new.since = 0, NEW always
    PROVE  LET res == UpdatedCondition(conds, new, always) IN
           /\ res.conds \in Seq(Condition)
           /\ AllAnswer(res.conds, WithReport(rep, new))
           /\ res.updated \/ res.conds = conds
<1>. DEFINE k == FindConditionByType(conds, new.type)
            res == UpdatedCondition(conds, new, always)
<1>0. new.type \in ConditionTypes
  BY DEF Condition
<1>1. CASE k = 0
  <2>1. res.conds = Append(conds, new) /\ res.updated
    BY <1>1 DEF UpdatedCondition
  <2>. HIDE DEF res
  <2>2. res.conds \in Seq(Condition)
    BY <2>1
  <2>3. ASSUME NEW t \in ConditionTypes
        PROVE  Answers(res.conds, WithReport(rep, new), t)
    <3>1. CASE t = new.type
      <4>1. rep[t].status = "none"
        BY <1>1, <3>1 DEF AllAnswer, Answers
      <4>2. Reported(rep[t], new).since = new.since
        BY <4>1, ConditionAssumption DEF Reported, Condition
      <4>3. /\ FindConditionByType(res.conds, t) = Len(conds) + 1
            /\ res.conds[Len(conds) + 1] = new
        BY <1>1, <2>1, <3>1, AppendFinds
      <4>4. /\ WithReport(rep, new)[t].status = new.status
            /\ WithReport(rep, new)[t].reason = new.reason
            /\ WithReport(rep, new)[t].since = new.since
        <5>1. WithReport(rep, new)[t] = Reported(rep[t], new)
          BY <3>1, WithReportType
        <5>2. /\ Reported(rep[t], new).status = new.status
              /\ Reported(rep[t], new).reason = new.reason
          BY DEF Reported
        <5>. QED BY <5>1, <5>2, <4>2
      <4>5. Len(conds) + 1 # 0
        OBVIOUS
      <4>. QED BY <4>3, <4>4, <4>5 DEF Answers
    <3>2. CASE t # new.type
      <4>1. WithReport(rep, new)[t] = rep[t]
        BY <3>2, WithReportType
      <4>2. Answers(conds, rep, t)
        BY DEF AllAnswer
      <4>3. /\ FindConditionByType(res.conds, t) = FindConditionByType(conds, t)
            /\ FindConditionByType(conds, t) # 0 =>
                res.conds[FindConditionByType(conds, t)] = conds[FindConditionByType(conds, t)]
        <5>1. CASE FindConditionByType(conds, t) = 0
          <6>1. FindConditionByType(Append(conds, new), t) = 0
            BY <3>2, <5>1, AppendFinds
          <6>. QED BY <2>1, <5>1, <6>1
        <5>2. CASE FindConditionByType(conds, t) # 0
          <6>. DEFINE i == FindConditionByType(conds, t)
          <6>1. FindConditionByType(Append(conds, new), t) = i /\ Append(conds, new)[i] = conds[i]
            BY <5>2, AppendFinds
          <6>. HIDE DEF i
          <6>. QED BY <2>1, <6>1 DEF i
        <5>. QED BY <5>1, <5>2
      <4>. QED BY <4>1, <4>2, <4>3 DEF Answers
    <3>. QED BY <3>1, <3>2
  <2>. QED BY <2>1, <2>2, <2>3 DEF AllAnswer, res
<1>2. CASE k # 0 /\ ~always /\ NothingChanged(conds[k], new)
  <2>1. res = [conds |-> conds, updated |-> FALSE]
    BY <1>2 DEF UpdatedCondition
  <2>2. ASSUME NEW t \in ConditionTypes
        PROVE  Answers(conds, WithReport(rep, new), t)
    <3>1. Answers(conds, rep, t)
      BY DEF AllAnswer
    <3>2. CASE t = new.type
      <4>1. /\ conds[k].status = rep[t].status /\ conds[k].reason = rep[t].reason
            /\ conds[k].since = rep[t].since
        BY <1>2, <3>1, <3>2 DEF Answers
      <4>2. conds[k].status = new.status /\ conds[k].reason = new.reason
        BY <1>2 DEF NothingChanged
      <4>3. /\ Reported(rep[t], new).status = conds[k].status
            /\ Reported(rep[t], new).reason = conds[k].reason
            /\ Reported(rep[t], new).since = conds[k].since
        BY <4>1, <4>2 DEF Reported
      <4>. HIDE DEF k
      <4>4. Answers(conds, WithReport(rep, new), t) <=>
                /\ conds[k].status = Reported(rep[t], new).status
                /\ conds[k].reason = Reported(rep[t], new).reason
                /\ conds[k].since = Reported(rep[t], new).since
        BY <1>2, <3>2, WithReportType DEF Answers, k
      <4>. QED BY <4>3, <4>4
    <3>3. CASE t # new.type
      <4>1. WithReport(rep, new)[t] = rep[t]
        BY <3>3, WithReportType
      <4>. QED BY <3>1, <4>1 DEF Answers
    <3>. QED BY <3>2, <3>3
  <2>. QED BY <2>1, <2>2 DEF AllAnswer
<1>3. CASE k # 0 /\ ~(~always /\ NothingChanged(conds[k], new))
  <2>. DEFINE kept == [new EXCEPT !.since = LastTransitionTime(conds[k], new)]
  <2>1. res.conds = ReplaceAt(conds, k, kept) /\ res.updated
    BY <1>3 DEF UpdatedCondition
  <2>2. First(conds, new.type, k)
    BY <1>3, FindFirst
  <2>3. k \in 1 .. Len(conds) /\ conds[k].type = new.type /\ conds[k] \in Condition
    BY <2>2 DEF First
  <2>. HIDE DEF k
  <2>4. /\ kept \in Condition /\ kept.type = new.type /\ kept.status = new.status
        /\ kept.reason = new.reason
        /\ kept.since = IF conds[k].status = new.status THEN conds[k].since ELSE 0
    BY <2>3 DEF Condition, LastTransitionTime
  <2>. HIDE DEF kept, res
  <2>5. /\ res.conds \in Seq(Condition)
        /\ res.conds[k] = kept
        /\ \A j \in 1 .. Len(conds) : j # k => res.conds[j] = conds[j]
    BY <2>1, <2>3, <2>4 DEF ReplaceAt
  <2>6. \A t \in ConditionTypes : FindConditionByType(res.conds, t) = FindConditionByType(conds, t)
    BY <2>1, <2>3, <2>4, ReplaceFinds
  <2>7. ASSUME NEW t \in ConditionTypes
        PROVE  Answers(res.conds, WithReport(rep, new), t)
    <3>1. Answers(conds, rep, t)
      BY DEF AllAnswer
    <3>2. CASE t = new.type
      <4>1. FindConditionByType(conds, t) = k /\ FindConditionByType(res.conds, t) = k
        BY <2>6, <3>2 DEF k
      <4>2. conds[k].status = rep[t].status /\ conds[k].since = rep[t].since
        BY <1>3, <3>1, <4>1 DEF Answers
      <4>3. /\ Reported(rep[t], new).status = kept.status
            /\ Reported(rep[t], new).reason = kept.reason
            /\ Reported(rep[t], new).since = kept.since
        BY <2>4, <4>2 DEF Reported
      <4>4. WithReport(rep, new)[t] = Reported(rep[t], new)
        BY <3>2, WithReportType
      <4>. QED BY <1>3, <2>5, <4>1, <4>3, <4>4 DEF Answers
    <3>3. CASE t # new.type
      <4>1. WithReport(rep, new)[t] = rep[t]
        BY <3>3, WithReportType
      <4>2. FindConditionByType(res.conds, t) = FindConditionByType(conds, t)
        BY <2>6
      <4>3. CASE FindConditionByType(conds, t) = 0
        BY <3>1, <4>1, <4>2, <4>3 DEF Answers
      <4>4. CASE FindConditionByType(conds, t) # 0
        <5>. DEFINE i == FindConditionByType(conds, t)
        <5>1. First(conds, t, i)
          BY <4>4, FindFirst
        <5>. HIDE DEF i
        <5>2. i # k /\ i \in 1 .. Len(conds)
          BY <5>1, <2>3, <3>3 DEF First
        <5>3. res.conds[i] = conds[i]
          BY <5>2, <2>5
        <5>. QED BY <3>1, <4>1, <4>2, <4>4, <5>3 DEF Answers, i
      <4>. QED BY <4>3, <4>4
    <3>. QED BY <3>2, <3>3
  <2>. QED BY <2>1, <2>5, <2>7 DEF AllAnswer, res
<1>. QED BY <1>1, <1>2, <1>3

(* addOrUpdateStatusConditions with two conditions.                        *)
LEMMA UpdatesAnswer ==
    ASSUME NEW conds \in Seq(Condition), NEW rep \in [ConditionTypes -> Report],
           AllAnswer(conds, rep), NEW always,
           NEW c \in Condition, c.since = 0, NEW d \in Condition, d.since = 0
    PROVE  LET res == UpdatedConditions(conds, c, d, always) IN
           /\ res.conds \in Seq(Condition)
           /\ AllAnswer(res.conds, WithReport(WithReport(rep, c), d))
           /\ res.updated \/ res.conds = conds
<1>. DEFINE one == UpdatedCondition(conds, c, always)
            two == UpdatedCondition(one.conds, d, always)
            rep1 == WithReport(rep, c)
            res == UpdatedConditions(conds, c, d, always)
<1>1. /\ one.conds \in Seq(Condition) /\ AllAnswer(one.conds, rep1)
      /\ one.updated \/ one.conds = conds
  BY UpdateAnswers
<1>2. rep1 \in [ConditionTypes -> Report]
  BY WithReportType
<1>3. res.conds = two.conds /\ res.updated = (FALSE \/ one.updated \/ two.updated)
  BY DEF UpdatedConditions, UpdatedNext, AtLeastOneUpdated
<1>. HIDE DEF one, rep1, res
<1>4. /\ two.conds \in Seq(Condition) /\ AllAnswer(two.conds, WithReport(rep1, d))
      /\ two.updated \/ two.conds = one.conds
  BY <1>1, <1>2, UpdateAnswers
<1>. HIDE DEF two
<1>5. res.updated \/ res.conds = conds
  BY <1>1, <1>3, <1>4, Zenon
<1>. QED BY <1>3, <1>4, <1>5 DEF res, rep1

ConditionsInv ==
    /\ conditions \in Seq(Condition)
    /\ reported \in [ConditionTypes -> Report]
    /\ AllAnswer(conditions, reported)

LEMMA ConditionsInvStart == ConditionsInit => ConditionsInv
<1>. SUFFICES ASSUME ConditionsInit PROVE ConditionsInv
  OBVIOUS
<1>1. conditions \in Seq(Condition) /\ Len(conditions) = 0
  BY DEF ConditionsInit
<1>2. reported \in [ConditionTypes -> Report] /\ \A t \in ConditionTypes : reported[t].status = "none"
  BY ConditionAssumption DEF ConditionsInit, NotReported, Report
<1>3. ASSUME NEW t \in ConditionTypes
      PROVE  FindConditionByType(conditions, t) = 0
  <2>1. \A i \in 1 .. Len(conditions) : conditions[i].type # t
    BY <1>1
  <2>. QED BY <1>1, <2>1, NoneIsFound
<1>. QED BY <1>1, <1>2, <1>3 DEF ConditionsInv, AllAnswer, Answers

(* A tick changes no condition but in its age.                             *)
LEMMA TickAnswers ==
    ASSUME ConditionsInv, ConditionsTick
    PROVE  ConditionsInv'
<1>1. Aged(0) \in 0 .. MaxAge /\ \A age \in 0 .. MaxAge : Aged(age) \in 0 .. MaxAge
  BY ConditionAssumption DEF Aged
<1>2. /\ conditions' \in Seq(Condition) /\ Len(conditions') = Len(conditions)
      /\ \A i \in 1 .. Len(conditions) :
            /\ conditions'[i].type = conditions[i].type
            /\ conditions'[i].status = conditions[i].status
            /\ conditions'[i].reason = conditions[i].reason
            /\ conditions'[i].since = Aged(conditions[i].since)
  <2>1. DOMAIN conditions = 1 .. Len(conditions)
    BY DEF ConditionsInv
  <2>2. \A i \in 1 .. Len(conditions) :
            /\ [conditions[i] EXCEPT !.since = Aged(@)] \in Condition
            /\ [conditions[i] EXCEPT !.since = Aged(@)].type = conditions[i].type
            /\ [conditions[i] EXCEPT !.since = Aged(@)].status = conditions[i].status
            /\ [conditions[i] EXCEPT !.since = Aged(@)].reason = conditions[i].reason
            /\ [conditions[i] EXCEPT !.since = Aged(@)].since = Aged(conditions[i].since)
    <3>1. \A i \in 1 .. Len(conditions) : conditions[i] \in Condition
      BY DEF ConditionsInv
    <3>. QED BY <1>1, <3>1 DEF Condition
  <2>3. conditions' = [i \in 1 .. Len(conditions) |-> [conditions[i] EXCEPT !.since = Aged(@)]]
    BY <2>1 DEF ConditionsTick
  <2>4. conditions' \in Seq(Condition) /\ Len(conditions') = Len(conditions)
    BY <2>2, <2>3 DEF ConditionsInv
  <2>. QED BY <2>2, <2>3, <2>4
<1>3. reported' \in [ConditionTypes -> Report]
  BY <1>1 DEF ConditionsTick, ConditionsInv, Report
<1>4. \A t \in ConditionTypes :
            /\ reported'[t].status = reported[t].status
            /\ reported'[t].reason = reported[t].reason
            /\ reported'[t].since = Aged(reported[t].since)
  BY DEF ConditionsTick, ConditionsInv, Report
<1>5. ASSUME NEW t \in ConditionTypes
      PROVE  Answers(conditions', reported', t)
  <2>. DEFINE i == FindConditionByType(conditions, t)
  <2>1. Answers(conditions, reported, t)
    BY DEF ConditionsInv, AllAnswer
  <2>2. CASE i = 0
    <3>1. \A j \in 1 .. Len(conditions) : conditions[j].type # t
      BY <2>2, FindFirst DEF ConditionsInv
    <3>2. FindConditionByType(conditions', t) = 0
      BY <1>2, <3>1, NoneIsFound
    <3>. QED BY <1>4, <2>1, <2>2, <3>2 DEF Answers
  <2>3. CASE i # 0
    <3>1. First(conditions, t, i)
      BY <2>3, FindFirst DEF ConditionsInv
    <3>2. /\ conditions[i].status = reported[t].status /\ conditions[i].reason = reported[t].reason
          /\ conditions[i].since = reported[t].since
      BY <2>1, <2>3 DEF Answers
    <3>. HIDE DEF i
    <3>3. First(conditions', t, i)
      BY <1>2, <3>1 DEF First
    <3>4. FindConditionByType(conditions', t) = i
      BY <1>2, <3>3, FirstIsFound
    <3>5. /\ conditions'[i].status = reported'[t].status /\ conditions'[i].reason = reported'[t].reason
          /\ conditions'[i].since = reported'[t].since
      BY <1>2, <1>4, <3>1, <3>2 DEF First
    <3>. QED BY <2>3, <3>4, <3>5 DEF Answers
  <2>. QED BY <2>2, <2>3
<1>. QED BY <1>2, <1>3, <1>5 DEF ConditionsInv, AllAnswer

(* AddStatusConditions appends: what is first of its type stays so.        *)
LEMMA AddAnswers ==
    ASSUME ConditionsInv, NEW new \in Condition, AddStatusConditions(new)
    PROVE  ConditionsInv'
<1>1. conditions \in Seq(Condition) /\ reported \in [ConditionTypes -> Report]
  BY DEF ConditionsInv
<1>2. conditions' = Append(conditions, new) /\ conditions' \in Seq(Condition)
  BY <1>1 DEF AddStatusConditions
<1>3. new.type \in ConditionTypes
  BY DEF Condition
<1>4. reported' = IF FindConditionByType(conditions, new.type) = 0
                  THEN WithReport(reported, new) ELSE reported
  BY DEF AddStatusConditions
<1>5. reported' \in [ConditionTypes -> Report]
  BY <1>1, <1>4, WithReportType
<1>6. ASSUME NEW t \in ConditionTypes
      PROVE  Answers(conditions', reported', t)
  <2>. DEFINE i == FindConditionByType(conditions, t)
  <2>1. Answers(conditions, reported, t)
    BY DEF ConditionsInv, AllAnswer
  <2>2. CASE i # 0
    <3>1. FindConditionByType(conditions', t) = i /\ conditions'[i] = conditions[i]
      BY <1>1, <1>2, <2>2, AppendFinds
    <3>2. reported'[t] = reported[t]
      BY <1>1, <1>4, <2>2, WithReportType
    <3>. QED BY <2>1, <2>2, <3>1, <3>2 DEF Answers
  <2>3. CASE i = 0 /\ new.type # t
    <3>1. FindConditionByType(conditions', t) = 0
      BY <1>1, <1>2, <2>3, AppendFinds
    <3>2. reported'[t] = reported[t]
      BY <1>1, <1>4, <2>3, WithReportType
    <3>. QED BY <2>1, <2>3, <3>1, <3>2 DEF Answers
  <2>4. CASE i = 0 /\ new.type = t
    <3>1. /\ FindConditionByType(conditions', t) = Len(conditions) + 1
          /\ conditions'[Len(conditions) + 1] = new
      BY <1>1, <1>2, <2>4, AppendFinds
    <3>2. reported'[t] = Reported(reported[t], new)
      BY <1>1, <1>4, <2>4, WithReportType
    <3>3. reported[t].status = "none"
      BY <2>1, <2>4 DEF Answers
    <3>4. reported'[t].status = new.status /\ reported'[t].reason = new.reason
          /\ reported'[t].since = new.since
      BY <3>2, <3>3, ConditionAssumption DEF Reported, Condition
    <3>5. Len(conditions) + 1 # 0
      BY <1>1
    <3>. QED BY <3>1, <3>4, <3>5 DEF Answers
  <2>. QED BY <2>2, <2>3, <2>4
<1>. QED BY <1>2, <1>5, <1>6 DEF ConditionsInv, AllAnswer

LEMMA ConditionsInvStep ==
    ASSUME ConditionsInv, [ConditionsNext]_conditionVars
    PROVE  ConditionsInv'
<1>. DEFINE New == [type : ConditionTypes, status : Statuses, reason : Reasons, since : {0}]
<1>1. New \subseteq Condition /\ \A c \in New : c.since = 0
  BY ConditionAssumption DEF Condition
<1>2. ASSUME NEW c \in New, NEW age \in 0 .. MaxAge, AddStatusConditions([c EXCEPT !.since = age])
      PROVE  ConditionsInv'
  <2>1. [c EXCEPT !.since = age] \in Condition
    BY DEF Condition
  <2>. QED BY <1>2, <2>1, AddAnswers
<1>3. ASSUME NEW c \in New, NEW d \in New, AddOrUpdateStatusConditions(c, d)
      PROVE  ConditionsInv'
  <2>. DEFINE res == UpdatedConditions(conditions, c, d, FALSE)
              rep == WithReport(WithReport(reported, c), d)
  <2>1. c \in Condition /\ c.since = 0 /\ d \in Condition /\ d.since = 0
    BY <1>1
  <2>2. /\ res.conds \in Seq(Condition) /\ AllAnswer(res.conds, rep)
        /\ res.updated \/ res.conds = conditions
    BY <2>1, UpdatesAnswer DEF ConditionsInv
  <2>3. rep \in [ConditionTypes -> Report]
    BY <2>1, WithReportType DEF ConditionsInv
  <2>4. conditions' = (IF res.updated THEN res.conds ELSE conditions) /\ reported' = rep
    BY <1>3, Zenon DEF AddOrUpdateStatusConditions
  <2>. HIDE DEF res, rep
  <2>5. conditions' = res.conds
    BY <2>2, <2>4, Zenon
  <2>. QED BY <2>2, <2>3, <2>4, <2>5 DEF ConditionsInv
<1>4. ASSUME NEW c \in New, NEW d \in New, AddOrUpdateWithTimestamp(c, d)
      PROVE  ConditionsInv'
  <2>. DEFINE res == UpdatedConditions(conditions, c, d, TRUE)
              rep == WithReport(WithReport(reported, c), d)
  <2>1. c \in Condition /\ c.since = 0 /\ d \in Condition /\ d.since = 0
    BY <1>1
  <2>2. res.conds \in Seq(Condition) /\ AllAnswer(res.conds, rep)
    BY <2>1, UpdatesAnswer DEF ConditionsInv
  <2>3. rep \in [ConditionTypes -> Report]
    BY <2>1, WithReportType DEF ConditionsInv
  <2>4. conditions' = res.conds /\ reported' = rep
    BY <1>4, Zenon DEF AddOrUpdateWithTimestamp
  <2>. HIDE DEF res, rep
  <2>. QED BY <2>2, <2>3, <2>4 DEF ConditionsInv
<1>5. CASE ConditionsTick
  BY <1>5, TickAnswers
<1>6. CASE UNCHANGED conditionVars
  <2>1. conditions' = conditions /\ reported' = reported
    BY <1>6 DEF conditionVars
  <2>2. AllAnswer(conditions', reported')
    BY <2>1, Zenon DEF ConditionsInv
  <2>. QED BY <2>1, <2>2 DEF ConditionsInv
<1>. QED BY <1>2, <1>3, <1>4, <1>5, <1>6 DEF ConditionsNext

(* FindConditionByType answers with the status and the reason that were    *)
(* reported last, whichever of the three functions of pkg/condition        *)
(* reported them, and however many conditions of a type there are.         *)
THEOREM StatusIsAsReported == ConditionsSpec => []StatusAsReported
<1>1. ConditionsInv => StatusAsReported
  BY DEF ConditionsInv, AllAnswer, Answers, StatusAsReported, NotReported
<1>. QED BY <1>1, ConditionsInvStart, ConditionsInvStep, PTL DEF ConditionsSpec

(* LastTransitionTime stays at the time when the status changed last.      *)
THEOREM TransitionTimeIsOfStatus == ConditionsSpec => []TransitionTimeOfStatus
<1>1. ConditionsInv => TransitionTimeOfStatus
  BY DEF ConditionsInv, AllAnswer, Answers, TransitionTimeOfStatus
<1>. QED BY <1>1, ConditionsInvStart, ConditionsInvStep, PTL DEF ConditionsSpec


(***************************************************************************)
(* The usernames.                                                          *)
(***************************************************************************)

(* Induction, with a set for the predicate.                                *)
LEMMA UpTo ==
    ASSUME NEW N \in Nat, NEW Good, 0 \in Good, \A n \in 1 .. N : n - 1 \in Good => n \in Good
    PROVE  \A n \in 0 .. N : n \in Good
<1>. DEFINE Bad == {n \in 0 .. N : n \notin Good}
<1>. SUFFICES ASSUME Bad # {} PROVE FALSE
  OBVIOUS
<1>1. Min(Bad) \in Bad /\ \A n \in Bad : Min(Bad) <= n
  BY MinOfIndices
<1>2. PICK m \in Bad : \A n \in Bad : m <= n
  BY <1>1
<1>3. m \in 1 .. N
  BY <1>2
<1>4. m - 1 \in 0 .. N /\ m - 1 \notin Bad
  BY <1>2, <1>3
<1>. QED BY <1>2, <1>3, <1>4

(* The characters of usernames, and those of compliant ones.               *)
Char == {"x", "X", "1", "-", "a", "c", "r", "t"}
Raw == {"x", "X", "1", "-", "@", ".", "a", "c", "r", "t"}

(* What is built one character after the other exists.                     *)
IsBuilt(X, s, F) ==
    \E g \in [0 .. Len(s) -> Seq(X)] :
        g[0] = <<>> /\ \A n \in 1 .. Len(s) : g[n] = F[g[n - 1]][s[n]]

LEMMA BuiltExists ==
    ASSUME NEW X, NEW s \in Seq(X), NEW F \in [Seq(X) -> [X -> Seq(X)]]
    PROVE  IsBuilt(X, s, F)
<1>. DEFINE Built(k, g) == g[0] = <<>> /\ \A n \in 1 .. k : g[n] = F[g[n - 1]][s[n]]
            Good == {k \in 0 .. Len(s) : \E g \in [0 .. k -> Seq(X)] : Built(k, g)}
<1>1. Len(s) \in Nat
  OBVIOUS
<1>2. 0 \in Good
  <2>. DEFINE g == [n \in 0 .. 0 |-> <<>>]
  <2>1. g \in [0 .. 0 -> Seq(X)] /\ Built(0, g)
    OBVIOUS
  <2>. HIDE DEF g, Built
  <2>2. 0 \in 0 .. Len(s)
    BY <1>1
  <2>. QED BY <2>1, <2>2, Zenon
<1>3. ASSUME NEW m \in 1 .. Len(s), m - 1 \in Good
      PROVE  m \in Good
  <2>1. PICK g \in [0 .. m - 1 -> Seq(X)] : Built(m - 1, g)
    BY <1>3
  <2>. DEFINE h == [n \in 0 .. m |-> IF n = m THEN F[g[m - 1]][s[m]] ELSE g[n]]
  <2>2. F[g[m - 1]][s[m]] \in Seq(X)
    <3>1. g[m - 1] \in Seq(X) /\ s[m] \in X
      BY <2>1
    <3>. QED BY <3>1
  <2>3. h \in [0 .. m -> Seq(X)]
    BY <2>1, <2>2
  <2>4. ASSUME NEW n \in 1 .. m
        PROVE  h[n] = F[h[n - 1]][s[n]]
    <3>1. n - 1 \in 0 .. m - 1 /\ h[n - 1] = g[n - 1]
      OBVIOUS
    <3>2. CASE n = m
      BY <3>1, <3>2
    <3>3. CASE n # m
      BY <2>1, <3>1, <3>3
    <3>. QED BY <3>2, <3>3
  <2>5. h[0] = <<>>
    BY <2>1
  <2>6. m \in 0 .. Len(s)
    OBVIOUS
  <2>. HIDE DEF h
  <2>. QED BY <2>3, <2>4, <2>5, <2>6
<1>. HIDE DEF Good
<1>4. Len(s) \in Good
  <2>1. \A n \in 0 .. Len(s) : n \in Good
    BY <1>1, <1>2, <1>3, UpTo
  <2>. QED BY <1>1, <2>1
<1>. QED BY <1>4 DEF Good, IsBuilt


(* The three rewritings by their steps.                                    *)
AtStep(t, c) == t \o IF c = "@" THEN <<"a", "t", "-">> ELSE <<c>>
HyphenStep(t, c) == IF c = "-" /\ EndsWith(t, "-") THEN t ELSE Append(t, c)
FilterStep(t, c) == IF c \in {"@", "."} THEN t ELSE Append(t, c)

LEMMA StepTypes ==
    /\ \A t \in Seq(Raw), c \in Raw : AtStep(t, c) \in Seq(Raw) /\ FilterStep(t, c) \in Seq(Raw)
    /\ \A t \in Seq(Char), c \in Char : HyphenStep(t, c) \in Seq(Char)
<1>1. ASSUME NEW t \in Seq(Raw), NEW c \in Raw
      PROVE  AtStep(t, c) \in Seq(Raw) /\ FilterStep(t, c) \in Seq(Raw)
  <2>1. <<"a", "t", "-">> \in Seq(Raw) /\ <<c>> \in Seq(Raw)
    BY DEF Raw
  <2>2. AtStep(t, c) \in Seq(Raw)
    BY <2>1, ConcatProperties DEF AtStep
  <2>. QED BY <2>2 DEF FilterStep
<1>2. ASSUME NEW t \in Seq(Char), NEW c \in Char
      PROVE  HyphenStep(t, c) \in Seq(Char)
  BY DEF HyphenStep
<1>. QED BY <1>1, <1>2

(* g has what a rewriting makes of the first characters, and the whole of  *)
(* it at the end.                                                          *)
Building(g, s, result, X) ==
    g \in [0 .. Len(s) -> Seq(X)] /\ g[0] = <<>> /\ result = g[Len(s)]

LEMMA SingleHyphensBuilt ==
    ASSUME NEW s \in Seq(Char)
    PROVE  \E g : /\ Building(g, s, SingleHyphens(s), Char)
                  /\ \A n \in 1 .. Len(s) : g[n] = HyphenStep(g[n - 1], s[n])
<1>. DEFINE F == [t \in Seq(Char) |-> [c \in Char |-> HyphenStep(t, c)]]
            P(g) == g = [n \in 0 .. Len(s) |-> IF n = 0 THEN <<>> ELSE HyphenStep(g[n - 1], s[n])]
            f == CHOOSE g : P(g)
<1>1. F \in [Seq(Char) -> [Char -> Seq(Char)]]
  BY StepTypes
<1>2. PICK g \in [0 .. Len(s) -> Seq(Char)] :
            g[0] = <<>> /\ \A n \in 1 .. Len(s) : g[n] = F[g[n - 1]][s[n]]
  <2>. HIDE DEF F
  <2>1. IsBuilt(Char, s, F)
    BY <1>1, BuiltExists
  <2>. QED BY <2>1 DEF IsBuilt
<1>3. \A n \in 1 .. Len(s) : g[n] = HyphenStep(g[n - 1], s[n])
  <2>1. \A n \in 1 .. Len(s) : g[n - 1] \in Seq(Char) /\ s[n] \in Char
    OBVIOUS
  <2>. QED BY <1>2, <2>1
<1>4. P(g)
  BY <1>2, <1>3
<1>5. P(f)
  <2>. HIDE DEF P
  <2>. QED BY <1>4, Zenon
<1>6. SingleHyphens(s) = f[Len(s)]
  BY DEF SingleHyphens, Rewritten, HyphenStep
<1>. HIDE DEF f
<1>7. \A n \in 0 .. Len(s) : f[n] = g[n]
  <2>. DEFINE Good == {n \in 0 .. Len(s) : f[n] = g[n]}
  <2>1. Len(s) \in Nat
    OBVIOUS
  <2>2. 0 \in Good
    BY <1>2, <1>5, <2>1
  <2>3. ASSUME NEW n \in 1 .. Len(s), n - 1 \in Good
        PROVE  n \in Good
    BY <1>3, <1>5, <2>3
  <2>. HIDE DEF Good
  <2>4. \A n \in 0 .. Len(s) : n \in Good
    BY <2>1, <2>2, <2>3, UpTo
  <2>. QED BY <2>4 DEF Good
<1>8. SingleHyphens(s) = g[Len(s)]
  BY <1>6, <1>7
<1>. QED BY <1>2, <1>3, <1>8 DEF Building

LEMMA AtReplacedBuilt ==
    ASSUME NEW s \in Seq(Raw)
    PROVE  \E g : /\ Building(g, s, AtReplaced(s), Raw)
                  /\ \A n \in 1 .. Len(s) : g[n] = AtStep(g[n - 1], s[n])
<1>. DEFINE F == [t \in Seq(Raw) |-> [c \in Raw |-> AtStep(t, c)]]
            P(g) == g = [n \in 0 .. Len(s) |-> IF n = 0 THEN <<>> ELSE AtStep(g[n - 1], s[n])]
            f == CHOOSE g : P(g)
<1>1. F \in [Seq(Raw) -> [Raw -> Seq(Raw)]]
  BY StepTypes
<1>2. PICK g \in [0 .. Len(s) -> Seq(Raw)] :
            g[0] = <<>> /\ \A n \in 1 .. Len(s) : g[n] = F[g[n - 1]][s[n]]
  <2>. HIDE DEF F
  <2>1. IsBuilt(Raw, s, F)
    BY <1>1, BuiltExists
  <2>. QED BY <2>1 DEF IsBuilt
<1>3. \A n \in 1 .. Len(s) : g[n] = AtStep(g[n - 1], s[n])
  <2>1. \A n \in 1 .. Len(s) : g[n - 1] \in Seq(Raw) /\ s[n] \in Raw
    OBVIOUS
  <2>. QED BY <1>2, <2>1
<1>4. P(g)
  BY <1>2, <1>3
<1>5. P(f)
  <2>. HIDE DEF P
  <2>. QED BY <1>4, Zenon
<1>6. AtReplaced(s) = f[Len(s)]
  BY DEF AtReplaced, Rewritten, AtStep
<1>. HIDE DEF f
<1>7. \A n \in 0 .. Len(s) : f[n] = g[n]
  <2>. DEFINE Good == {n \in 0 .. Len(s) : f[n] = g[n]}
  <2>1. Len(s) \in Nat
    OBVIOUS
  <2>2. 0 \in Good
    BY <1>2, <1>5, <2>1
  <2>3. ASSUME NEW n \in 1 .. Len(s), n - 1 \in Good
        PROVE  n \in Good
    BY <1>3, <1>5, <2>3
  <2>. HIDE DEF Good
  <2>4. \A n \in 0 .. Len(s) : n \in Good
    BY <2>1, <2>2, <2>3, UpTo
  <2>. QED BY <2>4 DEF Good
<1>8. AtReplaced(s) = g[Len(s)]
  BY <1>6, <1>7
<1>. QED BY <1>2, <1>3, <1>8 DEF Building

LEMMA WithoutUnwantedBuilt ==
    ASSUME NEW s \in Seq(Raw)
    PROVE  \E g : /\ Building(g, s, WithoutUnwanted(s), Raw)
                  /\ \A n \in 1 .. Len(s) : g[n] = FilterStep(g[n - 1], s[n])
<1>. DEFINE F == [t \in Seq(Raw) |-> [c \in Raw |-> FilterStep(t, c)]]
            P(g) == g = [n \in 0 .. Len(s) |-> IF n = 0 THEN <<>> ELSE FilterStep(g[n - 1], s[n])]
            f == CHOOSE g : P(g)
<1>1. F \in [Seq(Raw) -> [Raw -> Seq(Raw)]]
  BY StepTypes
<1>2. PICK g \in [0 .. Len(s) -> Seq(Raw)] :
            g[0] = <<>> /\ \A n \in 1 .. Len(s) : g[n] = F[g[n - 1]][s[n]]
  <2>. HIDE DEF F
  <2>1. IsBuilt(Raw, s, F)
    BY <1>1, BuiltExists
  <2>. QED BY <2>1 DEF IsBuilt
<1>3. \A n \in 1 .. Len(s) : g[n] = FilterStep(g[n - 1], s[n])
  <2>1. \A n \in 1 .. Len(s) : g[n - 1] \in Seq(Raw) /\ s[n] \in Raw
    OBVIOUS
  <2>. QED BY <1>2, <2>1
<1>4. P(g)
  BY <1>2, <1>3
<1>5. P(f)
  <2>. HIDE DEF P
  <2>. QED BY <1>4, Zenon
<1>6. WithoutUnwanted(s) = f[Len(s)]
  BY DEF WithoutUnwanted, Rewritten, FilterStep
<1>. HIDE DEF f
<1>7. \A n \in 0 .. Len(s) : f[n] = g[n]
  <2>. DEFINE Good == {n \in 0 .. Len(s) : f[n] = g[n]}
  <2>1. Len(s) \in Nat
    OBVIOUS
  <2>2. 0 \in Good
    BY <1>2, <1>5, <2>1
  <2>3. ASSUME NEW n \in 1 .. Len(s), n - 1 \in Good
        PROVE  n \in Good
    BY <1>3, <1>5, <2>3
  <2>. HIDE DEF Good
  <2>4. \A n \in 0 .. Len(s) : n \in Good
    BY <2>1, <2>2, <2>3, UpTo
  <2>. QED BY <2>4 DEF Good
<1>8. WithoutUnwanted(s) = g[Len(s)]
  BY <1>6, <1>7
<1>. QED BY <1>2, <1>3, <1>8 DEF Building


LEMMA SingleHyphensForm ==
    ASSUME NEW s \in Seq(Char)
    PROVE  SingleHyphens(s) \in Seq(Char) /\ (s # <<>> => SingleHyphens(s) # <<>>)
<1>1. PICK g : /\ Building(g, s, SingleHyphens(s), Char)
               /\ \A n \in 1 .. Len(s) : g[n] = HyphenStep(g[n - 1], s[n])
  BY SingleHyphensBuilt
<1>2. Len(s) \in Nat /\ g \in [0 .. Len(s) -> Seq(Char)] /\ SingleHyphens(s) = g[Len(s)]
  BY <1>1 DEF Building
<1>3. ASSUME NEW n \in 1 .. Len(s)
      PROVE  g[n] # <<>>
  <2>1. PICK t \in Seq(Char) : t = g[n - 1]
    BY <1>2
  <2>2. Append(t, s[n]) # <<>>
    OBVIOUS
  <2>. QED BY <1>1, <2>1, <2>2 DEF HyphenStep, EndsWith
<1>4. s # <<>> => Len(s) \in 1 .. Len(s)
  BY <1>2, EmptySeq
<1>. QED BY <1>2, <1>3, <1>4

(* Nothing is removed where all is allowed.                                *)
LEMMA WithoutUnwantedForm ==
    ASSUME NEW s \in Seq({"x", "1", "-", "@", "."})
    PROVE  /\ WithoutUnwanted(s) \in Seq({"x", "1", "-"})
           /\ s \in Seq({"x", "1", "-"}) => WithoutUnwanted(s) = s
<1>0. s \in Seq(Raw)
  BY DEF Raw
<1>1. PICK g : /\ Building(g, s, WithoutUnwanted(s), Raw)
               /\ \A n \in 1 .. Len(s) : g[n] = FilterStep(g[n - 1], s[n])
  BY <1>0, WithoutUnwantedBuilt
<1>2. Len(s) \in Nat /\ g \in [0 .. Len(s) -> Seq(Raw)] /\ g[0] = <<>> /\ WithoutUnwanted(s) = g[Len(s)]
  BY <1>1 DEF Building
<1>. DEFINE Good == {n \in 0 .. Len(s) :
                        /\ g[n] \in Seq({"x", "1", "-"})
                        /\ s \in Seq({"x", "1", "-"}) => g[n] = SubSeq(s, 1, n)}
<1>3. 0 \in Good
  BY <1>2, SubSeqEmpty
<1>4. ASSUME NEW n \in 1 .. Len(s), n - 1 \in Good
      PROVE  n \in Good
  <2>1. s[n] \in {"x", "1", "-", "@", "."} /\ g[n] = FilterStep(g[n - 1], s[n]) /\ n \in 0 .. Len(s)
    BY <1>1
  <2>2. CASE s[n] \in {"@", "."}
    <3>1. g[n] = g[n - 1]
      BY <2>1, <2>2 DEF FilterStep
    <3>2. ASSUME s \in Seq({"x", "1", "-"})
          PROVE  FALSE
      <4>1. \A i \in 1 .. Len(s) : s[i] \in {"x", "1", "-"}
        BY <3>2, ElementOfSeq
      <4>. QED BY <2>2, <4>1
    <3>. QED BY <1>4, <2>1, <3>1, <3>2
  <2>3. CASE s[n] \notin {"@", "."}
    <3>1. g[n] = Append(g[n - 1], s[n])
      BY <2>1, <2>3 DEF FilterStep
    <3>2. g[n] \in Seq({"x", "1", "-"})
      BY <1>4, <2>1, <2>3, <3>1
    <3>3. Append(SubSeq(s, 1, n - 1), s[n]) = SubSeq(s, 1, n)
      BY <1>2
    <3>. QED BY <1>4, <2>1, <3>1, <3>2, <3>3
  <2>. QED BY <2>2, <2>3
<1>5. Len(s) \in Good
  <2>. HIDE DEF Good
  <2>1. \A n \in 0 .. Len(s) : n \in Good
    BY <1>2, <1>3, <1>4, UpTo
  <2>. QED BY <1>2, <2>1
<1>6. SubSeq(s, 1, Len(s)) = s
  BY SubSeqFull
<1>. QED BY <1>2, <1>5, <1>6


LEMMA AtReplacedForm ==
    ASSUME NEW s \in Seq(Raw)
    PROVE  AtReplaced(s) \in Seq(Raw)
<1>1. PICK g : Building(g, s, AtReplaced(s), Raw)
  BY AtReplacedBuilt
<1>2. Len(s) \in Nat
  OBVIOUS
<1>. QED BY <1>1, <1>2 DEF Building

LEMMA WithoutAtForm ==
    ASSUME NEW s \in Seq(Raw)
    PROVE  WithoutAt(s) \in Seq(Raw)
<1>. DEFINE I == {i \in 1 .. Len(s) : s[i] = "@"}
            k == SelectInSeq(s, LAMBDA c : c = "@")
<1>1. k = IF I # {} THEN Min(I) ELSE 0
  BY DEF SelectInSeq
<1>2. k \in 0 .. Len(s)
  <2>1. CASE I = {}
    BY <1>1, <2>1
  <2>2. CASE I # {}
    <3>1. I \in SUBSET Nat
      OBVIOUS
    <3>2. Min(I) \in I
      <4>. HIDE DEF I
      <4>. QED BY <2>2, <3>1, MinOfIndices
    <3>. QED BY <1>1, <2>2, <3>2
  <2>. QED BY <2>1, <2>2
<1>3. BeforeAt(s) = IF k = 0 THEN s ELSE SubSeq(s, 1, k - 1)
  BY DEF BeforeAt
<1>. HIDE DEF k
<1>4. BeforeAt(s) \in Seq(Raw)
  <2>1. \A i \in 1 .. k - 1 : s[i] \in Raw
    BY <1>2
  <2>2. k # 0 => SubSeq(s, 1, k - 1) \in Seq(Raw)
    BY <1>2, <2>1, SubSeqProperties
  <2>. QED BY <1>3, <2>2
<1>. QED BY <1>4, AtReplacedForm DEF WithoutAt

(* Nothing but letters, digits and hyphens is left.                        *)
LEMMA HyphenatedForm ==
    ASSUME NEW s \in Seq(Raw)
    PROVE  Hyphenated(s) \in Seq(Char)
<1>1. \A i \in 1 .. Len(s) : s[i] \in Raw
  BY ElementOfSeq
<1>2. \A i \in 1 .. Len(s) : (IF s[i] \in {"@", "."} THEN "-" ELSE s[i]) \in Char
  BY <1>1 DEF Raw, Char
<1>3. Hyphenated(s) \in [1 .. Len(s) -> Char] /\ Len(s) \in Nat
  BY <1>2 DEF Hyphenated
<1>4. \A n \in Nat : \A f \in [1 .. n -> Char] : f \in Seq(Char)
  OBVIOUS
<1>. QED BY <1>3, <1>4

(* Capitals become small letters, and nothing else changes.                *)
LEMMA ToLowerForm ==
    ASSUME NEW s \in Seq({"x", "X", "1", "-", "@", "."})
    PROVE  /\ ToLower(s) \in Seq({"x", "1", "-", "@", "."})
           /\ s \in Seq({"x", "1", "-"}) => ToLower(s) = s
<1>. DEFINE Low == {"x", "1", "-", "@", "."}
<1>1. \A i \in 1 .. Len(s) : s[i] \in {"x", "X", "1", "-", "@", "."}
  BY ElementOfSeq
<1>2. \A i \in 1 .. Len(s) : (IF s[i] = "X" THEN "x" ELSE s[i]) \in Low
  BY <1>1
<1>3. ToLower(s) \in [1 .. Len(s) -> Low] /\ Len(s) \in Nat
  BY <1>2 DEF ToLower
<1>. HIDE DEF Low
<1>4. \A n \in Nat : \A f \in [1 .. n -> Low] : f \in Seq(Low) /\ Len(f) = n
  OBVIOUS
<1>5. ToLower(s) \in Seq(Low) /\ Len(ToLower(s)) = Len(s)
  BY <1>3, <1>4
<1>6. ASSUME s \in Seq({"x", "1", "-"})
      PROVE  ToLower(s) = s
  <2>1. \A i \in 1 .. Len(s) : s[i] \in {"x", "1", "-"}
    BY <1>6, ElementOfSeq
  <2>2. \A i \in 1 .. Len(s) : ToLower(s)[i] = s[i]
    BY <2>1 DEF ToLower
  <2>. QED BY <1>5, <2>2, SeqEqual
<1>. QED BY <1>5, <1>6 DEF Low

(* A bounded set of indices has its greatest element in it.                *)
LEMMA MaxOfIndices ==
    ASSUME NEW n \in Nat, NEW I \in SUBSET (1 .. n), I # {}
    PROVE  Max(I) \in I /\ \A i \in I : Max(I) >= i
<1>. DEFINE J == {j \in 0 .. n : n - j \in I}
<1>1. J # {}
  <2>1. PICK i \in I : TRUE
    OBVIOUS
  <2>2. n - i \in 0 .. n /\ n - (n - i) = i
    OBVIOUS
  <2>3. n - i \in J
    BY <2>2
  <2>. QED BY <2>3
<1>2. Min(J) \in J /\ \A j \in J : Min(J) <= j
  BY <1>1, MinOfIndices
<1>3. PICK m \in J : \A j \in J : m <= j
  BY <1>2
<1>4. ASSUME NEW i \in I
      PROVE  n - m >= i
  <2>1. n - i \in 0 .. n /\ n - (n - i) = i
    OBVIOUS
  <2>2. n - i \in J
    BY <2>1
  <2>. QED BY <1>3, <2>2
<1>5. \E x \in I : \A i \in I : x >= i
  BY <1>3, <1>4
<1>. QED BY <1>5 DEF Max

(* Hyphens are cut off at both ends, and nothing else.                     *)
LEMMA TrimmedForm ==
    ASSUME NEW X, NEW s \in Seq(X)
    PROVE  /\ Trimmed(s) \in Seq(X) /\ Len(Trimmed(s)) <= Len(s)
           /\ Trimmed(s) # <<>> => Trimmed(s)[1] # "-" /\ Trimmed(s)[Len(Trimmed(s))] # "-"
           /\ (\E i \in 1 .. Len(s) : s[i] # "-") => Trimmed(s) # <<>>
           /\ s # <<>> /\ s[1] # "-" /\ s[Len(s)] # "-" => Trimmed(s) = s
<1>. DEFINE inner == {i \in 1 .. Len(s) : s[i] # "-"}
<1>1. Trimmed(s) = IF inner = {} THEN <<>> ELSE SubSeq(s, Min(inner), Max(inner))
  BY DEF Trimmed
<1>2. Len(s) \in Nat
  OBVIOUS
<1>3. s # <<>> => 1 \in 1 .. Len(s) /\ Len(s) \in 1 .. Len(s)
  BY <1>2, EmptySeq
<1>4. CASE inner = {}
  <2>1. Trimmed(s) = <<>> /\ Len(Trimmed(s)) = 0
    BY <1>1, <1>4
  <2>. QED BY <1>2, <1>3, <1>4, <2>1
<1>5. CASE inner # {}
  <2>1. /\ Min(inner) \in inner /\ Max(inner) \in inner
        /\ \A i \in inner : Min(inner) <= i /\ Max(inner) >= i
    <3>1. inner \in SUBSET Nat /\ inner \in SUBSET (1 .. Len(s))
      OBVIOUS
    <3>. HIDE DEF inner
    <3>2. Min(inner) \in inner /\ \A i \in inner : Min(inner) <= i
      BY <1>5, <3>1, MinOfIndices
    <3>3. Max(inner) \in inner /\ \A i \in inner : Max(inner) >= i
      BY <1>2, <1>5, <3>1, MaxOfIndices
    <3>. QED BY <3>2, <3>3
  <2>2. PICK a \in inner, b \in inner : /\ a = Min(inner) /\ b = Max(inner) /\ a <= b
                                        /\ \A i \in inner : a <= i /\ b >= i
    BY <2>1
  <2>3. a \in 1 .. Len(s) /\ b \in 1 .. Len(s) /\ s[a] # "-" /\ s[b] # "-"
    BY <2>2
  <2>. DEFINE t == SubSeq(s, a, b)
  <2>4. Trimmed(s) = t
    BY <1>1, <1>5, <2>2
  <2>5. /\ t \in Seq(X) /\ Len(t) = b - a + 1 /\ \A i \in 1 .. b - a + 1 : t[i] = s[a + i - 1]
    <3>1. \A i \in a .. b : s[i] \in X
      BY <2>3
    <3>2. a \in Int /\ b \in Int
      BY <2>3
    <3>. HIDE DEF inner
    <3>3. /\ t \in Seq(X) /\ Len(t) = (IF a <= b THEN b - a + 1 ELSE 0)
          /\ \A i \in 1 .. b - a + 1 : t[i] = s[a + i - 1]
      BY <3>1, <3>2, SubSeqProperties
    <3>. QED BY <2>2, <3>3
  <2>. HIDE DEF t
  <2>6. t # <<>> /\ t[1] # "-" /\ t[Len(t)] # "-" /\ Len(t) <= Len(s)
    <3>1. 1 \in 1 .. b - a + 1 /\ b - a + 1 \in 1 .. b - a + 1 /\ a + 1 - 1 = a /\ a + (b - a + 1) - 1 = b
      BY <2>2, <2>3
    <3>2. t[1] = s[a] /\ t[b - a + 1] = s[b]
      BY <2>5, <3>1
    <3>. QED BY <1>2, <2>2, <2>3, <2>5, <3>1, <3>2
  <2>7. ASSUME s # <<>>, s[1] # "-", s[Len(s)] # "-"
        PROVE  t = s
    <3>1. 1 \in inner /\ Len(s) \in inner
      BY <1>3, <2>7
    <3>2. a = 1 /\ b = Len(s)
      BY <1>2, <2>2, <2>3, <3>1
    <3>. QED BY <3>2, SubSeqFull DEF t
  <2>. QED BY <2>4, <2>5, <2>6, <2>7
<1>. QED BY <1>4, <1>5


(* Prefixes and suffixes, character by character.                          *)
LEMMA PrefixByIndex ==
    ASSUME NEW p \in Seq(Char), NEW s \in Seq(Char)
    PROVE  IsPrefix(p, s) <=> Len(p) <= Len(s) /\ \A i \in 1 .. Len(p) : p[i] = s[i]
<1>1. SubSeq(p, 1, Len(p)) = p /\ Len(p) \in Nat /\ Len(s) \in Nat
  BY SubSeqFull
<1>2. ASSUME Len(p) <= Len(s)
      PROVE  /\ SubSeq(s, 1, Len(p)) \in Seq(Char) /\ Len(SubSeq(s, 1, Len(p))) = Len(p)
             /\ \A i \in 1 .. Len(p) : SubSeq(s, 1, Len(p))[i] = s[i]
  BY <1>1, <1>2
<1>3. ASSUME Len(p) <= Len(s), \A i \in 1 .. Len(p) : p[i] = s[i]
      PROVE  p = SubSeq(s, 1, Len(p))
  <2>1. \A i \in 1 .. Len(p) : p[i] = SubSeq(s, 1, Len(p))[i]
    BY <1>2, <1>3
  <2>. QED BY <1>2, <1>3, <2>1, SeqEqual
<1>. QED BY <1>1, <1>2, <1>3 DEF IsPrefix

LEMMA SuffixByIndex ==
    ASSUME NEW p \in Seq(Char), NEW s \in Seq(Char)
    PROVE  IsSuffix(p, s) <=>
               Len(p) <= Len(s) /\ \A i \in 1 .. Len(p) : p[Len(p) - i + 1] = s[Len(s) - i + 1]
<1>1. ASSUME NEW t \in Seq(Char)
      PROVE  /\ Reverse(t) \in Seq(Char) /\ Len(Reverse(t)) = Len(t)
             /\ \A i \in 1 .. Len(t) : Reverse(t)[i] = t[Len(t) - i + 1]
  <2>1. Len(t) \in Nat /\ \A i \in 1 .. Len(t) : t[Len(t) - i + 1] \in Char
    <3>1. \A i \in 1 .. Len(t) : Len(t) - i + 1 \in 1 .. Len(t)
      OBVIOUS
    <3>. QED BY <3>1
  <2>2. Reverse(t) \in [1 .. Len(t) -> Char]
    BY <2>1 DEF Reverse
  <2>3. Reverse(t) \in Seq(Char) /\ Len(Reverse(t)) = Len(t)
    <3>1. \A n \in Nat : \A f \in [1 .. n -> Char] : f \in Seq(Char) /\ Len(f) = n
      OBVIOUS
    <3>. QED BY <2>1, <2>2, <3>1
  <2>. QED BY <2>3 DEF Reverse
<1>2. IsSuffix(p, s) <=> Len(Reverse(p)) <= Len(Reverse(s))
                            /\ \A i \in 1 .. Len(Reverse(p)) : Reverse(p)[i] = Reverse(s)[i]
  BY <1>1, PrefixByIndex DEF IsSuffix
<1>3. Len(p) \in Nat /\ Len(s) \in Nat
  OBVIOUS
<1>4. ASSUME Len(p) <= Len(s), NEW i \in 1 .. Len(p)
      PROVE  /\ Reverse(p)[i] = p[Len(p) - i + 1] /\ Reverse(s)[i] = s[Len(s) - i + 1]
  <2>1. i \in 1 .. Len(s)
    BY <1>3, <1>4
  <2>. QED BY <1>1, <2>1
<1>. QED BY <1>1, <1>2, <1>4

(* What is forbidden is not empty and has no hyphen.                       *)
LEMMA ForbiddenForm ==
    ASSUME NEW p \in ForbiddenUsernamePrefixes \cup ForbiddenUsernameSuffixes
    PROVE  p \in Seq(Char) /\ Len(p) \in Nat \ {0} /\ \A i \in 1 .. Len(p) : p[i] # "-"
<1>1. p \in Seq({"x", "X", "1", "a", "c", "r", "t"})
  BY UsernamesAssumption
<1>2. p \in Seq(Char)
  BY <1>1 DEF Char
<1>3. \A i \in 1 .. Len(p) : p[i] \in {"x", "X", "1", "a", "c", "r", "t"}
  BY <1>1, ElementOfSeq
<1>4. crt \in Seq(Char)
  BY DEF crt, Char
<1>5. Len(p) # 0
  <2>. SUFFICES ASSUME Len(p) = 0 PROVE FALSE
    OBVIOUS
  <2>1. Len(p) <= Len(crt) /\ 1 .. Len(p) = {}
    BY <1>4
  <2>2. IsPrefix(p, crt)
    BY <1>2, <1>4, <2>1, PrefixByIndex
  <2>3. IsSuffix(p, crt)
    BY <1>2, <1>4, <2>1, SuffixByIndex
  <2>. QED BY <2>2, <2>3, UsernamesAssumption
<1>. QED BY <1>2, <1>3, <1>5


(***************************************************************************)
(* TransformUsername.                                                      *)
(***************************************************************************)

(* A name with a letter or digit at both ends.                             *)
Bounded(s) == s \in Seq(Char) /\ s # <<>> /\ s[1] # "-" /\ s[Len(s)] # "-"

LEMMA BoundedLength == ASSUME NEW s, Bounded(s) PROVE s \in Seq(Char) /\ Len(s) \in Nat \ {0}
BY EmptySeq DEF Bounded

(* Concatenation at the ends.                                              *)
LEMMA ConcatEnds ==
    ASSUME NEW s \in Seq(Char), NEW t \in Seq(Char)
    PROVE  /\ s \o t \in Seq(Char) /\ Len(s \o t) = Len(s) + Len(t)
           /\ s # <<>> => s \o t # <<>> /\ (s \o t)[1] = s[1]
           /\ t # <<>> => s \o t # <<>> /\ (s \o t)[Len(s \o t)] = t[Len(t)]
           /\ \A i \in 1 .. Len(s) : (s \o t)[i] = s[i]
           /\ \A i \in 1 .. Len(t) : (s \o t)[Len(s) + i] = t[i]
<1>1. /\ Len(s) \in Nat /\ Len(t) \in Nat
      /\ s # <<>> => Len(s) > 0
      /\ t # <<>> => Len(t) > 0
  BY EmptySeq
<1>2. /\ s \o t \in Seq(Char) /\ Len(s \o t) = Len(s) + Len(t)
      /\ \A i \in 1 .. Len(s) : (s \o t)[i] = s[i]
      /\ \A i \in 1 .. Len(t) : (s \o t)[Len(s) + i] = t[i]
  BY <1>1
<1>3. s # <<>> => 1 \in 1 .. Len(s)
  BY <1>1
<1>4. t # <<>> => Len(t) \in 1 .. Len(t)
  BY <1>1
<1>5. s # <<>> \/ t # <<>> => s \o t # <<>>
  BY <1>1, <1>2
<1>. QED BY <1>2, <1>3, <1>4, <1>5

(* The pieces that are added.                                              *)
LEMMA Pieces ==
    /\ crt \in Seq(Char) /\ Len(crt) = 3 /\ crt[1] # "-" /\ crt[3] # "-"
    /\ crt \o <<"-">> \in Seq(Char) /\ Len(crt \o <<"-">>) = 4
    /\ \A i \in 1 .. 3 : (crt \o <<"-">>)[i] = crt[i]
    /\ (crt \o <<"-">>)[4] = "-"
    /\ <<"-">> \o crt \in Seq(Char) /\ Len(<<"-">> \o crt) = 4
    /\ \A i \in 1 .. 3 : (<<"-">> \o crt)[i + 1] = crt[i]
    /\ (<<"-">> \o crt)[1] = "-"
<1>1. crt \in Seq(Char) /\ Len(crt) = 3 /\ crt[1] # "-" /\ crt[3] # "-"
  BY DEF crt, Char
<1>2. <<"-">> \in Seq(Char) /\ Len(<<"-">>) = 1 /\ <<"-">>[1] = "-"
  BY DEF Char
<1>3. /\ crt \o <<"-">> \in Seq(Char) /\ Len(crt \o <<"-">>) = 4
      /\ <<"-">> \o crt \in Seq(Char) /\ Len(<<"-">> \o crt) = 4
  BY <1>1, <1>2, ConcatEnds
<1>4. /\ \A i \in 1 .. 3 : (crt \o <<"-">>)[i] = crt[i]
      /\ (crt \o <<"-">>)[4] = "-"
      /\ \A i \in 1 .. 3 : (<<"-">> \o crt)[i + 1] = crt[i]
      /\ (<<"-">> \o crt)[1] = "-"
  BY DEF crt
<1>. QED BY <1>1, <1>3, <1>4

LEMMA BoundHyphensForm ==
    ASSUME NEW s \in Seq(Char), s # <<>>
    PROVE  Bounded(BoundHyphens(s))
<1>. DEFINE t == IF StartsWith(s, "-") THEN crt \o s ELSE s
<1>1. BoundHyphens(s) = IF EndsWith(t, "-") THEN t \o crt ELSE t
  BY DEF BoundHyphens
<1>2. Len(s) \in Nat \ {0} /\ Head(s) = s[1]
  BY EmptySeq
<1>3. crt # <<>>
  BY Pieces
<1>4. t \in Seq(Char) /\ t # <<>> /\ t[1] # "-"
  <2>1. CASE StartsWith(s, "-")
    BY <1>3, <2>1, ConcatEnds, Pieces
  <2>2. CASE ~StartsWith(s, "-")
    BY <1>2, <2>2 DEF StartsWith
  <2>. QED BY <2>1, <2>2
<1>. HIDE DEF t
<1>5. CASE EndsWith(t, "-")
  <2>1. /\ t \o crt \in Seq(Char) /\ t \o crt # <<>> /\ (t \o crt)[1] = t[1]
        /\ (t \o crt)[Len(t \o crt)] = crt[Len(crt)]
    BY <1>3, <1>4, ConcatEnds, Pieces
  <2>2. BoundHyphens(s) = t \o crt
    BY <1>1, <1>5
  <2>. QED BY <1>4, <2>1, <2>2, Pieces DEF Bounded
<1>6. CASE ~EndsWith(t, "-")
  BY <1>1, <1>4, <1>6 DEF Bounded, EndsWith, Last
<1>. QED BY <1>5, <1>6

(* The first characters.                                                   *)
LEMMA CutAt ==
    ASSUME NEW s \in Seq(Char), NEW m \in Nat, m <= Len(s)
    PROVE  /\ SubSeq(s, 1, m) \in Seq(Char) /\ Len(SubSeq(s, 1, m)) = m
           /\ \A i \in 1 .. m : SubSeq(s, 1, m)[i] = s[i]
<1>1. \A i \in 1 .. m : s[i] \in Char
  OBVIOUS
<1>. QED BY <1>1

LEMMA CutForm ==
    ASSUME NEW s, Bounded(s)
    PROVE  Bounded(Cut(s)) /\ Len(Cut(s)) <= MaxLength
<1>0. s \in Seq(Char) /\ Len(s) \in Nat \ {0} /\ MaxLength \in Nat /\ MaxLength >= 7
  BY BoundedLength, UsernamesAssumption
<1>1. CASE Len(s) > MaxLength
  <2>. DEFINE t == SubSeq(s, 1, MaxLength)
  <2>1. t \in Seq(Char) /\ Len(t) = MaxLength /\ t[1] = s[1] /\ 1 \in 1 .. Len(t)
    BY <1>0, <1>1, CutAt
  <2>2. Cut(s) = Trimmed(t)
    BY <1>1 DEF Cut
  <2>3. t[1] # "-"
    BY <2>1 DEF Bounded
  <2>. HIDE DEF t
  <2>4. Trimmed(t) # <<>>
    BY <2>1, <2>3, TrimmedForm
  <2>. QED BY <2>1, <2>2, <2>4, TrimmedForm DEF Bounded
<1>2. CASE ~(Len(s) > MaxLength)
  BY <1>0, <1>2 DEF Cut
<1>. QED BY <1>1, <1>2

LEMMA ShortenedForm ==
    ASSUME NEW s \in Seq(Raw)
    PROVE  Bounded(Shortened(s)) /\ Len(Shortened(s)) <= MaxLength
<1>. DEFINE w == Hyphenated(WithoutAt(s))
            n == NotOnlyNumbers(w)
            h == SingleHyphens(n)
<1>1. w \in Seq(Char)
  BY WithoutAtForm, HyphenatedForm
<1>. HIDE DEF w
<1>2. n \in Seq(Char) /\ n # <<>>
  <2>1. CASE OnlyNumbers(w)
    <3>1. (crt \o <<"-">>) \o w = crt \o <<"-">> \o w
      OBVIOUS
    <3>2. crt \o <<"-">> # <<>>
      BY Pieces
    <3>3. n = crt \o <<"-">> \o w
      BY <2>1 DEF NotOnlyNumbers
    <3>. QED BY <1>1, <3>1, <3>2, <3>3, ConcatEnds, Pieces
  <2>2. CASE ~OnlyNumbers(w)
    <3>1. w # <<>>
      BY <2>2 DEF OnlyNumbers
    <3>. QED BY <1>1, <2>2, <3>1 DEF NotOnlyNumbers
  <2>. QED BY <2>1, <2>2
<1>. HIDE DEF n
<1>3. h \in Seq(Char) /\ h # <<>>
  BY <1>2, SingleHyphensForm
<1>. HIDE DEF h
<1>4. Bounded(BoundHyphens(h))
  BY <1>3, BoundHyphensForm
<1>5. Shortened(s) = Cut(BoundHyphens(h))
  BY DEF Shortened, w, n, h
<1>. QED BY <1>4, <1>5, CutForm


(* A forbidden prefix of s \o t is one of s if t begins with a hyphen.     *)
LEMMA PrefixEndsBefore ==
    ASSUME NEW p \in ForbiddenUsernamePrefixes, NEW s \in Seq(Char), NEW t \in Seq(Char),
           t # <<>>, t[1] = "-", IsPrefix(p, s \o t)
    PROVE  IsPrefix(p, s)
<1>1. p \in Seq(Char) /\ Len(p) \in Nat /\ \A i \in 1 .. Len(p) : p[i] # "-"
  BY ForbiddenForm
<1>2. Len(t) \in Nat \ {0} /\ Len(s) \in Nat
  BY EmptySeq
<1>3. /\ s \o t \in Seq(Char) /\ \A i \in 1 .. Len(s) : (s \o t)[i] = s[i]
      /\ (s \o t)[Len(s) + 1] = "-"
  <2>1. 1 \in 1 .. Len(t)
    BY <1>2
  <2>. QED BY <2>1, ConcatEnds
<1>4. \A i \in 1 .. Len(p) : p[i] = (s \o t)[i]
  <2>. DEFINE r == s \o t
  <2>1. r \in Seq(Char) /\ IsPrefix(p, r)
    BY <1>3
  <2>. HIDE DEF r
  <2>2. \A i \in 1 .. Len(p) : p[i] = r[i]
    BY <1>1, <2>1, PrefixByIndex
  <2>. QED BY <2>2 DEF r
<1>5. Len(p) <= Len(s)
  <2>1. Len(s) + 1 \notin 1 .. Len(p)
    BY <1>1, <1>3, <1>4
  <2>. QED BY <1>1, <1>2, <2>1
<1>6. \A i \in 1 .. Len(p) : p[i] = s[i]
  BY <1>1, <1>2, <1>3, <1>4, <1>5
<1>. QED BY <1>1, <1>5, <1>6, PrefixByIndex

(* With "crt-" in front of it no name has a forbidden prefix.              *)
LEMMA CrtInFront ==
    ASSUME NEW t \in Seq(Char), t # <<>>, t[Len(t)] # "-"
    PROVE  LET r == crt \o <<"-">> \o t IN
           /\ Bounded(r) /\ Len(r) = Len(t) + 4
           /\ \A p \in ForbiddenUsernamePrefixes : ~IsPrefix(p, r)
<1>. DEFINE r == crt \o <<"-">> \o t
            e == <<"-">> \o t
<1>1. r = (crt \o <<"-">>) \o t /\ r = crt \o e
  OBVIOUS
<1>2. <<"-">> \in Seq(Char) /\ <<"-">> # <<>> /\ crt # <<>> /\ <<"-">>[1] = "-"
  BY Pieces DEF Char
<1>3. e \in Seq(Char) /\ e # <<>> /\ e[1] = "-"
  BY <1>2, ConcatEnds
<1>4. crt \o <<"-">> \in Seq(Char) /\ crt \o <<"-">> # <<>> /\ (crt \o <<"-">>)[1] # "-"
  BY <1>2, ConcatEnds, Pieces
<1>5. Bounded(r)
  BY <1>1, <1>4, ConcatEnds DEF Bounded
<1>6. Len(r) = Len(t) + 4
  BY <1>1, <1>4, ConcatEnds, Pieces
<1>. HIDE DEF e
<1>7. ASSUME NEW p \in ForbiddenUsernamePrefixes, IsPrefix(p, crt \o e)
      PROVE  FALSE
  <2>1. IsPrefix(p, crt)
    BY <1>3, <1>7, PrefixEndsBefore, Pieces
  <2>. QED BY <2>1, UsernamesAssumption
<1>. QED BY <1>1, <1>5, <1>6, <1>7

LEMMA PrefixCheckedForm ==
    ASSUME NEW s, Bounded(s), Len(s) <= MaxLength
    PROVE  LET t == PrefixChecked(s) IN
           /\ Bounded(t)
           /\ \A p \in ForbiddenUsernamePrefixes : ~IsPrefix(p, t)
           /\ \/ Len(t) <= MaxLength
              \/ Len(t) = MaxLength + 1 /\ \E p \in ForbiddenUsernamePrefixes : IsPrefix(p, s)
<1>0. /\ s \in Seq(Char) /\ Len(s) \in Nat \ {0} /\ MaxLength \in Nat /\ MaxLength >= 7
      /\ maxlengthWithPrefix = MaxLength - 4 /\ s # <<>> /\ s[Len(s)] # "-"
  BY BoundedLength, UsernamesAssumption DEF maxlengthWithPrefix, Bounded
<1>1. CASE ~\E p \in ForbiddenUsernamePrefixes : IsPrefix(p, s)
  BY <1>1 DEF PrefixChecked
<1>2. CASE /\ \E p \in ForbiddenUsernamePrefixes : IsPrefix(p, s)
           /\ Len(s) > maxlengthWithPrefix
  <2>. DEFINE t == SubSeq(s, 4, Len(s))
  <2>1. /\ t \in Seq(Char) /\ Len(t) = Len(s) - 3 /\ Len(s) > 3 /\ t[Len(s) - 3] = s[Len(s)]
    BY <1>0, <1>2
  <2>2. PrefixChecked(s) = crt \o <<"-">> \o t
    BY <1>2 DEF PrefixChecked
  <2>. HIDE DEF t
  <2>3. t # <<>> /\ t[Len(t)] # "-"
    BY <1>0, <2>1
  <2>4. Len(t) + 4 <= MaxLength \/ Len(t) + 4 = MaxLength + 1
    BY <1>0, <2>1
  <2>. QED BY <1>2, <2>1, <2>2, <2>3, <2>4, CrtInFront
<1>3. CASE /\ \E p \in ForbiddenUsernamePrefixes : IsPrefix(p, s)
           /\ ~(Len(s) > maxlengthWithPrefix)
  <2>1. PrefixChecked(s) = crt \o <<"-">> \o s
    BY <1>3 DEF PrefixChecked
  <2>2. Len(s) + 4 <= MaxLength
    BY <1>0, <1>3
  <2>. QED BY <1>0, <2>1, <2>2, CrtInFront
<1>. QED BY <1>1, <1>2, <1>3

(* With "-crt" behind it no name has a forbidden suffix.                   *)
LEMMA CrtBehind ==
    ASSUME NEW t \in Seq(Char), t # <<>>, t[1] # "-"
    PROVE  LET r == t \o <<"-">> \o crt IN
           /\ Bounded(r) /\ Len(r) = Len(t) + 4
           /\ \A p \in ForbiddenUsernameSuffixes : ~IsSuffix(p, r)
           /\ \A p \in ForbiddenUsernamePrefixes : IsPrefix(p, r) => IsPrefix(p, t)
<1>0. PICK e, r : e = <<"-">> \o crt /\ r = t \o e
  OBVIOUS
<1>1. t \o <<"-">> \o crt = r
  BY <1>0
<1>2. /\ e \in Seq(Char) /\ Len(e) = 4 /\ e # <<>> /\ e[1] = "-" /\ Len(t) \in Nat
      /\ e[2] = crt[1] /\ e[3] = crt[2] /\ e[4] = crt[3]
  <2>1. e[2] = crt[1] /\ e[3] = crt[2] /\ e[4] = crt[3]
    BY <1>0 DEF crt
  <2>2. e \in Seq(Char) /\ Len(e) = 4 /\ e[1] = "-"
    BY <1>0, Pieces
  <2>3. e # <<>>
    <3>1. Len(<<>>) = 0
      OBVIOUS
    <3>2. Len(e) # 0
      BY <2>2
    <3>. QED BY <3>1, <3>2, Zenon
  <2>4. Len(t) \in Nat
    OBVIOUS
  <2>. QED BY <2>1, <2>2, <2>3, <2>4
<1>3. /\ r \in Seq(Char) /\ Len(r) = Len(t) + 4 /\ r # <<>> /\ r[1] = t[1] /\ r[Len(r)] = e[Len(e)]
      /\ \A i \in 1 .. 4 : r[Len(t) + i] = e[i]
  BY <1>0, <1>2, ConcatEnds
<1>4. Bounded(r)
  BY <1>2, <1>3, Pieces DEF Bounded
<1>5. \A p \in ForbiddenUsernamePrefixes : IsPrefix(p, r) => IsPrefix(p, t)
  BY <1>0, <1>2, PrefixEndsBefore
<1>6. ASSUME NEW p \in ForbiddenUsernameSuffixes, IsSuffix(p, r)
      PROVE  FALSE
  <2>1. p \in Seq(Char) /\ Len(p) \in Nat /\ \A i \in 1 .. Len(p) : p[i] # "-"
    BY ForbiddenForm
  <2>2. \A i \in 1 .. Len(p) : p[Len(p) - i + 1] = r[Len(r) - i + 1]
    <3>1. IsSuffix(p, r) <=>
             Len(p) <= Len(r) /\ \A i \in 1 .. Len(p) : p[Len(p) - i + 1] = r[Len(r) - i + 1]
      BY <1>3, <2>1, SuffixByIndex
    <3>. QED BY <1>6, <3>1
  <2>3. \A i \in 1 .. 4 : r[Len(r) - i + 1] = e[4 - i + 1]
    <3>. SUFFICES ASSUME NEW i \in 1 .. 4 PROVE r[Len(r) - i + 1] = e[4 - i + 1]
      OBVIOUS
    <3>1. 4 - i + 1 \in 1 .. 4 /\ Len(t) + (4 - i + 1) = Len(r) - i + 1
      BY <1>2, <1>3
    <3>. QED BY <1>3, <3>1
  <2>4. Len(p) <= 3
    <3>. SUFFICES ASSUME Len(p) >= 4 PROVE FALSE
      BY <2>1
    <3>1. 4 \in 1 .. Len(p) /\ 4 \in 1 .. 4 /\ 4 - 4 + 1 = 1 /\ Len(p) - 4 + 1 \in 1 .. Len(p)
      BY <2>1
    <3>2. p[Len(p) - 4 + 1] = e[1]
      BY <2>2, <2>3, <3>1
    <3>. QED BY <1>2, <2>1, <3>1, <3>2
  <2>5. \A i \in 1 .. 3 : e[4 - i + 1] = crt[3 - i + 1]
    <3>1. e[4 - 1 + 1] = crt[3 - 1 + 1] /\ e[4 - 2 + 1] = crt[3 - 2 + 1] /\ e[4 - 3 + 1] = crt[3 - 3 + 1]
      BY <1>2
    <3>. QED BY <3>1
  <2>6. \A i \in 1 .. Len(p) : p[Len(p) - i + 1] = crt[3 - i + 1]
    <3>. SUFFICES ASSUME NEW i \in 1 .. Len(p) PROVE p[Len(p) - i + 1] = crt[3 - i + 1]
      OBVIOUS
    <3>1. i \in 1 .. 4 /\ i \in 1 .. 3
      BY <2>1, <2>4
    <3>. QED BY <2>2, <2>3, <2>5, <3>1
  <2>7. IsSuffix(p, crt)
    BY <2>1, <2>4, <2>6, SuffixByIndex, Pieces
  <2>. QED BY <2>7, UsernamesAssumption
<1>. QED BY <1>1, <1>3, <1>4, <1>5, <1>6


LEMMA SuffixCheckedForm ==
    ASSUME NEW s, Bounded(s), \A p \in ForbiddenUsernamePrefixes : ~IsPrefix(p, s)
    PROVE  LET t == SuffixChecked(s) IN
           /\ Bounded(t)
           /\ \A p \in ForbiddenUsernamePrefixes : ~IsPrefix(p, t)
           /\ \A p \in ForbiddenUsernameSuffixes : ~IsSuffix(p, t)
           /\ Len(t) <= MaxLength \/ t = s
<1>0. /\ s \in Seq(Char) /\ Len(s) \in Nat \ {0} /\ MaxLength \in Nat /\ MaxLength >= 7
      /\ maxlengthWithPrefix = MaxLength - 4 /\ s # <<>> /\ s[1] # "-"
  BY BoundedLength, UsernamesAssumption DEF maxlengthWithPrefix, Bounded
<1>1. CASE ~\E p \in ForbiddenUsernameSuffixes : IsSuffix(p, s)
  BY <1>1 DEF SuffixChecked
<1>2. CASE \E p \in ForbiddenUsernameSuffixes : IsSuffix(p, s)
  <2>0. PICK m : m = IF Len(s) > MaxLength - 4 THEN MaxLength - 4 ELSE Len(s)
    OBVIOUS
  <2>1. /\ m \in Nat /\ m > 0 /\ m <= Len(s) /\ m <= MaxLength - 4
        /\ SuffixChecked(s) = SubSeq(s, 1, m) \o <<"-">> \o crt
    <3>1. CASE Len(s) > maxlengthWithPrefix
      <4>1. SuffixChecked(s) = SubSeq(s, 1, MaxLength - 4) \o <<"-">> \o crt
        BY <1>0, <1>2, <3>1 DEF SuffixChecked
      <4>2. MaxLength - 4 \in Nat /\ MaxLength - 4 > 0 /\ MaxLength - 4 <= Len(s)
        BY <1>0, <3>1
      <4>. QED BY <1>0, <2>0, <3>1, <4>1, <4>2
    <3>2. CASE ~(Len(s) > maxlengthWithPrefix)
      <4>1. SuffixChecked(s) = SubSeq(s, 1, Len(s)) \o <<"-">> \o crt
        BY <1>0, <1>2, <3>2, SubSeqFull DEF SuffixChecked
      <4>2. Len(s) <= MaxLength - 4 /\ Len(s) > 0
        BY <1>0, <3>2
      <4>. QED BY <1>0, <2>0, <3>2, <4>1, <4>2
    <3>. QED BY <3>1, <3>2
  <2>2. PICK u : u = SubSeq(s, 1, m)
    OBVIOUS
  <2>3. u \in Seq(Char) /\ Len(u) = m /\ \A i \in 1 .. m : u[i] = s[i]
    BY <1>0, <2>1, <2>2, CutAt
  <2>4. u # <<>>
    <3>1. Len(<<>>) = 0 /\ Len(u) # 0
      BY <2>1, <2>3
    <3>. QED BY <3>1, Zenon
  <2>5. u[1] # "-"
    BY <1>0, <2>1, <2>3
  <2>6. SuffixChecked(s) = u \o <<"-">> \o crt
    BY <2>1, <2>2
  <2>7. ASSUME NEW p \in ForbiddenUsernamePrefixes, IsPrefix(p, u)
        PROVE  FALSE
    <3>1. p \in Seq(Char) /\ Len(p) \in Nat
      BY ForbiddenForm
    <3>2. Len(p) <= m /\ \A i \in 1 .. Len(p) : p[i] = u[i]
      BY <2>3, <2>7, <3>1, PrefixByIndex
    <3>3. Len(p) <= Len(s) /\ \A i \in 1 .. Len(p) : p[i] = s[i]
      BY <1>0, <2>1, <2>3, <3>1, <3>2
    <3>4. IsPrefix(p, s)
      BY <1>0, <3>1, <3>3, PrefixByIndex
    <3>. QED BY <3>4
  <2>8. m + 4 <= MaxLength
    BY <1>0, <2>1
  <2>. QED BY <2>3, <2>4, <2>5, <2>6, <2>7, <2>8, CrtBehind
<1>. QED BY <1>1, <1>2

(* What TransformUsername promises of any username.                        *)
LEMMA TransformedForm ==
    ASSUME NEW s \in Seq(Raw)
    PROVE  LET t == TransformUsername(s) IN
           /\ Bounded(t)
           /\ \A p \in ForbiddenUsernamePrefixes : ~IsPrefix(p, t)
           /\ \A p \in ForbiddenUsernameSuffixes : ~IsSuffix(p, t)
           /\ \/ Len(t) <= MaxLength
              \/ Len(t) = MaxLength + 1 /\ \E p \in ForbiddenUsernamePrefixes : IsPrefix(p, Shortened(s))
<1>1. PICK a : a = Shortened(s)
  OBVIOUS
<1>2. PICK b : b = PrefixChecked(a)
  OBVIOUS
<1>3. Bounded(a) /\ Len(a) <= MaxLength
  BY <1>1, ShortenedForm
<1>4. /\ Bounded(b) /\ \A p \in ForbiddenUsernamePrefixes : ~IsPrefix(p, b)
      /\ \/ Len(b) <= MaxLength
         \/ Len(b) = MaxLength + 1 /\ \E p \in ForbiddenUsernamePrefixes : IsPrefix(p, a)
  BY <1>2, <1>3, PrefixCheckedForm
<1>5. TransformUsername(s) = SuffixChecked(b)
  BY <1>1, <1>2 DEF TransformUsername
<1>. QED BY <1>1, <1>4, <1>5, SuffixCheckedForm

(***************************************************************************)
(* EncodeUserIdentifier.                                                   *)
(***************************************************************************)

Allowed == {"x", "1", "-"}

LEMMA SanitizedForm ==
    ASSUME NEW s \in Seq({"x", "X", "1", "-", "@", "."})
    PROVE  LET t == sanitizeDNS1123(s) IN
           /\ t \in Seq(Allowed)
           /\ t # <<>> => t[1] # "-" /\ t[Len(t)] # "-"
           /\ s \in Seq(Allowed) /\ s # <<>> /\ s[1] # "-" /\ s[Len(s)] # "-" => t = s
<1>1. PICK l, w : l = ToLower(s) /\ w = WithoutUnwanted(l)
  OBVIOUS
<1>2. l \in Seq({"x", "1", "-", "@", "."}) /\ (s \in Seq(Allowed) => l = s)
  BY <1>1, ToLowerForm DEF Allowed
<1>3. w \in Seq(Allowed) /\ (l \in Seq(Allowed) => w = l)
  BY <1>1, <1>2, WithoutUnwantedForm DEF Allowed
<1>4. sanitizeDNS1123(s) = Trimmed(w)
  BY <1>1 DEF sanitizeDNS1123
<1>5. s \in Seq(Allowed) => w = s
  BY <1>2, <1>3
<1>. QED BY <1>3, <1>4, <1>5, TrimmedForm

(* What EncodeUserIdentifier promises of any username.                     *)
LEMMA EncodedForm ==
    ASSUME NEW s \in Seq({"x", "X", "1", "-", "@", "."}), s # <<>>
    PROVE  LET id == EncodeUserIdentifier(s) IN
           /\ id \in Seq(Allowed) /\ id # <<>> /\ Len(id) <= MaxIdentifier /\ id[1] # "-"
           /\ s \in Seq(Allowed) /\ s[1] # "-" /\ s[Len(s)] # "-" /\ Len(s) <= MaxIdentifier => id = s
<1>1. PICK t : t = sanitizeDNS1123(s)
  OBVIOUS
<1>2. /\ t \in Seq(Allowed) /\ (t # <<>> => t[1] # "-")
      /\ s \in Seq(Allowed) /\ s[1] # "-" /\ s[Len(s)] # "-" => t = s
  BY <1>1, SanitizedForm
<1>3. PICK e : e = WithChecksum(s)
  OBVIOUS
<1>4. e \in Seq(Allowed) /\ Len(e) \in Nat \ {0} /\ e[1] # "-" /\ (t = s => e = s)
  <2>1. CASE t = s
    <3>1. e = s
      BY <1>1, <1>3, <2>1 DEF WithChecksum
    <3>. QED BY <1>2, <2>1, <3>1, EmptySeq
  <2>2. CASE t # s
    <3>1. e = <<"x", "-">> \o t
      BY <1>1, <1>3, <2>2 DEF WithChecksum
    <3>2. <<"x", "-">> \in Seq(Allowed)
      BY DEF Allowed
    <3>3. e \in Seq(Allowed) /\ Len(e) = 2 + Len(t) /\ e[1] = "x" /\ Len(t) \in Nat
      BY <1>2, <3>1, <3>2
    <3>. QED BY <2>2, <3>3
  <2>. QED BY <2>1, <2>2
<1>5. MaxIdentifier \in Nat \ {0}
  BY UsernamesAssumption
<1>6. PICK id : id = EncodeUserIdentifier(s)
  OBVIOUS
<1>7. id = IF Len(e) > MaxIdentifier THEN SubSeq(e, 1, MaxIdentifier) ELSE e
  BY <1>3, <1>6 DEF EncodeUserIdentifier
<1>8. id \in Seq(Allowed) /\ Len(id) \in Nat \ {0} /\ Len(id) <= MaxIdentifier /\ id[1] # "-"
  <2>1. CASE Len(e) > MaxIdentifier
    <3>1. \A i \in 1 .. MaxIdentifier : e[i] \in Allowed
      BY <1>4, <1>5, <2>1
    <3>2. id = SubSeq(e, 1, MaxIdentifier)
      BY <1>7, <2>1
    <3>3. id \in Seq(Allowed) /\ Len(id) = MaxIdentifier /\ id[1] = e[1]
      BY <1>5, <3>1, <3>2
    <3>. QED BY <1>4, <1>5, <3>3
  <2>2. CASE ~(Len(e) > MaxIdentifier)
    BY <1>4, <1>5, <1>7, <2>2
  <2>. QED BY <2>1, <2>2
<1>9. id # <<>>
  <2>1. Len(<<>>) = 0 /\ Len(id) # 0
    BY <1>8
  <2>. QED BY <2>1, Zenon
<1>10. ASSUME s \in Seq(Allowed), s[1] # "-", s[Len(s)] # "-", Len(s) <= MaxIdentifier
       PROVE  id = s
  <2>1. e = s
    BY <1>2, <1>4, <1>10
  <2>2. Len(s) \in Nat
    OBVIOUS
  <2>. QED BY <1>5, <1>7, <1>10, <2>1, <2>2
<1>. QED BY <1>6, <1>8, <1>9, <1>10


UsernamesInv ==
    /\ \/ username = <<>>
       \/ /\ username \in Seq({"x", "X", "1", "-", "@", "."})
          /\ identifier = EncodeUserIdentifier(username)
    /\ \/ compliant = <<>> /\ username = <<>>
       \/ /\ username \in Seq({"x", "X", "1", "-", "@", "."})
          /\ compliant = TransformUsername(username)

LEMMA UsernamesInvStart == UsernamesInit => UsernamesInv
BY DEF UsernamesInit, UsernamesInv

LEMMA UsernamesInvStep == UsernamesInv /\ [UsernamesNext]_usernameVars => UsernamesInv'
<1>. SUFFICES ASSUME UsernamesInv, [UsernamesNext]_usernameVars PROVE UsernamesInv'
  OBVIOUS
<1>1. CASE UNCHANGED usernameVars
  <2>1. username' = username /\ compliant' = compliant /\ identifier' = identifier
    BY <1>1 DEF usernameVars
  <2>. QED BY <2>1, Zenon DEF UsernamesInv
<1>2. ASSUME NEW s \in SignedUp, SignUp(s)
      PROVE  UsernamesInv'
  <2>1. s \in Seq({"x", "X", "1", "-", "@", "."})
    BY UsernamesAssumption
  <2>2. /\ username' = s /\ compliant' = TransformUsername(s)
        /\ identifier' = EncodeUserIdentifier(s)
    BY <1>2 DEF SignUp
  <2>. QED BY <2>1, <2>2, Zenon DEF UsernamesInv
<1>. QED BY <1>1, <1>2 DEF UsernamesNext

(* The compliant username, once there is one.                              *)
LEMMA CompliantForm ==
    ASSUME UsernamesInv, compliant # <<>>
    PROVE  /\ Bounded(compliant)
           /\ \A p \in ForbiddenUsernamePrefixes : ~IsPrefix(p, compliant)
           /\ \A p \in ForbiddenUsernameSuffixes : ~IsSuffix(p, compliant)
           /\ \/ Len(compliant) <= MaxLength
              \/ /\ Len(compliant) = MaxLength + 1
                 /\ \E p \in ForbiddenUsernamePrefixes : IsPrefix(p, Shortened(username))
<1>1. username \in Seq({"x", "X", "1", "-", "@", "."}) /\ compliant = TransformUsername(username)
  BY DEF UsernamesInv
<1>2. username \in Seq(Raw)
  BY <1>1 DEF Raw
<1>. QED BY <1>1, <1>2, TransformedForm

(* Every username is made compliant, whatever its length and characters:   *)
(* the steps that cut, add and replace do not undo one another.            *)
THEOREM UsernamesComply == UsernamesSpec => []UsernameCompliant
<1>1. UsernamesInv => UsernameCompliant
  <2>. SUFFICES ASSUME UsernamesInv, username # <<>>
                PROVE  /\ compliant # <<>>
                       /\ Range(compliant) \cap {"@", "."} = {}
                       /\ "-" \notin {Head(compliant), Last(compliant)}
                       /\ \A p \in ForbiddenUsernamePrefixes : ~IsPrefix(p, compliant)
                       /\ \A p \in ForbiddenUsernameSuffixes : ~IsSuffix(p, compliant)
    BY DEF UsernameCompliant
  <2>1. compliant # <<>>
    <3>1. username \in Seq({"x", "X", "1", "-", "@", "."}) /\ compliant = TransformUsername(username)
      BY DEF UsernamesInv
    <3>2. username \in Seq(Raw)
      BY <3>1 DEF Raw
    <3>. QED BY <3>1, <3>2, TransformedForm DEF Bounded
  <2>2. /\ Bounded(compliant)
        /\ \A p \in ForbiddenUsernamePrefixes : ~IsPrefix(p, compliant)
        /\ \A p \in ForbiddenUsernameSuffixes : ~IsSuffix(p, compliant)
    BY <2>1, CompliantForm
  <2>3. /\ Head(compliant) = compliant[1] /\ Last(compliant) = compliant[Len(compliant)]
        /\ compliant[1] # "-" /\ compliant[Len(compliant)] # "-"
    BY <2>2 DEF Bounded, Last
  <2>4. Range(compliant) \cap {"@", "."} = {}
    <3>1. compliant \in Seq(Char)
      BY <2>2 DEF Bounded
    <3>2. \A i \in 1 .. Len(compliant) : compliant[i] \in Char
      BY <3>1, ElementOfSeq
    <3>3. DOMAIN compliant = 1 .. Len(compliant)
      BY <3>1
    <3>. QED BY <3>2, <3>3 DEF Range, Char
  <2>. QED BY <2>1, <2>2, <2>3, <2>4
<1>. QED BY <1>1, UsernamesInvStart, UsernamesInvStep, PTL DEF UsernamesSpec

(* A compliant username that is longer than MaxLength is so by one         *)
(* character, and only because a forbidden prefix was replaced.            *)
THEOREM UsernamesNearLimit ==
    UsernamesSpec =>
        [](Len(compliant) > MaxLength =>
                /\ Len(compliant) = MaxLength + 1
                /\ \E p \in ForbiddenUsernamePrefixes : IsPrefix(p, Shortened(username)))
<1>1. UsernamesInv => (Len(compliant) > MaxLength =>
                            /\ Len(compliant) = MaxLength + 1
                            /\ \E p \in ForbiddenUsernamePrefixes : IsPrefix(p, Shortened(username)))
  <2>. SUFFICES ASSUME UsernamesInv, Len(compliant) > MaxLength
                PROVE  /\ Len(compliant) = MaxLength + 1
                       /\ \E p \in ForbiddenUsernamePrefixes : IsPrefix(p, Shortened(username))
    OBVIOUS
  <2>1. compliant # <<>>
    <3>1. Len(<<>>) = 0 /\ MaxLength \in Nat
      BY UsernamesAssumption
    <3>. QED BY <3>1
  <2>2. Len(compliant) \in Nat /\ MaxLength \in Nat
    BY <2>1, CompliantForm, BoundedLength, UsernamesAssumption
  <2>. QED BY <2>1, <2>2, CompliantForm
<1>. QED BY <1>1, UsernamesInvStart, UsernamesInvStep, PTL DEF UsernamesSpec

(* The name of the UserSignup of every user is not empty, short enough, of *)
(* the characters allowed, and the username itself where that complies.    *)
THEOREM IdentifiersComply == UsernamesSpec => []IdentifierCompliant
<1>1. UsernamesInv => IdentifierCompliant
  <2>. SUFFICES ASSUME UsernamesInv, username # <<>>
                PROVE  /\ identifier # <<>> /\ Len(identifier) <= MaxIdentifier
                       /\ Range(identifier) \subseteq {"x", "1", "-"}
                       /\ Head(identifier) # "-"
                       /\ IsDNS1123(username) => identifier = username
    BY DEF IdentifierCompliant
  <2>1. username \in Seq({"x", "X", "1", "-", "@", "."}) /\ identifier = EncodeUserIdentifier(username)
    BY DEF UsernamesInv
  <2>2. /\ identifier \in Seq(Allowed) /\ identifier # <<>>
        /\ Len(identifier) <= MaxIdentifier /\ identifier[1] # "-"
        /\ username \in Seq(Allowed) /\ username[1] # "-" /\ username[Len(username)] # "-"
                /\ Len(username) <= MaxIdentifier
              => identifier = username
    BY <2>1, EncodedForm
  <2>3. Head(identifier) = identifier[1]
    BY <2>2
  <2>4. Range(identifier) \subseteq {"x", "1", "-"}
    <3>1. \A i \in 1 .. Len(identifier) : identifier[i] \in Allowed
      BY <2>2
    <3>2. DOMAIN identifier = 1 .. Len(identifier)
      BY <2>2
    <3>. QED BY <3>1, <3>2 DEF Range, Allowed
  <2>5. ASSUME IsDNS1123(username)
        PROVE  identifier = username
    <3>1. /\ Len(username) <= MaxIdentifier /\ username[1] # "-" /\ username[Len(username)] # "-"
      BY <2>1, <2>5 DEF IsDNS1123, Last
    <3>2. \A i \in 1 .. Len(username) : username[i] \in Allowed
      <4>1. DOMAIN username = 1 .. Len(username)
        BY <2>1
      <4>. QED BY <2>5, <4>1 DEF IsDNS1123, Range, Allowed
    <3>3. username \in Seq(Allowed)
      <4>1. username \in [1 .. Len(username) -> Allowed] /\ Len(username) \in Nat
        BY <2>1, <3>2
      <4>2. \A n \in Nat : \A f \in [1 .. n -> Allowed] : f \in Seq(Allowed)
        OBVIOUS
      <4>. QED BY <4>1, <4>2
    <3>. QED BY <2>2, <3>1, <3>3
  <2>. QED BY <2>2, <2>3, <2>4, <2>5
<1>. QED BY <1>1, UsernamesInvStart, UsernamesInvStep, PTL DEF UsernamesSpec
=============================================================================
