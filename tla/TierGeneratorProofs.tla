------------------------ MODULE TierGeneratorProofs ------------------------
(***************************************************************************)
(* The properties of TierGenerator, for any tiers, types and files and any *)
(* number of commits and releases.                                         *)
(***************************************************************************)
EXTENDS TierGenerator, TLAPS

(***************************************************************************)
(* The inductive invariant.                                                *)
(***************************************************************************)

(* No file is newer than the latest commit.                                *)
TreeOK ==
    \A t \in Tiers :
        /\ tree[t].basedOn # None => tree[t].basedOn.rev <= revision
        /\ \A k \in Types : tree[t].files[k] # None => tree[t].files[k] <= revision

(* What is in the cluster under a name, compared with the files: a         *)
(* template made of the tier's own file has not been released with a       *)
(* based_on_tier.yaml, which, if there is one, was added later; of a tier  *)
(* that was based on another one the based_on_tier.yaml of that revision   *)
(* is known, and a file of its own was added later.                        *)
StoredOK(n) ==
    LET c == templates[n]
        b == tree[n.tier].basedOn
        f == tree[n.tier].files[n.type]
    IN  c # None =>
            /\ c.type = n.type /\ c.rev = n.rev
            /\ n.based <= released /\ n.rev <= released
            /\ c.param = None =>
                c.tier = n.tier /\ n.based = n.rev /\ (b # None => b.rev > n.rev)
            /\ c.param # None =>
                /\ b # None /\ b.rev = n.based => b.from = c.tier /\ b.param = c.param
                /\ n.based = n.rev /\ f # None => f > n.rev
Stored == \A n \in Names : n.type \in Kinds => StoredOK(n)

(* A pass works with the files of the release.                             *)
Loaded ==
    pc # "idle" =>
        /\ ~LoadFails
        /\ released = revision
        /\ \A t \in Tiers : todo[t] # {} => Exists(t) /\ todo[t] \subseteq NewTierTemplates(t)
        /\ \A t \in tiersLeft : Exists(t)
        /\ pc # "templates" => \A t \in Tiers : todo[t] = {}
        /\ pc = "done" => tiersLeft = {}

(* What a pass is through with is in the cluster.                          *)
Ensured ==
    pc # "idle" =>
        \A t \in Tiers : Exists(t) =>
            /\ \A n \in NewTierTemplates(t) \ todo[t] : templates[n] = NewTierTemplate(n)
            /\ t \notin tiersLeft => nsTiers[t] = NewNSTemplateTier(t)

TInv == TypeOK /\ TreeOK /\ Stored /\ Loaded /\ Ensured /\ RefsResolve

LEMMA AtStart == Init => TInv
  <1> SUFFICES ASSUME Init PROVE TInv
    OBVIOUS
  <1>1. 1 \in Revisions
    BY BoundsAssumption DEF Revisions
  <1>2. tree \in [Tiers -> Dirs]
    <2>1. /\ [rev : {1}, objects : {1, 2}] \subseteq Yamls
          /\ [rev : {1}, from : Tiers, param : Params] \subseteq BasedOns
          /\ [Types -> {1, None}] \subseteq [Types -> Revisions \cup {None}]
      BY <1>1 DEF Yamls, BasedOns
    <2> DEFINE S == [yaml : [rev : {1}, objects : {1, 2}] \cup {None},
                     files : [Types -> {1, None}],
                     basedOn : [rev : {1}, from : Tiers, param : Params] \cup {None}]
    <2>2. S \subseteq Dirs
      BY <2>1 DEF Dirs
    <2>3. tree \in [Tiers -> S]
      BY DEF Init
    <2> HIDE DEF S
    <2> QED BY <2>2, <2>3
  <1>3. TypeOK
    BY <1>1, <1>2 DEF Init, TypeOK
  <1>4. TreeOK
    <2> SUFFICES ASSUME NEW t \in Tiers
                 PROVE  /\ tree[t].basedOn # None => tree[t].basedOn.rev <= revision
                        /\ \A k \in Types : tree[t].files[k] # None => tree[t].files[k] <= revision
      BY DEF TreeOK
    <2>1. /\ tree[t].basedOn \in [rev : {1}, from : Tiers, param : Params] \cup {None}
          /\ tree[t].files \in [Types -> {1, None}]
          /\ revision = 1
      BY DEF Init
    <2>2. tree[t].basedOn # None => tree[t].basedOn.rev = 1
      BY <2>1
    <2>3. \A k \in Types : tree[t].files[k] # None => tree[t].files[k] = 1
      BY <2>1
    <2> QED BY <2>1, <2>2, <2>3
  <1>5. Stored /\ Loaded /\ Ensured /\ RefsResolve
    BY DEF Init, Stored, StoredOK, Loaded, Ensured, RefsResolve
  <1> QED BY <1>3, <1>4, <1>5 DEF TInv

(***************************************************************************)
(* What is derived from the files.                                         *)
(***************************************************************************)

(* The derived data stays the same as long as the files do.                *)
LEMMA TreeFrame ==
    ASSUME tree' = tree
    PROVE  /\ \A t \in Tiers : Exists(t)' <=> Exists(t)
           /\ \A t \in Tiers : NewTierTemplates(t)' = NewTierTemplates(t)
           /\ \A t \in Tiers : NewNSTemplateTier(t)' = NewNSTemplateTier(t)
           /\ \A n \in Names : NewTierTemplate(n)' = NewTierTemplate(n)
           /\ LoadFails' <=> LoadFails
  BY DEF Exists, NewTierTemplates, NewNSTemplateTier, NewTierTemplate, NewTierTemplateName,
         BasedOnTierFileRevision, From, Parameters, LoadFails, Mixed

LEMMA DirTypes ==
    ASSUME TypeOK, NEW t \in Tiers
    PROVE  /\ tree[t].yaml \in Yamls \cup {None}
           /\ \A k \in Types : tree[t].files[k] \in Revisions \cup {None}
           /\ tree[t].basedOn \in BasedOns \cup {None}
           /\ From(t) \in Tiers
           /\ Parameters(t) \in Params \cup {None}
           /\ Parameters(t) = None <=> tree[t].basedOn = None
  <1>1. tree[t] \in Dirs
    BY DEF TypeOK
  <1>2. tree[t].basedOn \in BasedOns \cup {None}
    BY <1>1 DEF Dirs
  <1>3. CASE tree[t].basedOn = None
    BY <1>1, <1>3 DEF Dirs, From, Parameters
  <1>4. CASE tree[t].basedOn # None
    <2>1. tree[t].basedOn.from \in Tiers /\ tree[t].basedOn.param \in Params
      BY <1>2, <1>4 DEF BasedOns
    <2>2. tree[t].basedOn.param # None
      BY <2>1, NoneAssumption
    <2>3. From(t) = tree[t].basedOn.from /\ Parameters(t) = tree[t].basedOn.param
      BY <1>4 DEF From, Parameters
    <2> QED BY <1>1, <1>2, <1>4, <2>1, <2>2, <2>3 DEF Dirs
  <1> QED BY <1>3, <1>4

(* A TierTemplate of t: its name and its content.                          *)
LEMMA NameOf ==
    ASSUME TypeOK, NEW t \in Tiers, NEW n \in NewTierTemplates(t)
    PROVE  /\ n \in Names /\ n.tier = t
           /\ tree[From(t)].files[n.type] = n.rev
           /\ tree[t].basedOn = None => n.based = n.rev
           /\ tree[t].basedOn # None => n.based = tree[t].basedOn.rev
           /\ NewTierTemplate(n) \in Contents
  <1>1. PICK k \in Types : tree[From(t)].files[k] # None /\ n = NewTierTemplateName(t, k)
    BY DEF NewTierTemplates
  <1>2. tree[From(t)].files[k] \in Revisions
    BY <1>1, DirTypes
  <1>3. BasedOnTierFileRevision(t, k) \in Revisions
    <2>1. CASE tree[t].basedOn = None
      BY <1>2, <2>1 DEF BasedOnTierFileRevision, From
    <2>2. CASE tree[t].basedOn # None
      BY <2>2, DirTypes DEF BasedOnTierFileRevision, BasedOns
    <2> QED BY <2>1, <2>2
  <1>4. /\ n.tier = t /\ n.type = k /\ n.rev = tree[From(t)].files[k]
        /\ n.based = BasedOnTierFileRevision(t, k) /\ n \in Names
    BY <1>1, <1>2, <1>3 DEF NewTierTemplateName, Names
  <1>5. /\ tree[t].basedOn = None => n.based = n.rev
        /\ tree[t].basedOn # None => n.based = tree[t].basedOn.rev
    BY <1>4 DEF BasedOnTierFileRevision, From
  <1>6. NewTierTemplate(n) \in Contents
    BY <1>2, <1>4, DirTypes DEF NewTierTemplate, Contents
  <1> QED BY <1>4, <1>5, <1>6

LEMMA NSTemplateTierType ==
    ASSUME TypeOK, NEW t \in Tiers, Exists(t), ~LoadFails
    PROVE  NewNSTemplateTier(t) \in NSTemplateTiers
  <1>1. From(t) \in Tiers /\ Parameters(t) \in Params \cup {None}
    BY DirTypes
  <1>2. tree[From(t)].yaml \in Yamls
    BY <1>1, DirTypes DEF LoadFails
  <1>3. tree[From(t)].yaml.rev \in Revisions
    BY <1>2 DEF Yamls
  <1>4. NewTierTemplates(t) \subseteq Names
    BY NameOf
  <1> QED BY <1>1, <1>3, <1>4 DEF NewNSTemplateTier, NSTemplateTiers

(* The heart of the matter: what is in the cluster under a name that the   *)
(* release uses is what the release would put there.                       *)
LEMMA StoredIsNew ==
    ASSUME TypeOK, Stored, NEW t \in Tiers, NEW n \in NewTierTemplates(t), n.type \in Kinds,
           templates[n] # None
    PROVE  templates[n] = NewTierTemplate(n)
  <1> DEFINE c == templates[n]
             b == tree[t].basedOn
  <1>1. /\ n \in Names /\ n.tier = t
        /\ tree[From(t)].files[n.type] = n.rev
        /\ b = None => n.based = n.rev
        /\ b # None => n.based = b.rev
    BY NameOf
  <1>2. StoredOK(n) /\ c \in Contents
    BY <1>1 DEF Stored, TypeOK
  <1>3. n.rev \in Nat /\ n.based \in Nat /\ n.rev # None
    BY <1>1, BoundsAssumption, NoneAssumption DEF Names, Revisions
  <1>4. CASE b = None
    <2>1. tree[t].files[n.type] = n.rev /\ n.based = n.rev
      BY <1>1, <1>4 DEF From
    <2>2. c.param = None
      BY <1>1, <1>2, <1>3, <2>1 DEF StoredOK
    <2>3. c.tier = t /\ c.type = n.type /\ c.rev = n.rev
      BY <1>1, <1>2, <2>2 DEF StoredOK
    <2>4. From(t) = t /\ Parameters(t) = None
      BY <1>4 DEF From, Parameters
    <2> QED BY <1>1, <1>2, <2>2, <2>3, <2>4 DEF NewTierTemplate, Contents
  <1>5. CASE b # None
    <2>1. c.param # None
      BY <1>1, <1>2, <1>3, <1>5 DEF StoredOK
    <2>2. c.tier = b.from /\ c.param = b.param /\ c.type = n.type /\ c.rev = n.rev
      BY <1>1, <1>2, <1>5, <2>1 DEF StoredOK
    <2>3. From(t) = b.from /\ Parameters(t) = b.param
      BY <1>5 DEF From, Parameters
    <2> QED BY <1>1, <1>2, <2>2, <2>3 DEF NewTierTemplate, Contents
  <1> QED BY <1>4, <1>5

(***************************************************************************)
(* The steps.                                                              *)
(***************************************************************************)

(* The steps that leave no pass under way.                                 *)
LEMMA Idle ==
    ASSUME TypeOK, Stops
    PROVE  /\ pc' \in {"idle", "templates", "tiers", "done"}
           /\ todo' \in [Tiers -> SUBSET Names]
           /\ tiersLeft' \subseteq Tiers
           /\ Loaded' /\ Ensured'
  BY DEF Stops, Loaded, Ensured

LEMMA FaultsTyped ==
    ASSUME TypeOK, Fault
    PROVE  faults' \in Nat
  BY DEF TypeOK, Fault

LEMMA EditPreserves ==
    ASSUME TInv, NEW t \in Tiers, Edit(t)
    PROVE  TInv'
  <1> DEFINE r == revision'
  <1>1. /\ r \in Revisions /\ r \in Nat /\ revision \in Nat
        /\ revision <= r /\ released < r /\ released \in Nat
    BY BoundsAssumption DEF TInv, TypeOK, Edit, Revisions
  <1>2. /\ tree[t] \in Dirs
        /\ \A u \in Tiers : tree[u] \in Dirs
    BY DEF TInv, TypeOK
  <1>3. /\ tree' \in [Tiers -> Dirs]
        /\ \A u \in Tiers \ {t} : tree'[u] = tree[u]
        /\ tree'[t].basedOn = tree[t].basedOn \/ tree'[t].basedOn = None
            \/ tree'[t].basedOn.rev = r
        /\ \A k \in Types : tree'[t].files[k] \in {tree[t].files[k], None, r}
    <2>1. CASE \E y \in [rev : {revision'}, objects : {1, 2}] \cup {None} :
                 tree' = [tree EXCEPT ![t].yaml = y]
      <3>1. PICK y \in [rev : {r}, objects : {1, 2}] \cup {None} :
                tree' = [tree EXCEPT ![t].yaml = y]
        BY <2>1
      <3>2. y \in Yamls \cup {None}
        BY <1>1 DEF Yamls
      <3>3. /\ tree' = [tree EXCEPT ![t] = [tree[t] EXCEPT !.yaml = y]]
            /\ [tree[t] EXCEPT !.yaml = y] \in Dirs
        BY <1>2, <3>1, <3>2 DEF Dirs, TInv, TypeOK
      <3> QED BY <1>2, <3>3 DEF TInv, TypeOK, Dirs
    <2>2. CASE \E k \in Types, q \in {revision', None} :
                 tree' = [tree EXCEPT ![t].files[k] = q]
      <3>1. PICK k \in Types, q \in {r, None} : tree' = [tree EXCEPT ![t].files[k] = q]
        BY <2>2
      <3> DEFINE fs == [tree[t].files EXCEPT ![k] = q]
      <3>2. tree[t].files \in [Types -> Revisions \cup {None}]
        BY <1>2 DEF Dirs
      <3>3. /\ fs \in [Types -> Revisions \cup {None}]
            /\ \A j \in Types : fs[j] \in {tree[t].files[j], None, r}
        BY <1>1, <3>2
      <3>4. tree' = [tree EXCEPT ![t] = [tree[t] EXCEPT !.files = fs]]
        BY <1>2, <3>1 DEF TInv, TypeOK, Dirs
      <3> HIDE DEF fs
      <3>5. [tree[t] EXCEPT !.files = fs] \in Dirs
        BY <1>2, <3>3 DEF Dirs
      <3>6. tree'[t] = [tree[t] EXCEPT !.files = fs]
        BY <3>4 DEF TInv, TypeOK
      <3>7. tree'[t].files = fs /\ tree'[t].basedOn = tree[t].basedOn
        BY <1>2, <3>6 DEF Dirs
      <3> QED BY <1>2, <3>3, <3>4, <3>5, <3>7 DEF TInv, TypeOK
    <2>3. CASE \E b \in [rev : {revision'}, from : Tiers, param : Params] \cup {None} :
                 tree' = [tree EXCEPT ![t].basedOn = b]
      <3>1. PICK b \in [rev : {r}, from : Tiers, param : Params] \cup {None} :
                tree' = [tree EXCEPT ![t].basedOn = b]
        BY <2>3
      <3>2. b \in BasedOns \cup {None} /\ (b = None \/ b.rev = r)
        BY <1>1 DEF BasedOns
      <3>3. /\ tree' = [tree EXCEPT ![t] = [tree[t] EXCEPT !.basedOn = b]]
            /\ [tree[t] EXCEPT !.basedOn = b] \in Dirs
        BY <1>2, <3>1, <3>2 DEF Dirs, TInv, TypeOK
      <3> QED BY <1>2, <3>2, <3>3 DEF TInv, TypeOK, Dirs
    <2> QED BY <2>1, <2>2, <2>3 DEF Edit
  <1>4. TypeOK'
    BY <1>1, <1>3 DEF TInv, TypeOK, Edit
  <1>5. \A u \in Tiers, k \in Types : /\ tree[u].files[k] \in Revisions \cup {None}
                                     /\ tree[u].basedOn \in BasedOns \cup {None}
    BY DirTypes DEF TInv
  <1>6. \A u \in Tiers : tree[u].basedOn # None => tree[u].basedOn.rev \in Nat
    BY <1>2, BoundsAssumption DEF Dirs, BasedOns, Revisions
  <1>7. TreeOK'
    <2> SUFFICES ASSUME NEW u \in Tiers
                 PROVE  /\ tree'[u].basedOn # None => tree'[u].basedOn.rev <= r
                        /\ \A k \in Types : tree'[u].files[k] # None => tree'[u].files[k] <= r
      BY DEF TreeOK
    <2>1. \A k \in Types : tree[u].files[k] # None => tree[u].files[k] \in Nat
      BY <1>5, BoundsAssumption DEF Revisions
    <2>2. tree[u].basedOn # None => tree[u].basedOn.rev <= r
      BY <1>1, <1>6 DEF TInv, TreeOK
    <2>3. \A k \in Types : tree[u].files[k] # None => tree[u].files[k] <= r
      BY <1>1, <2>1 DEF TInv, TreeOK
    <2>4. CASE u = t
      BY <1>1, <1>3, <2>2, <2>3, <2>4
    <2>5. CASE u # t
      BY <1>3, <2>2, <2>3, <2>5
    <2> QED BY <2>4, <2>5
  <1>8. Stored'
    <2> SUFFICES ASSUME NEW n \in Names, n.type \in Kinds, templates[n] # None
                 PROVE  StoredOK(n)'
      BY DEF Stored, StoredOK, Edit
    <2>1. StoredOK(n)
      BY DEF TInv, Stored
    <2>2. /\ n.tier \in Tiers /\ n.type \in Types /\ n.rev \in Nat /\ n.based \in Nat
      BY BoundsAssumption DEF Names, Revisions
    <2>3. n.based < r /\ n.rev < r
      BY <1>1, <2>1, <2>2 DEF StoredOK
    <2>4. UNCHANGED <<templates, released>>
      BY DEF Edit
    <2>5. CASE n.tier # t
      BY <1>3, <2>1, <2>2, <2>4, <2>5 DEF StoredOK
    <2>6. CASE n.tier = t
      <3>1. \/ tree'[t].basedOn = tree[t].basedOn
            \/ tree'[t].basedOn = None
            \/ tree'[t].basedOn.rev = r
        BY <1>3
      <3>2. tree'[t].files[n.type] \in {tree[t].files[n.type], None, r}
        BY <1>3, <2>2
      <3> QED BY <2>1, <2>2, <2>3, <2>4, <2>6, <3>1, <3>2, <1>1 DEF StoredOK
    <2> QED BY <2>5, <2>6
  <1>9. Loaded' /\ Ensured' /\ RefsResolve'
    BY DEF TInv, Loaded, Ensured, RefsResolve, Edit
  <1> QED BY <1>4, <1>7, <1>8, <1>9 DEF TInv

LEMMA GeneratePreserves ==
    ASSUME TInv, GenerateTiers
    PROVE  TInv'
  <1>1. /\ UNCHANGED <<tree, revision, templates, nsTiers, edits, faults>>
        /\ released' = revision
    BY DEF GenerateTiers
  <1>2. /\ released' \in Nat /\ released' <= revision /\ released <= released'
        /\ released \in Nat /\ revision \in Nat
    BY <1>1, BoundsAssumption DEF TInv, TypeOK, Revisions
  <1>3. TreeOK' /\ RefsResolve'
    BY <1>1 DEF TInv, TreeOK, RefsResolve
  <1>4. Stored'
    <2> SUFFICES ASSUME NEW n \in Names, n.type \in Kinds PROVE StoredOK(n)'
      BY DEF Stored
    <2>1. StoredOK(n)
      BY DEF TInv, Stored
    <2>2. n.rev \in Nat /\ n.based \in Nat
      BY BoundsAssumption DEF Names, Revisions
    <2> QED BY <1>1, <1>2, <2>1, <2>2 DEF StoredOK
  <1>5. CASE Stops
    <2>1. /\ pc' \in {"idle", "templates", "tiers", "done"}
          /\ todo' \in [Tiers -> SUBSET Names] /\ tiersLeft' \subseteq Tiers
          /\ Loaded' /\ Ensured'
      BY <1>5, Idle DEF TInv
    <2>2. TypeOK'
      BY <1>1, <1>2, <2>1 DEF TInv, TypeOK
    <2> QED BY <1>3, <1>4, <2>1, <2>2 DEF TInv
  <1>6. CASE /\ ~LoadFails
             /\ todo' = [t \in Tiers |-> IF Exists(t) THEN NewTierTemplates(t) ELSE {}]
             /\ tiersLeft' = {t \in Tiers : Exists(t)}
             /\ pc' = IF tiersLeft' = {} THEN "done" ELSE NextPass(todo')
    <2>1. \A t \in Tiers : NewTierTemplates(t) \subseteq Names
      BY NameOf DEF TInv
    <2>2. TypeOK'
      BY <1>1, <1>2, <1>6, <2>1 DEF TInv, TypeOK, NextPass
    <2>3. /\ \A t \in Tiers : Exists(t)' <=> Exists(t)
          /\ \A t \in Tiers : NewTierTemplates(t)' = NewTierTemplates(t)
          /\ LoadFails' <=> LoadFails
      BY <1>1, TreeFrame
    <2>4. \A t \in Tiers : todo'[t] = IF Exists(t) THEN NewTierTemplates(t) ELSE {}
      BY <1>6
    <2>5. pc' = "tiers" => \A t \in Tiers : todo'[t] = {}
      BY <1>6 DEF NextPass
    <2>6. pc' = "done" => tiersLeft' = {} /\ \A t \in Tiers : todo'[t] = {}
      BY <1>6, <2>4 DEF NextPass
    <2>7. Loaded'
      BY <1>1, <1>6, <2>2, <2>3, <2>4, <2>5, <2>6 DEF Loaded, TypeOK
    <2>8. Ensured'
      BY <1>6, <2>3, <2>4 DEF Ensured
    <2> QED BY <1>3, <1>4, <2>2, <2>7, <2>8 DEF TInv
  <1> QED BY <1>5, <1>6 DEF GenerateTiers

LEMMA CrashPreserves ==
    ASSUME TInv, Crash
    PROVE  TInv'
  <1>1. /\ pc' \in {"idle", "templates", "tiers", "done"}
        /\ todo' \in [Tiers -> SUBSET Names] /\ tiersLeft' \subseteq Tiers
        /\ Loaded' /\ Ensured'
    BY Idle DEF TInv, Crash
  <1>2. TypeOK'
    BY <1>1 DEF TInv, TypeOK, Crash
  <1>3. TreeOK' /\ Stored' /\ RefsResolve'
    BY DEF TInv, TreeOK, Stored, StoredOK, RefsResolve, Crash
  <1> QED BY <1>1, <1>2, <1>3 DEF TInv

(* Only the first pass writes TierTemplates, and what it writes is sound.  *)
LEMMA TemplateWritten ==
    ASSUME TInv, NEW t \in Tiers, NEW n \in todo[t], pc = "templates",
           templates' = [templates EXCEPT ![n] = NewTierTemplate(n)],
           UNCHANGED <<tree, revision, released, nsTiers>>
    PROVE  /\ n \in NewTierTemplates(t) /\ n \in Names /\ n.tier = t /\ Exists(t)
           /\ templates' \in [Names -> Contents \cup {None}]
           /\ templates'[n] = NewTierTemplate(n) /\ NewTierTemplate(n) # None
           /\ TreeOK' /\ Stored' /\ RefsResolve'
           /\ n.type \in Kinds /\ templates[n] # None => templates'[n] = templates[n]
  <1>1. n \in NewTierTemplates(t) /\ Exists(t) /\ ~LoadFails /\ released = revision
    BY DEF TInv, Loaded
  <1>2. /\ n \in Names /\ n.tier = t
        /\ tree[From(t)].files[n.type] = n.rev
        /\ tree[t].basedOn = None => n.based = n.rev
        /\ tree[t].basedOn # None => n.based = tree[t].basedOn.rev
        /\ NewTierTemplate(n) \in Contents
    BY <1>1, NameOf DEF TInv
  <1>3. templates' \in [Names -> Contents \cup {None}] /\ templates'[n] = NewTierTemplate(n)
    BY <1>2 DEF TInv, TypeOK
  <1>4. NewTierTemplate(n) # None
    BY <1>2, NoneAssumption
  <1>5. TreeOK'
    BY DEF TInv, TreeOK
  <1>6. RefsResolve'
    <2> SUFFICES ASSUME NEW u \in Tiers, nsTiers[u] # None, NEW m \in nsTiers[u].refs
                 PROVE  templates'[m] # None
      BY DEF RefsResolve
    <2>1. m \in Names /\ templates[m] # None
      BY DEF TInv, TypeOK, RefsResolve, NSTemplateTiers
    <2> QED BY <1>3, <1>4, <2>1 DEF TInv, TypeOK
  <1>7. Stored'
    <2> SUFFICES ASSUME NEW m \in Names, m.type \in Kinds PROVE StoredOK(m)'
      BY DEF Stored
    <2>1. CASE m # n
      <3>1. templates'[m] = templates[m]
        BY <2>1 DEF TInv, TypeOK
      <3> QED BY <3>1 DEF TInv, Stored, StoredOK
    <2>2. CASE m = n
      <3> DEFINE b == tree[t].basedOn
                 f == tree[t].files[n.type]
                 c == NewTierTemplate(n)
      <3>1. n.type \in Types /\ n.type \in Kinds
        BY <1>2, <2>2 DEF Names
      <3>2. c.type = n.type /\ c.rev = n.rev /\ c.tier = From(t) /\ c.param = Parameters(t)
        BY <1>2 DEF NewTierTemplate
      <3>3. From(t) \in Tiers /\ (Parameters(t) = None <=> b = None)
        BY DirTypes DEF TInv
      <3>4. n.rev # None
        BY <1>2, NoneAssumption DEF Names
      <3>5. n.rev <= released
        BY <1>1, <1>2, <3>1, <3>3, <3>4 DEF TInv, TreeOK
      <3>6. n.based <= released
        BY <1>1, <1>2, <3>5 DEF TInv, TreeOK
      <3>7. b = None => c.tier = t /\ n.based = n.rev
        BY <1>2, <3>2 DEF From
      <3>8. b # None => b.from = c.tier /\ b.param = c.param /\ f = None
        BY <1>1, <3>1, <3>2 DEF From, Parameters, LoadFails, Mixed
      <3> HIDE DEF c
      <3> QED BY <1>2, <1>3, <2>2, <3>2, <3>3, <3>5, <3>6, <3>7, <3>8 DEF StoredOK, c
    <2> QED BY <2>1, <2>2
  <1>8. n.type \in Kinds /\ templates[n] # None => templates'[n] = templates[n]
    BY <1>1, <1>3, StoredIsNew DEF TInv
  <1> QED BY <1>1, <1>2, <1>3, <1>4, <1>5, <1>6, <1>7, <1>8

LEMMA EnsureTierTemplatePreserves ==
    ASSUME TInv, NEW t \in Tiers, NEW n \in Names, EnsureTierTemplate(t, n)
    PROVE  TInv'
  <1>1. /\ pc = "templates" /\ n \in todo[t]
        /\ UNCHANGED <<tree, revision, released, nsTiers, edits>>
    BY DEF EnsureTierTemplate
  <1>2. CASE templates' = [templates EXCEPT ![n] = NewTierTemplate(n)] /\ Fault /\ Stops
    <2>1. templates' \in [Names -> Contents \cup {None}] /\ TreeOK' /\ Stored' /\ RefsResolve'
      BY <1>1, <1>2, TemplateWritten
    <2>2. /\ pc' \in {"idle", "templates", "tiers", "done"}
          /\ todo' \in [Tiers -> SUBSET Names] /\ tiersLeft' \subseteq Tiers
          /\ Loaded' /\ Ensured' /\ faults' \in Nat
      BY <1>2, Idle, FaultsTyped DEF TInv
    <2>3. TypeOK'
      BY <1>1, <2>1, <2>2 DEF TInv, TypeOK
    <2> QED BY <2>1, <2>2, <2>3 DEF TInv
  <1>3. CASE Fault /\ Stops /\ UNCHANGED templates
    <2>1. TreeOK' /\ Stored' /\ RefsResolve'
      BY <1>1, <1>3 DEF TInv, TreeOK, Stored, StoredOK, RefsResolve
    <2>2. /\ pc' \in {"idle", "templates", "tiers", "done"}
          /\ todo' \in [Tiers -> SUBSET Names] /\ tiersLeft' \subseteq Tiers
          /\ Loaded' /\ Ensured' /\ faults' \in Nat
      BY <1>3, Idle, FaultsTyped DEF TInv
    <2>3. TypeOK'
      BY <1>1, <1>3, <2>2 DEF TInv, TypeOK
    <2> QED BY <2>1, <2>2, <2>3 DEF TInv
  <1>4. CASE /\ templates' = [templates EXCEPT ![n] = NewTierTemplate(n)]
             /\ todo' = [todo EXCEPT ![t] = @ \ {n}]
             /\ pc' = NextPass(todo')
             /\ UNCHANGED <<tiersLeft, faults>>
    <2>1. /\ n \in NewTierTemplates(t) /\ n.tier = t /\ Exists(t)
          /\ templates' \in [Names -> Contents \cup {None}]
          /\ templates'[n] = NewTierTemplate(n)
          /\ TreeOK' /\ Stored' /\ RefsResolve'
      BY <1>1, <1>4, TemplateWritten
    <2>2. TypeOK'
      BY <1>1, <1>4, <2>1 DEF TInv, TypeOK, NextPass
    <2>3. /\ \A u \in Tiers : Exists(u)' <=> Exists(u)
          /\ \A u \in Tiers : NewTierTemplates(u)' = NewTierTemplates(u)
          /\ \A u \in Tiers : NewNSTemplateTier(u)' = NewNSTemplateTier(u)
          /\ \A m \in Names : NewTierTemplate(m)' = NewTierTemplate(m)
          /\ LoadFails' <=> LoadFails
      BY <1>1, TreeFrame
    <2>4. \A u \in Tiers : todo'[u] \subseteq todo[u] /\ (u # t => todo'[u] = todo[u])
      BY <1>4 DEF TInv, TypeOK
    <2>5. todo'[t] = todo[t] \ {n}
      BY <1>4 DEF TInv, TypeOK
    <2>6. pc' \in {"templates", "tiers"} /\ (pc' = "tiers" => \A u \in Tiers : todo'[u] = {})
      BY <1>4 DEF NextPass
    <2>7. Loaded'
      <3>1. \A u \in Tiers :
                todo[u] # {} => Exists(u) /\ todo[u] \subseteq NewTierTemplates(u)
        BY <1>1 DEF TInv, Loaded
      <3>2. tiersLeft \subseteq Tiers /\ \A u \in tiersLeft : Exists(u)
        BY <1>1 DEF TInv, TypeOK, Loaded
      <3>3. ~LoadFails /\ released = revision
        BY <1>1 DEF TInv, Loaded
      <3> QED BY <1>1, <1>4, <2>3, <2>4, <2>6, <3>1, <3>2, <3>3 DEF Loaded
    <2>8. Ensured'
      <3> SUFFICES ASSUME NEW u \in Tiers, Exists(u)
                   PROVE  /\ \A m \in NewTierTemplates(u) \ todo'[u] :
                                templates'[m] = NewTierTemplate(m)
                          /\ u \notin tiersLeft => nsTiers[u] = NewNSTemplateTier(u)
        <4>1. \A u \in Tiers : NewTierTemplates(u) \subseteq Names
          BY NameOf DEF TInv
        <4> QED BY <1>1, <1>4, <2>3, <4>1 DEF Ensured
      <3>1. u \notin tiersLeft => nsTiers[u] = NewNSTemplateTier(u)
        BY <1>1 DEF TInv, Ensured
      <3>2. ASSUME NEW m \in NewTierTemplates(u) \ todo'[u]
            PROVE  templates'[m] = NewTierTemplate(m)
        <4>1. m \in Names /\ m.tier = u
          BY NameOf DEF TInv
        <4>2. CASE m = n
          BY <2>1, <4>2
        <4>3. CASE m # n
          <5>1. m \notin todo[u]
            BY <2>1, <2>4, <2>5, <4>3
          <5>2. templates[m] = NewTierTemplate(m)
            BY <1>1, <5>1 DEF TInv, Ensured
          <5>3. templates'[m] = templates[m]
            BY <1>4, <4>1, <4>3 DEF TInv, TypeOK
          <5> QED BY <5>2, <5>3
        <4> QED BY <4>2, <4>3
      <3> QED BY <3>1, <3>2
    <2> QED BY <2>1, <2>2, <2>7, <2>8 DEF TInv
  <1> QED BY <1>2, <1>3, <1>4 DEF EnsureTierTemplate

LEMMA EnsureNSTemplateTierPreserves ==
    ASSUME TInv, NEW t \in Tiers, EnsureNSTemplateTier(t)
    PROVE  TInv'
  <1>1. /\ pc = "tiers" /\ t \in tiersLeft
        /\ UNCHANGED <<tree, revision, released, templates, edits>>
    BY DEF EnsureNSTemplateTier
  <1>2. Exists(t) /\ ~LoadFails /\ released = revision /\ \A u \in Tiers : todo[u] = {}
    BY <1>1 DEF TInv, Loaded
  <1>3. TreeOK' /\ Stored'
    BY <1>1 DEF TInv, TreeOK, Stored, StoredOK
  <1>4. \A n \in NewTierTemplates(t) : templates[n] # None
    <2> SUFFICES ASSUME NEW n \in NewTierTemplates(t) PROVE templates[n] # None
      OBVIOUS
    <2>1. templates[n] = NewTierTemplate(n)
      BY <1>1, <1>2 DEF TInv, Ensured
    <2>2. NewTierTemplate(n) \in Contents
      BY NameOf DEF TInv
    <2> QED BY <2>1, <2>2, NoneAssumption
  <1>5. ASSUME nsTiers' = [nsTiers EXCEPT ![t] = NewNSTemplateTier(t)]
        PROVE  /\ nsTiers' \in [Tiers -> NSTemplateTiers \cup {None}]
               /\ nsTiers'[t] = NewNSTemplateTier(t)
               /\ \A u \in Tiers \ {t} : nsTiers'[u] = nsTiers[u]
               /\ RefsResolve'
    <2>1. NewNSTemplateTier(t) \in NSTemplateTiers
      BY <1>2, NSTemplateTierType DEF TInv
    <2>2. /\ nsTiers' \in [Tiers -> NSTemplateTiers \cup {None}]
          /\ nsTiers'[t] = NewNSTemplateTier(t)
          /\ \A u \in Tiers \ {t} : nsTiers'[u] = nsTiers[u]
      BY <1>5, <2>1 DEF TInv, TypeOK
    <2>3. NewNSTemplateTier(t).refs = NewTierTemplates(t)
      BY DEF NewNSTemplateTier
    <2>4. RefsResolve'
      BY <1>1, <1>4, <2>2, <2>3 DEF TInv, RefsResolve
    <2> QED BY <2>2, <2>4
  <1>6. ASSUME Stops, faults' \in Nat, nsTiers' \in [Tiers -> NSTemplateTiers \cup {None}],
               RefsResolve'
        PROVE  TInv'
    <2>1. /\ pc' \in {"idle", "templates", "tiers", "done"}
          /\ todo' \in [Tiers -> SUBSET Names] /\ tiersLeft' \subseteq Tiers
          /\ Loaded' /\ Ensured'
      BY <1>6, Idle DEF TInv
    <2>2. TypeOK'
      BY <1>1, <1>6, <2>1 DEF TInv, TypeOK
    <2> QED BY <1>3, <1>6, <2>1, <2>2 DEF TInv
  <1>7. CASE Stops /\ UNCHANGED nsTiers /\ (Fault \/ UNCHANGED faults)
    <2>1. RefsResolve'
      BY <1>1, <1>7 DEF TInv, RefsResolve
    <2>2. faults' \in Nat
      BY <1>7, FaultsTyped DEF TInv, TypeOK
    <2>3. nsTiers' \in [Tiers -> NSTemplateTiers \cup {None}]
      BY <1>7 DEF TInv, TypeOK
    <2> QED BY <1>6, <1>7, <2>1, <2>2, <2>3
  <1>8. CASE nsTiers' = [nsTiers EXCEPT ![t] = NewNSTemplateTier(t)] /\ Fault /\ Stops
    <2>1. faults' \in Nat
      BY <1>8, FaultsTyped DEF TInv
    <2> QED BY <1>5, <1>6, <1>8, <2>1
  <1>9. CASE /\ nsTiers' = [nsTiers EXCEPT ![t] = NewNSTemplateTier(t)]
             /\ tiersLeft' = tiersLeft \ {t}
             /\ pc' = IF tiersLeft = {t} THEN "done" ELSE "tiers"
             /\ UNCHANGED <<todo, faults>>
    <2>1. /\ \A u \in Tiers : Exists(u)' <=> Exists(u)
          /\ \A u \in Tiers : NewTierTemplates(u)' = NewTierTemplates(u)
          /\ \A u \in Tiers : NewNSTemplateTier(u)' = NewNSTemplateTier(u)
          /\ \A m \in Names : NewTierTemplate(m)' = NewTierTemplate(m)
          /\ LoadFails' <=> LoadFails
      BY <1>1, TreeFrame
    <2>2. TypeOK'
      BY <1>1, <1>5, <1>9 DEF TInv, TypeOK
    <2>3. Loaded'
      <3>1. tiersLeft \subseteq Tiers /\ \A u \in tiersLeft : Exists(u)
        BY <1>1 DEF TInv, TypeOK, Loaded
      <3> QED BY <1>1, <1>2, <1>9, <2>1, <3>1 DEF Loaded
    <2>4. \A u \in Tiers : NewTierTemplates(u) \subseteq Names
      BY NameOf DEF TInv
    <2>5. Ensured'
      BY <1>1, <1>5, <1>9, <2>1, <2>4 DEF TInv, Ensured
    <2> QED BY <1>3, <1>5, <1>9, <2>2, <2>3, <2>5 DEF TInv
  <1> QED BY <1>7, <1>8, <1>9 DEF EnsureNSTemplateTier

(***************************************************************************)
(* The theorems.                                                           *)
(***************************************************************************)

LEMMA StepPreserves == TInv /\ [Next]_vars => TInv'
  <1> SUFFICES ASSUME TInv, [Next]_vars PROVE TInv'
    OBVIOUS
  <1>1. CASE GenerateTiers
    BY <1>1, GeneratePreserves
  <1>2. CASE Crash
    BY <1>2, CrashPreserves
  <1>3. ASSUME NEW t \in Tiers, Edit(t) PROVE TInv'
    BY <1>3, EditPreserves
  <1>4. ASSUME NEW t \in Tiers, NEW n \in Names, EnsureTierTemplate(t, n) PROVE TInv'
    BY <1>4, EnsureTierTemplatePreserves
  <1>5. ASSUME NEW t \in Tiers, EnsureNSTemplateTier(t) PROVE TInv'
    BY <1>5, EnsureNSTemplateTierPreserves
  <1>6. CASE UNCHANGED vars
    <2>1. TypeOK' /\ TreeOK' /\ Stored' /\ RefsResolve'
      BY <1>6 DEF TInv, TypeOK, TreeOK, Stored, StoredOK, RefsResolve, vars
    <2>2. UNCHANGED <<tree, revision, released, pc, todo, tiersLeft, templates, nsTiers>>
      BY <1>6 DEF vars
    <2>3. /\ \A u \in Tiers : Exists(u)' <=> Exists(u)
          /\ \A u \in Tiers : NewTierTemplates(u)' = NewTierTemplates(u)
          /\ \A u \in Tiers : NewNSTemplateTier(u)' = NewNSTemplateTier(u)
          /\ \A m \in Names : NewTierTemplate(m)' = NewTierTemplate(m)
          /\ LoadFails' <=> LoadFails
      BY <2>2, TreeFrame
    <2>4. \A u \in Tiers : NewTierTemplates(u) \subseteq Names
      BY NameOf DEF TInv
    <2>5. Loaded'
      BY <2>2, <2>3 DEF TInv, TypeOK, Loaded
    <2>6. Ensured'
      BY <2>2, <2>3, <2>4 DEF TInv, Ensured
    <2> QED BY <2>1, <2>5, <2>6 DEF TInv
  <1> QED BY <1>1, <1>2, <1>3, <1>4, <1>5, <1>6 DEF Next

LEMMA Always == Spec => []TInv
  BY AtStart, StepPreserves, PTL DEF Spec

(* Wherever GenerateTiers is cut off, no NSTemplateTier refers to a        *)
(* TierTemplate that is not there.                                         *)
THEOREM NoDanglingRefs == Spec => []RefsResolve
  BY Always, PTL DEF TInv

(* The two revisions in the name of a TierTemplate determine its content,  *)
(* for any history of the repository and any releases made of it.          *)
THEOREM NamesDetermineContents == Spec => TemplatesImmutable
  <1> DEFINE Kept == \A n \in Names :
                n.type \in Kinds /\ templates[n] # None => templates'[n] = templates[n]
  <1>1. TInv /\ [Next]_vars => [Kept]_vars
    <2> SUFFICES ASSUME TInv, Next PROVE Kept
      OBVIOUS
    <2>1. CASE UNCHANGED templates
      BY <2>1
    <2>2. ASSUME NEW t \in Tiers, NEW n \in Names, EnsureTierTemplate(t, n),
                 templates' = [templates EXCEPT ![n] = NewTierTemplate(n)]
          PROVE  Kept
      <3>1. n.type \in Kinds /\ templates[n] # None => templates'[n] = templates[n]
        BY <2>2, TemplateWritten DEF EnsureTierTemplate
      <3>2. \A m \in Names \ {n} : templates'[m] = templates[m]
        BY <2>2 DEF TInv, TypeOK
      <3> QED BY <3>1, <3>2
    <2>3. \/ UNCHANGED templates
          \/ \E t \in Tiers, n \in Names :
                /\ EnsureTierTemplate(t, n)
                /\ templates' = [templates EXCEPT ![n] = NewTierTemplate(n)]
      BY DEF Next, GenerateTiers, Crash, Edit, EnsureTierTemplate, EnsureNSTemplateTier
    <2> HIDE DEF Kept
    <2> QED BY <2>1, <2>2, <2>3
  <1>2. Spec => [][Kept]_vars
    BY <1>1, Always, PTL DEF Spec
  <1> QED BY <1>2 DEF TemplatesImmutable

(* What a successful GenerateTiers leaves behind is what the files say,    *)
(* for any combination of tiers based on one another.                      *)
THEOREM TiersFollowFiles == Spec => []TiersAsDescribed
  <1>1. TInv => TiersAsDescribed
    <2> SUFFICES ASSUME TInv, pc = "done", NEW t \in Tiers, Exists(t)
                 PROVE  LET based == tree[t].basedOn
                            dir == IF based = None THEN tree[t] ELSE tree[based.from]
                        IN  /\ nsTiers[t] # None /\ dir.yaml # None
                            /\ nsTiers[t].rev = dir.yaml.rev
                            /\ {templates[n] : n \in nsTiers[t].refs} =
                                {[tier |-> IF based = None THEN t ELSE based.from,
                                  type |-> k, rev |-> dir.files[k],
                                  param |-> IF based = None THEN None ELSE based.param] :
                                    k \in {j \in Types : dir.files[j] # None}}
      BY DEF TiersAsDescribed
    <2> DEFINE Described(k) == [tier |-> From(t), type |-> k, rev |-> tree[From(t)].files[k],
                                param |-> Parameters(t)]
               Present == {j \in Types : tree[From(t)].files[j] # None}
    <2>1. /\ ~LoadFails /\ todo[t] = {} /\ t \notin tiersLeft
      BY DEF TInv, Loaded
    <2>2. nsTiers[t] = NewNSTemplateTier(t)
      BY <2>1 DEF TInv, Ensured
    <2>3. nsTiers[t] # None /\ tree[From(t)].yaml # None
      BY <2>1, <2>2, NSTemplateTierType, NoneAssumption DEF TInv, LoadFails
    <2>4. nsTiers[t].rev = tree[From(t)].yaml.rev /\ nsTiers[t].refs = NewTierTemplates(t)
      BY <2>2 DEF NewNSTemplateTier
    <2>5. \A n \in NewTierTemplates(t) : templates[n] = NewTierTemplate(n)
      BY <2>1 DEF TInv, Ensured
    <2>6. \A k \in Present : templates[NewTierTemplateName(t, k)] = Described(k)
      BY <2>5 DEF NewTierTemplates, NewTierTemplate, NewTierTemplateName
    <2>7. NewTierTemplates(t) = {NewTierTemplateName(t, k) : k \in Present}
      BY DEF NewTierTemplates
    <2>8. {templates[n] : n \in nsTiers[t].refs} = {Described(k) : k \in Present}
      <3> HIDE DEF Described, Present
      <3> QED BY <2>4, <2>6, <2>7
    <2>9. CASE tree[t].basedOn = None
      <3>1. From(t) = t /\ Parameters(t) = None
        BY <2>9 DEF From, Parameters
      <3> QED BY <2>3, <2>4, <2>8, <2>9, <3>1
    <2>10. CASE tree[t].basedOn # None
      <3>1. From(t) = tree[t].basedOn.from /\ Parameters(t) = tree[t].basedOn.param
        BY <2>10 DEF From, Parameters
      <3> QED BY <2>3, <2>4, <2>8, <2>10, <3>1
    <2> QED BY <2>9, <2>10
  <1> QED BY <1>1, Always, PTL
=============================================================================
