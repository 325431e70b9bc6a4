--------------------------- MODULE TierGenerator ---------------------------
(***************************************************************************)
(* pkg/template/nstemplatetiers: GenerateTiers turns the files of a release*)
(* into TierTemplates and NSTemplateTiers and ensures them in the cluster, *)
(* in two passes that may fail or be cut off anywhere and are repeated by  *)
(* the next start of the operator, of the same release or of a later one.  *)
(*                                                                         *)
(* A file is the revision (commit) that changed it last, which stands for  *)
(* its content.  The files of a tier are tier.yaml, cluster.yaml and ns_*  *)
(* (Kinds), spacerole_* (Roles) and based_on_tier.yaml.  A tier.yaml names *)
(* its object after its tier and refers to all templates there are.        *)
(***************************************************************************)
EXTENDS Naturals

CONSTANTS
    Tiers,
    Kinds,        \* types of TierTemplates: namespaces and clusterresources
    Roles,        \* types of TierTemplates: space roles
    Params,       \* parameters in based_on_tier.yaml
    None,
    MaxRevision,  \* bound on the commits
    MaxEdits,     \* bound on the changes of files
    MaxFaults     \* bound on the calls that fail

Types == Kinds \cup Roles
Revisions == 1 .. MaxRevision
Yamls == [rev : Revisions, objects : {1, 2}]
BasedOns == [rev : Revisions, from : Tiers, param : Params]
Dirs == [yaml : Yamls \cup {None}, files : [Types -> Revisions \cup {None}],
         basedOn : BasedOns \cup {None}]

(* A TierTemplate: its name has tier, type and both revisions, its content *)
(* is a file with the parameter that replaces the default.                 *)
Names == [tier : Tiers, type : Types, based : Revisions, rev : Revisions]
Contents == [tier : Tiers, type : Types, rev : Revisions, param : Params \cup {None}]
NSTemplateTiers == [refs : SUBSET Names, rev : Revisions, param : Params \cup {None}]

ASSUME TypesAssumption == Kinds \cap Roles = {}
ASSUME BoundsAssumption == MaxRevision \in Nat \ {0} /\ MaxEdits \in Nat /\ MaxFaults \in Nat
ASSUME NoneAssumption ==
    None \notin Params \cup Revisions \cup Yamls \cup BasedOns \cup Contents \cup NSTemplateTiers

VARIABLES
    tree,      \* the files: of the release, or in preparation of the next
    revision,  \* the latest commit
    released,  \* the commit of which an operator was started last
    pc,        \* idle, templates (first pass), tiers (second pass), done
    todo,      \* TierTemplates of each tier that the first pass has still to ensure
    tiersLeft, \* tiers that the second pass has still to ensure
    templates, \* the TierTemplates in the cluster, by name
    nsTiers,   \* the NSTemplateTiers in the cluster
    edits, faults

vars == <<tree, revision, released, pc, todo, tiersLeft, templates, nsTiers, edits, faults>>

TypeOK ==
    /\ tree \in [Tiers -> Dirs]
    /\ revision \in Revisions
    /\ released \in Nat /\ released <= revision
    /\ pc \in {"idle", "templates", "tiers", "done"}
    /\ todo \in [Tiers -> SUBSET Names]
    /\ tiersLeft \subseteq Tiers
    /\ templates \in [Names -> Contents \cup {None}]
    /\ nsTiers \in [Tiers -> NSTemplateTiers \cup {None}]
    /\ edits \in Nat /\ faults \in Nat

Running == pc \in {"templates", "tiers"}
Fault == faults < MaxFaults /\ faults' = faults + 1

(* The repository starts with any files.                                   *)
Init ==
    /\ tree \in [Tiers -> [yaml : [rev : {1}, objects : {1, 2}] \cup {None},
                           files : [Types -> {1, None}],
                           basedOn : [rev : {1}, from : Tiers, param : Params] \cup {None}]]
    /\ revision = 1
    /\ released = 0
    /\ pc = "idle"
    /\ todo = [t \in Tiers |-> {}]
    /\ tiersLeft = {}
    /\ templates = [n \in Names |-> None]
    /\ nsTiers = [t \in Tiers |-> None]
    /\ edits = 0
    /\ faults = 0

(* A file is changed, added or removed, in a commit that is not released.  *)
Edit(t) ==
    /\ ~Running /\ edits < MaxEdits
    /\ revision' = IF released = revision THEN revision + 1 ELSE revision
    /\ revision' \in Revisions
    /\ \/ \E y \in [rev : {revision'}, objects : {1, 2}] \cup {None} :
            tree' = [tree EXCEPT ![t].yaml = y]
       \/ \E k \in Types, r \in {revision', None} :
            tree' = [tree EXCEPT ![t].files[k] = r]
       \/ \E b \in [rev : {revision'}, from : Tiers, param : Params] \cup {None} :
            tree' = [tree EXCEPT ![t].basedOn = b]
    /\ edits' = edits + 1
    /\ pc' = "idle"
    /\ UNCHANGED <<released, todo, tiersLeft, templates, nsTiers, faults>>

(***************************************************************************)
(* newNSTemplateTierGenerator.                                             *)
(***************************************************************************)

(* results[tier] exists if a file of the tier does.                        *)
Exists(t) ==
    tree[t].yaml # None \/ tree[t].basedOn # None \/ \E k \in Types : tree[t].files[k] # None

(* A based_on_tier.yaml beside other files; spacerole files do not count.  *)
Mixed(t) ==
    /\ tree[t].basedOn # None
    /\ tree[t].yaml # None \/ \E k \in Kinds : tree[t].files[k] # None

(* The tier whose files are used, and the parameter that is set.           *)
From(t) == IF tree[t].basedOn = None THEN t ELSE tree[t].basedOn.from
ParametersNeverSet(t) == None
Parameters(t) == IF tree[t].basedOn = None THEN None ELSE tree[t].basedOn.param

(* The first part of the revision of a TierTemplate.                       *)
BasedOnTierFileRevisionUnused(t, k) == tree[From(t)].files[k]
BasedOnTierFileRevision(t, k) ==
    IF tree[t].basedOn = None THEN tree[t].files[k] ELSE tree[t].basedOn.rev

(* The code joins the four parts, in small letters, with hyphens.  They    *)
(* are kept apart here: names of tiers and types are taken to be such that *)
(* no two of these names are joined to the same string.                    *)
NewTierTemplateName(t, k) ==
    [tier |-> t, type |-> k, based |-> BasedOnTierFileRevision(t, k),
     rev |-> tree[From(t)].files[k]]

NewTierTemplate(n) ==
    [tier |-> From(n.tier), type |-> n.type, rev |-> n.rev, param |-> Parameters(n.tier)]

NewTierTemplates(t) ==
    {NewTierTemplateName(t, k) : k \in {j \in Types : tree[From(t)].files[j] # None}}

(* The NSTemplateTier refers to the TierTemplates of the tier by name.     *)
NewNSTemplateTier(t) ==
    [refs |-> NewTierTemplates(t), rev |-> tree[From(t)].yaml.rev, param |-> Parameters(t)]

(* What makes loading fail, apart from malformed files and names: mixed    *)
(* files; a tier based on one that does not exist (a nil dereference); one *)
(* without a tier.yaml, its own or that of the tier it is based on.        *)
LoadFails ==
    \E t \in Tiers :
        /\ Exists(t)
        /\ Mixed(t) \/ ~Exists(From(t)) \/ tree[From(t)].yaml = None

(***************************************************************************)
(* GenerateTiers: called at the start of an operator of the latest commit. *)
(***************************************************************************)

(* It returns an error, or the operator is stopped in the middle.          *)
Stops ==
    /\ pc' = "idle"
    /\ todo' = [t \in Tiers |-> {}]
    /\ tiersLeft' = {}

(* The second pass begins when the first is through with all tiers.        *)
NextPassEarly(left) == IF \E t \in Tiers : left[t] = {} THEN "tiers" ELSE "templates"
NextPass(left) == IF \A t \in Tiers : left[t] = {} THEN "tiers" ELSE "templates"

GenerateTiers ==
    /\ ~Running
    /\ released' = revision
    /\ \/ Stops
       \/ /\ ~LoadFails
          /\ todo' = [t \in Tiers |-> IF Exists(t) THEN NewTierTemplates(t) ELSE {}]
          /\ tiersLeft' = {t \in Tiers : Exists(t)}
          /\ pc' = IF tiersLeft' = {} THEN "done" ELSE NextPass(todo')
    /\ UNCHANGED <<tree, revision, templates, nsTiers, edits, faults>>

(* createTierTemplates: tier by tier, in any order.  ensureObject fails    *)
(* with or without an effect.                                              *)
EnsureTierTemplate(t, n) ==
    /\ pc = "templates" /\ n \in todo[t]
    /\ \A u \in Tiers \ {t} : todo[u] \in {{}, NewTierTemplates(u)}
    /\ \/ /\ templates' = [templates EXCEPT ![n] = NewTierTemplate(n)]
          /\ \/ /\ todo' = [todo EXCEPT ![t] = @ \ {n}]
                /\ pc' = NextPass(todo')
                /\ UNCHANGED <<tiersLeft, faults>>
             \/ Fault /\ Stops
       \/ Fault /\ Stops /\ UNCHANGED templates
    /\ UNCHANGED <<tree, revision, released, nsTiers, edits>>

(* createNSTemplateTiers: in any order, until a tier.yaml turns out to     *)
(* hold another number of objects than one.                                *)
EnsureNSTemplateTier(t) ==
    /\ pc = "tiers" /\ t \in tiersLeft
    /\ \/ /\ tree[From(t)].yaml.objects # 1
          /\ Stops /\ UNCHANGED <<nsTiers, faults>>
       \/ /\ tree[From(t)].yaml.objects = 1
          /\ nsTiers' = [nsTiers EXCEPT ![t] = NewNSTemplateTier(t)]
          /\ \/ /\ tiersLeft' = tiersLeft \ {t}
                /\ pc' = IF tiersLeft = {t} THEN "done" ELSE "tiers"
                /\ UNCHANGED <<todo, faults>>
             \/ Fault /\ Stops
       \/ /\ tree[From(t)].yaml.objects = 1
          /\ Fault /\ Stops /\ UNCHANGED nsTiers
    /\ UNCHANGED <<tree, revision, released, templates, edits>>

Crash ==
    /\ Running
    /\ Stops
    /\ UNCHANGED <<tree, revision, released, templates, nsTiers, edits, faults>>

Next ==
    \/ GenerateTiers
    \/ Crash
    \/ \E t \in Tiers :
        \/ Edit(t)
        \/ \E n \in Names : EnsureTierTemplate(t, n)
        \/ EnsureNSTemplateTier(t)

Spec == Init /\ [][Next]_vars

(***************************************************************************)
(* Properties.                                                             *)
(***************************************************************************)

(* Wherever GenerateTiers is cut off, every NSTemplateTier in the cluster  *)
(* refers to TierTemplates that are there.                                 *)
RefsResolve ==
    \A t \in Tiers : nsTiers[t] # None => \A n \in nsTiers[t].refs : templates[n] # None

(* After a GenerateTiers that succeeded, what a tier refers to is, by      *)
(* content, the latest revision of the files it is made of, its own ones   *)
(* or those of the tier it is based on, with the parameter its             *)
(* based_on_tier.yaml sets, and that parameter only.                       *)
TiersAsDescribed ==
    pc = "done" =>
        \A t \in Tiers : Exists(t) =>
            LET based == tree[t].basedOn
                dir == IF based = None THEN tree[t] ELSE tree[based.from]
            IN  /\ nsTiers[t] # None /\ dir.yaml # None
                /\ nsTiers[t].rev = dir.yaml.rev
                /\ {templates[n] : n \in nsTiers[t].refs} =
                    {[tier |-> IF based = None THEN t ELSE based.from, type |-> k,
                      rev |-> dir.files[k],
                      param |-> IF based = None THEN None ELSE based.param] :
                        k \in {j \in Types : dir.files[j] # None}}

(* The content of a TierTemplate never changes under its name, which is    *)
(* how NSTemplateTiers, and the NSTemplateSets made of them, tell that     *)
(* there is something new: whatever a commit changes that matters to the   *)
(* template, its file or the based_on_tier.yaml, shows in the name.        *)
(* (Not so for space roles: see README.)                                   *)
TemplatesImmutable ==
    [][\A n \in Names :
        n.type \in Kinds /\ templates[n] # None => templates'[n] = templates[n]]_vars
=============================================================================
