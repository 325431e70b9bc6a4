---------------------------- MODULE LookupProofs ----------------------------
(***************************************************************************)
(* Proofs about the parts that ask a server step by step: VersionCheck for *)
(* any components and repositories, SpaceBindings for any hierarchy of     *)
(* Spaces, users and roles, and OwnerFetcher for any goroutines, objects   *)
(* and kinds.                                                              *)
(***************************************************************************)
EXTENDS VersionCheck, SpaceBindings, OwnerFetcher, SliceProofs

(***************************************************************************)
(* VersionCheck: what LastGHCallsPerRepo notes is the last request.        *)
(***************************************************************************)

Age == 0 .. Limit \cup {NoAge}

VersionInv ==
    /\ lastGHCall \in [Repos -> Age]
    /\ lastRequest = lastGHCall
    /\ asking \in Deployments \cup {Nobody}

LEMMA AgeFacts ==
    /\ Limit \in Nat /\ Delay + 1 <= Limit
    /\ 0 \in Age /\ NoAge \in Age
    /\ \A age \in Age : Later(age) \in Age
BY VersionAssumption DEF Limit, Age, Later

LEMMA VersionInvStart == VersionInit => VersionInv
BY AgeFacts DEF VersionInit, VersionInv

LEMMA VersionInvStep ==
    ASSUME VersionInv, [VersionNext]_versionVars
    PROVE  VersionInv'
<1>. USE DEF VersionInv
<1>. HIDE DEF Age
<1>1. CASE Tick
  BY <1>1, AgeFacts DEF Tick
<1>2. ASSUME NEW r \in Repos, NEW c \in Commits, NEW age \in 0 .. Limit, CommitTo(r, c, age)
      PROVE  VersionInv'
  BY <1>2 DEF CommitTo
<1>3. ASSUME NEW d \in Deployments, Deploy(d)
      PROVE  VersionInv'
  BY <1>3 DEF Deploy
<1>4. ASSUME NEW d \in Deployments, Disabled(d)
      PROVE  VersionInv'
  BY <1>4 DEF Disabled
<1>5. ASSUME NEW d \in Deployments, Throttled(d)
      PROVE  VersionInv'
  BY <1>5 DEF Throttled
<1>6. ASSUME NEW d \in Deployments, Request(d)
      PROVE  VersionInv'
  BY <1>6, AgeFacts DEF Request, Key, Repos
<1>7. ASSUME NEW d \in Deployments, Answer(d)
      PROVE  VersionInv'
  BY <1>7 DEF Answer
<1>8. CASE Restart
  BY <1>8, AgeFacts DEF Restart
<1>9. CASE UNCHANGED versionVars
  BY <1>9 DEF versionVars
<1>. QED BY <1>1, <1>2, <1>3, <1>4, <1>5, <1>6, <1>7, <1>8, <1>9 DEF VersionNext, Checks

(* A component starts to ask only in Request, and Request only lets        *)
(* through what CanIssueGitHubRequest lets through.                        *)
LEMMA RequestIsSpaced ==
    ASSUME VersionInv, [VersionNext]_versionVars, NEW d \in Deployments, asking' = d, asking # d
    PROVE  lastRequest[RepoOf[d]] \in {NoAge} \cup (Delay + 1 .. Limit)
<1>1. CASE \E e \in Deployments : Request(e)
  <2>1. PICK e \in Deployments : Request(e)
    BY <1>1
  <2>2. e = d
    BY <2>1 DEF Request
  <2>3. CanIssueGitHubRequest(lastGHCall[RepoOf[d]])
    BY <2>1, <2>2 DEF Request, Key
  <2>4. lastRequest[RepoOf[d]] = lastGHCall[RepoOf[d]] /\ lastGHCall[RepoOf[d]] \in Age
    BY DEF VersionInv, Repos
  <2>. QED BY <2>3, <2>4, AgeFacts, VersionAssumption DEF CanIssueGitHubRequest, Age
<1>2. CASE asking' = asking \/ asking' = Nobody
  BY <1>2, VersionAssumption
<1>3. \/ \E e \in Deployments : Request(e)
      \/ asking' = asking \/ asking' = Nobody
  BY DEF VersionNext, versionVars, Tick, CommitTo, Deploy, Restart, Checks, Disabled, Throttled, Answer
<1>. QED BY <1>1, <1>2, <1>3

(* The requests of a process for one repository are more than              *)
(* GitHubAPICallDelay apart, for any repositories, restarts and failures.  *)
THEOREM RequestsAreSpaced == VersionSpec => RequestsSpaced
<1>1. VersionInv /\ [VersionNext]_versionVars =>
        [\A d \in Deployments :
            asking' = d /\ asking # d =>
                lastRequest[RepoOf[d]] \in {NoAge} \cup (Delay + 1 .. Limit)]_versionVars
  BY RequestIsSpaced
<1>. QED BY <1>1, VersionInvStart, VersionInvStep, PTL DEF VersionSpec, RequestsSpaced

(***************************************************************************)
(* SpaceBindings: the hierarchy.                                           *)
(***************************************************************************)

(* A Space is passed on to itself, and what its parent inherits too.       *)
LEMMA InheritedSelf == ASSUME NEW s \in Spaces PROVE s \in Inherited(s)
BY DEF Inherited

LEMMA InheritedTransitive ==
    ASSUME NEW s \in Spaces, NEW t \in Inherited(s)
    PROVE  Inherited(t) \subseteq Inherited(s)
BY DEF Inherited

(* The parent of a Space that inherits.                                    *)
LEMMA InheritedParent ==
    ASSUME NEW s \in Spaces, s \notin disabled, parent[s] \in Spaces
    PROVE  parent[s] \in Inherited(s)
<1>1. ASSUME NEW set \in SUBSET Spaces, s \in set, Closed(set)
      PROVE  parent[s] \in set
  <2>1. InheritsFrom(s) \subseteq set
    BY <1>1 DEF Closed
  <2>. QED BY <2>1 DEF InheritsFrom
<1>. QED BY <1>1 DEF Inherited

(* Whatever is inherited comes from the Space itself or from its parent.   *)
LEMMA InheritedFromParent ==
    ASSUME NEW s \in Spaces, NEW t \in Inherited(s), t # s
    PROVE  s \notin disabled /\ parent[s] \in Spaces /\ t \in Inherited(parent[s])
<1>1. ASSUME InheritsFrom(s) = {}
      PROVE  FALSE
  <2>1. Closed({s})
    BY <1>1 DEF Closed
  <2>. QED BY <2>1 DEF Inherited
<1>2. s \notin disabled /\ parent[s] \in Spaces
  BY <1>1 DEF InheritsFrom
<1>3. ASSUME NEW set \in SUBSET Spaces, parent[s] \in set, Closed(set)
      PROVE  t \in set
  <2>1. Closed(set \cup {s})
    BY <1>3 DEF Closed, InheritsFrom
  <2>2. t \in set \cup {s}
    BY <2>1 DEF Inherited
  <2>. QED BY <2>2
<1>4. t \in Spaces
  BY DEF Inherited
<1>. QED BY <1>2, <1>3, <1>4 DEF Inherited

(* Without cycles no two Spaces inherit from each other.                   *)
LEMMA InheritedAntisymmetric ==
    ASSUME Acyclic(parent), NEW s \in Spaces, NEW t \in Inherited(s), s \in Inherited(t)
    PROVE  s = t
<1>. SUFFICES ASSUME s # t PROVE FALSE
  OBVIOUS
<1>. DEFINE round == {v \in Inherited(s) : s \in Inherited(v)}
<1>1. round \in (SUBSET Spaces) \ {{}}
  <2>1. s \in round
    BY InheritedSelf
  <2>2. Inherited(s) \subseteq Spaces
    BY DEF Inherited
  <2>. QED BY <2>1, <2>2
<1>2. PICK v \in round : parent[v] \notin round
  BY <1>1 DEF Acyclic
<1>3. v \in Spaces /\ t \in Spaces /\ v \in Inherited(s) /\ s \in Inherited(v)
  BY <1>1, <1>2 DEF Inherited
<1>4. /\ v \notin disabled /\ parent[v] \in Spaces
      /\ s \in Inherited(parent[v])
  <2>1. CASE v # s
    BY <1>3, <2>1, InheritedFromParent
  <2>2. CASE v = s
    <3>1. s \notin disabled /\ parent[s] \in Spaces /\ t \in Inherited(parent[s])
      BY InheritedFromParent
    <3>2. s \in Inherited(parent[s])
      BY <3>1, InheritedTransitive
    <3>. QED BY <2>2, <3>1, <3>2
  <2>. QED BY <2>1, <2>2
<1>5. parent[v] \in Inherited(s)
  BY <1>3, <1>4, InheritedParent, InheritedTransitive
<1>. QED BY <1>2, <1>4, <1>5

(***************************************************************************)
(* Where the walk is: at the Space s it has come to, below which nothing   *)
(* binds the user.                                                         *)
(***************************************************************************)

OnTheWay(u, s) ==
    /\ s \in Inherited(asked)
    /\ \E below \in SUBSET Spaces :
        /\ asked \in below \cup {s}
        /\ \A v \in below : /\ u \notin Bound(v)
                            /\ v \notin disabled
                            /\ parent[v] \in below \cup {s}

LEMMA OnTheWayStart ==
    ASSUME asked \in Spaces, NEW u
    PROVE  OnTheWay(u, asked)
<1>1. asked \in {} \cup {asked} /\ {} \in SUBSET Spaces
  OBVIOUS
<1>. QED BY <1>1, InheritedSelf DEF OnTheWay

LEMMA OnTheWayUp ==
    ASSUME asked \in Spaces, NEW u, NEW s \in Spaces, OnTheWay(u, s),
           u \notin Bound(s), s \notin disabled, parent[s] \in Spaces
    PROVE  OnTheWay(u, parent[s])
<1>1. PICK below \in SUBSET Spaces :
        /\ asked \in below \cup {s}
        /\ \A v \in below : u \notin Bound(v) /\ v \notin disabled /\ parent[v] \in below \cup {s}
  BY DEF OnTheWay
<1>. DEFINE more == below \cup {s}
<1>2. /\ more \in SUBSET Spaces
      /\ asked \in more \cup {parent[s]}
      /\ \A v \in more : u \notin Bound(v) /\ v \notin disabled /\ parent[v] \in more \cup {parent[s]}
  BY <1>1
<1>3. parent[s] \in Inherited(asked)
  BY InheritedParent, InheritedTransitive DEF OnTheWay
<1>. HIDE DEF more
<1>. QED BY <1>2, <1>3 DEF OnTheWay

(* Any Space that passes a binding on to the asked one is above s.         *)
LEMMA BoundAreAbove ==
    ASSUME asked \in Spaces, NEW u, NEW s \in Spaces, OnTheWay(u, s),
           NEW t \in Inherited(asked), u \in Bound(t)
    PROVE  t \in Inherited(s)
<1>1. PICK below \in SUBSET Spaces :
        /\ asked \in below \cup {s}
        /\ \A v \in below : u \notin Bound(v) /\ v \notin disabled /\ parent[v] \in below \cup {s}
  BY DEF OnTheWay
<1>2. ASSUME NEW set \in SUBSET Spaces, s \in set, Closed(set)
      PROVE  t \in set
  <2>1. Closed(set \cup below)
    BY <1>1, <1>2 DEF Closed, InheritsFrom
  <2>2. asked \in set \cup below /\ set \cup below \in SUBSET Spaces
    BY <1>1, <1>2
  <2>3. t \in set \cup below
    BY <2>1, <2>2 DEF Inherited
  <2>. QED BY <1>1, <2>3
<1>3. t \in Spaces
  BY DEF Inherited
<1>. QED BY <1>2, <1>3 DEF Inherited

(* So the first Space on the way that binds the user is the nearest one.   *)
LEMMA FirstIsNearest ==
    ASSUME asked \in Spaces, Acyclic(parent), NEW u, NEW s \in Spaces, OnTheWay(u, s), u \in Bound(s)
    PROVE  Nearest(asked, u) = {s}
<1>1. s \in Inherited(asked)
  BY DEF OnTheWay
<1>2. \A t \in Inherited(asked) : u \in Bound(t) => t \in Inherited(s)
  BY BoundAreAbove
<1>3. s \in Nearest(asked, u)
  BY <1>1, <1>2 DEF Nearest
<1>4. ASSUME NEW t \in Nearest(asked, u)
      PROVE  t = s
  <2>1. t \in Inherited(asked) /\ u \in Bound(t) /\ s \in Inherited(t)
    BY <1>1 DEF Nearest
  <2>2. t \in Inherited(s)
    BY <1>2, <2>1
  <2>. QED BY <2>1, <2>2, InheritedAntisymmetric
<1>. QED BY <1>3, <1>4

(* Where the walk stops without having met the user, nothing binds them.   *)
LEMMA NothingNearest ==
    ASSUME asked \in Spaces, NEW u, NEW s \in Spaces, OnTheWay(u, s), u \notin Bound(s),
           s \in disabled \/ parent[s] \notin Spaces
    PROVE  Nearest(asked, u) = {}
<1>. SUFFICES ASSUME NEW t \in Nearest(asked, u) PROVE FALSE
  OBVIOUS
<1>1. t \in Inherited(asked) /\ u \in Bound(t)
  BY DEF Nearest
<1>2. t \in Inherited(s)
  BY <1>1, BoundAreAbove
<1>3. t # s
  BY <1>1
<1>. QED BY <1>2, <1>3, InheritedFromParent

(***************************************************************************)
(* The walk.                                                               *)
(***************************************************************************)

SpaceCopy == [name : Spaces, parent : Spaces \cup {NoSpace}, disabled : BOOLEAN]
Binding == [space : Spaces, role : Roles]
Found == [MasterUserRecords -> Seq(Binding)]

ListerTypes ==
    /\ live \subseteq Spaces
    /\ parent \in [Spaces -> Spaces \cup {NoSpace}] /\ Acyclic(parent)
    /\ role \in [Spaces -> [MasterUserRecords -> Roles \cup {NoRole}]]
    /\ asked \in Spaces
    /\ walk \in [at : {"list", "get", "returned", "failed"}, space : SpaceCopy, found : Found]

(* What is found of a user is what the first Space on the way gives them.  *)
FoundFirst(u) ==
    \E t \in Spaces : /\ walk.found[u] = <<[space |-> t, role |-> role[t][u]]>>
                      /\ OnTheWay(u, t) /\ u \in Bound(t)

(* Of a user who was not found yet, nothing below is bound.                *)
NotFoundYet(u) ==
    /\ walk.at # "failed" => OnTheWay(u, walk.space.name)
    /\ walk.at \in {"get", "returned"} => u \notin Bound(walk.space.name)

WalkUndisturbed ==
    /\ walk.space = Copy(walk.space.name)
    /\ walk.at = "get" => ~StopsAt(walk.space)
    /\ walk.at = "returned" => StopsAt(walk.space)
    /\ \A u \in MasterUserRecords :
        /\ walk.found[u] = <<>> => NotFoundYet(u)
        /\ walk.found[u] # <<>> => FoundFirst(u)

ListerInv == ListerTypes /\ OneRolePerUser /\ (touched \/ WalkUndisturbed)

LEMMA CopyType ==
    ASSUME ListerTypes, NEW s \in Spaces
    PROVE  Copy(s) \in SpaceCopy /\ Copy(s).name = s
BY DEF ListerTypes, Copy, SpaceCopy

LEMMA CopyDisabled ==
    ASSUME NEW s
    PROVE  Copy(s).parent = parent[s] /\ (Copy(s).disabled <=> s \in disabled)
<1>1. Copy(s).parent = parent[s]
  BY DEF Copy
<1>2. Copy(s).disabled = (s \in disabled)
  BY Zenon DEF Copy
<1>. QED BY <1>1, <1>2, Zenon

(* mergeSpaceBindings keeps what was found, and adds the binding of a user *)
(* of whom nothing was.                                                    *)
LEMMA MergeAdds ==
    ASSUME ListerTypes, NEW found \in Found, \A u \in MasterUserRecords : Len(found[u]) <= 1,
           NEW s \in Spaces
    PROVE  LET merged == mergeSpaceBindings(found, ListSpaceBindings(s)) IN
           /\ merged \in Found
           /\ \A u \in MasterUserRecords :
                /\ found[u] # <<>> => merged[u] = found[u]
                /\ found[u] = <<>> => merged[u] = ListSpaceBindings(s)[u]
<1>. DEFINE listed == ListSpaceBindings(s)
<1>1. ASSUME NEW u \in MasterUserRecords
      PROVE  /\ listed[u] \in Seq(Binding) /\ Len(listed[u]) <= 1
             /\ found[u] \in Seq(Binding)
  <2>1. u \in Bound(s) => role[s][u] \in Roles
    BY DEF Bound, ListerTypes
  <2>2. CASE u \in Bound(s)
    <3>1. listed[u] = <<[space |-> s, role |-> role[s][u]]>>
      BY <2>2 DEF ListSpaceBindings
    <3>2. [space |-> s, role |-> role[s][u]] \in Binding
      BY <2>1, <2>2 DEF Binding
    <3>. HIDE DEF Binding
    <3>. QED BY <3>1, <3>2 DEF Found
  <2>3. CASE u \notin Bound(s)
    BY <2>3 DEF ListSpaceBindings, Found
  <2>. QED BY <2>2, <2>3
<1>. HIDE DEF listed
<1>2. ASSUME NEW u \in MasterUserRecords
      PROVE  LET with == found[u] \o WithoutLast(listed[u], Len(found[u])) IN
             /\ with \in Seq(Binding)
             /\ found[u] # <<>> => with = found[u]
             /\ found[u] = <<>> => with = listed[u]
  <2>1. CASE found[u] = <<>>
    <3>1. WithoutLast(listed[u], Len(found[u])) = SubSeq(listed[u], 1, Len(listed[u]))
      BY <1>1, <2>1 DEF WithoutLast
    <3>2. WithoutLast(listed[u], Len(found[u])) = listed[u]
      BY <1>1, <3>1, SubSeqFull
    <3>3. <<>> \o listed[u] = listed[u]
      BY <1>1, ConcatEmptySeq
    <3>. QED BY <1>1, <2>1, <3>2, <3>3
  <2>2. CASE found[u] # <<>>
    <3>0. found[u] \in Seq(Binding) /\ Len(found[u]) <= 1
      BY <1>1
    <3>1. Len(found[u]) = 1
      <4>. HIDE DEF Binding
      <4>1. Len(found[u]) \in Nat \ {0}
        BY <3>0, <2>2, EmptySeq
      <4>2. \A n \in Nat \ {0} : n <= 1 => n = 1
        OBVIOUS
      <4>. QED BY <3>0, <4>1, <4>2, Zenon
    <3>2. Len(listed[u]) \in Nat /\ Len(listed[u]) - 1 < 1
      BY <1>1
    <3>3. SubSeq(listed[u], 1, Len(listed[u]) - 1) = <<>>
      BY <3>2, SubSeqEmpty
    <3>4. found[u] \o <<>> = found[u]
      BY <1>1, ConcatEmptySeq
    <3>. QED BY <1>1, <2>2, <3>1, <3>3, <3>4 DEF WithoutLast
  <2>. QED BY <2>1, <2>2
<1>3. mergeSpaceBindings(found, listed) =
        [u \in MasterUserRecords |-> found[u] \o WithoutLast(listed[u], Len(found[u]))]
  BY DEF mergeSpaceBindings
<1>. QED BY <1>2, <1>3 DEF Found, listed

LEMMA ListerInvStart == ListerInit => ListerInv
<1>. SUFFICES ASSUME ListerInit PROVE ListerInv
  OBVIOUS
<1>1. /\ live \subseteq Spaces
      /\ parent \in [Spaces -> Spaces \cup {NoSpace}] /\ Acyclic(parent) /\ asked \in Spaces
      /\ role \in [Spaces -> [MasterUserRecords -> Roles \cup {NoRole}]]
      /\ walk = [at |-> "list", space |-> Copy(asked), found |-> [u \in MasterUserRecords |-> <<>>]]
  BY DEF ListerInit
<1>2. Copy(asked) \in SpaceCopy /\ Copy(asked).name = asked
  BY <1>1 DEF Copy, SpaceCopy
<1>3. [u \in MasterUserRecords |-> <<>>] \in Found
  BY DEF Found
<1>. HIDE DEF SpaceCopy, Found
<1>4. ListerTypes
  BY <1>1, <1>2, <1>3 DEF ListerTypes
<1>5. OneRolePerUser
  BY <1>1 DEF OneRolePerUser
<1>6. \A u \in MasterUserRecords : NotFoundYet(u)
  BY <1>1, <1>2, OnTheWayStart DEF NotFoundYet
<1>7. WalkUndisturbed
  BY <1>1, <1>2, <1>6 DEF WalkUndisturbed
<1>. QED BY <1>4, <1>5, <1>7 DEF ListerInv

(* What others do to the cluster leaves the walk alone, and is noted.      *)
LEMMA MovedKeeps ==
    ASSUME ListerInv, Moved, live' \subseteq Spaces,
           parent' \in [Spaces -> Spaces \cup {NoSpace}], Acyclic(parent'),
           role' \in [Spaces -> [MasterUserRecords -> Roles \cup {NoRole}]]
    PROVE  ListerInv'
<1>1. touched' /\ walk' = walk /\ asked' = asked
  BY DEF Moved
<1>2. ListerTypes'
  BY <1>1 DEF ListerInv, ListerTypes, Acyclic
<1>3. OneRolePerUser'
  BY <1>1 DEF ListerInv, OneRolePerUser
<1>. QED BY <1>1, <1>2, <1>3 DEF ListerInv

(* While the cluster stays as it is, so does what is said of the way.      *)
LEMMA OnTheWayKept ==
    ASSUME UNCHANGED <<clusterVars, asked>>, NEW u, NEW s
    PROVE  /\ OnTheWay(u, s)' <=> OnTheWay(u, s)
           /\ Bound(s)' = Bound(s)
           /\ Copy(s)' = Copy(s)
<1>1. parent' = parent /\ disabled' = disabled /\ role' = role /\ asked' = asked
  BY DEF clusterVars
<1>2. Bound(s)' = Bound(s) /\ Copy(s)' = Copy(s)
  BY <1>1 DEF Bound, Copy
<1>3. OnTheWay(u, s)' <=> OnTheWay(u, s)
  BY <1>1 DEF OnTheWay, Inherited, Closed, InheritsFrom, Bound
<1>. QED BY <1>2, <1>3

(* A failed call leaves what was found.                                    *)
LEMMA FailedKeeps ==
    ASSUME ListerInv, Returns("failed", walk.found), UNCHANGED <<clusterVars, asked, touched>>
    PROVE  ListerInv'
<1>. USE DEF ListerInv
<1>1. /\ walk'.at = "failed" /\ walk'.space = walk.space /\ walk'.found = walk.found
      /\ walk' \in [at : {"list", "get", "returned", "failed"}, space : SpaceCopy, found : Found]
  BY DEF Returns, ListerTypes
<1>2. live' = live /\ parent' = parent /\ role' = role /\ asked' = asked /\ touched' = touched
  BY DEF clusterVars
<1>3. ListerTypes'
  BY <1>1, <1>2 DEF ListerTypes, Acyclic
<1>4. OneRolePerUser'
  BY <1>1 DEF OneRolePerUser
<1>5. ASSUME WalkUndisturbed
      PROVE  WalkUndisturbed'
  <2>1. (walk.space = Copy(walk.space.name))'
    <3>1. PICK s : s = walk.space.name
      OBVIOUS
    <3>2. walk.space = Copy(s) /\ Copy(s)' = Copy(s)
      BY <1>5, <3>1, OnTheWayKept DEF WalkUndisturbed
    <3>3. walk'.space.name = s
      BY <1>1, <3>1
    <3>. QED BY <1>1, <3>2, <3>3 DEF Copy
  <2>2. ASSUME NEW u \in MasterUserRecords, walk'.found[u] # <<>>
        PROVE  FoundFirst(u)'
    <3>1. PICK t \in Spaces : /\ walk.found[u] = <<[space |-> t, role |-> role[t][u]]>>
                              /\ OnTheWay(u, t) /\ u \in Bound(t)
      BY <1>1, <1>5, <2>2 DEF WalkUndisturbed, FoundFirst
    <3>. QED BY <1>1, <1>2, <3>1, OnTheWayKept DEF FoundFirst
  <2>3. \A u \in MasterUserRecords : NotFoundYet(u)'
    BY <1>1 DEF NotFoundYet
  <2>. QED BY <1>1, <2>1, <2>2, <2>3 DEF WalkUndisturbed
<1>. QED BY <1>2, <1>3, <1>4, <1>5

(* The bindings of one more Space.                                         *)
LEMMA ListKeeps ==
    ASSUME ListerInv, List
    PROVE  ListerInv'
<1>. USE DEF ListerInv
<1>0. UNCHANGED <<clusterVars, asked, touched>> /\ walk.at = "list"
  BY DEF List
<1>1. CASE Fails /\ Returns("failed", walk.found)
  BY <1>0, <1>1, FailedKeeps
<1>2. ASSUME Returns(IF StopsAt(walk.space) THEN "returned" ELSE "get",
                     mergeSpaceBindings(walk.found, ListSpaceBindings(walk.space.name)))
      PROVE  ListerInv'
  <2>0. PICK s \in Spaces : s = walk.space.name
    BY DEF ListerTypes, SpaceCopy
  <2>. DEFINE merged == mergeSpaceBindings(walk.found, ListSpaceBindings(s))
  <2>1. walk.found \in Found /\ \A u \in MasterUserRecords : Len(walk.found[u]) <= 1
    BY DEF ListerTypes, OneRolePerUser
  <2>2. /\ merged \in Found
        /\ \A u \in MasterUserRecords :
            /\ walk.found[u] # <<>> => merged[u] = walk.found[u]
            /\ walk.found[u] = <<>> => merged[u] = ListSpaceBindings(s)[u]
    BY <2>1, MergeAdds
  <2>3. walk' = [walk EXCEPT !.at = IF StopsAt(walk.space) THEN "returned" ELSE "get",
                             !.found = merged]
    BY <1>2, <2>0 DEF Returns
  <2>. HIDE DEF merged
  <2>4. /\ walk'.at = IF StopsAt(walk.space) THEN "returned" ELSE "get"
        /\ walk'.space = walk.space /\ walk'.found = merged
        /\ walk' \in [at : {"list", "get", "returned", "failed"}, space : SpaceCopy, found : Found]
    BY <2>2, <2>3 DEF ListerTypes
  <2>5. live' = live /\ parent' = parent /\ role' = role /\ asked' = asked /\ touched' = touched
    BY <1>0 DEF clusterVars
  <2>6. ListerTypes'
    BY <2>4, <2>5 DEF ListerTypes, Acyclic
  <2>7. \A u \in MasterUserRecords :
            \/ u \in Bound(s) /\ ListSpaceBindings(s)[u] = <<[space |-> s, role |-> role[s][u]]>>
            \/ u \notin Bound(s) /\ ListSpaceBindings(s)[u] = <<>>
    BY DEF ListSpaceBindings
  <2>8. OneRolePerUser'
    <3>. SUFFICES ASSUME NEW u \in MasterUserRecords PROVE Len(merged[u]) <= 1
      BY <2>4 DEF OneRolePerUser
    <3>1. \/ merged[u] = walk.found[u]
          \/ merged[u] = <<[space |-> s, role |-> role[s][u]]>>
          \/ merged[u] = <<>>
      BY <2>2, <2>7
    <3>2. CASE merged[u] = walk.found[u]
      BY <2>1, <3>2
    <3>3. CASE merged[u] = <<[space |-> s, role |-> role[s][u]]>>
      BY <3>3
    <3>4. CASE merged[u] = <<>>
      BY <3>4
    <3>. QED BY <3>1, <3>2, <3>3, <3>4
  <2>9. ASSUME WalkUndisturbed
        PROVE  WalkUndisturbed'
    <3>0. walk'.space.name = s
      BY <2>0, <2>4
    <3>1. (walk.space = Copy(walk.space.name))'
      <4>1. walk.space = Copy(s) /\ Copy(s)' = Copy(s)
        BY <1>0, <2>0, <2>9, OnTheWayKept DEF WalkUndisturbed
      <4>. QED BY <2>4, <3>0, <4>1 DEF Copy
    <3>2. /\ walk'.at = "get" => ~StopsAt(walk'.space)
          /\ walk'.at = "returned" => StopsAt(walk'.space)
      BY <2>4
    <3>3. ASSUME NEW u \in MasterUserRecords, walk'.found[u] # <<>>
          PROVE  FoundFirst(u)'
      <4>1. PICK t \in Spaces : /\ walk'.found[u] = <<[space |-> t, role |-> role[t][u]]>>
                                /\ OnTheWay(u, t) /\ u \in Bound(t)
        <5>1. CASE walk.found[u] # <<>>
          BY <2>2, <2>4, <2>9, <5>1 DEF WalkUndisturbed, FoundFirst
        <5>2. CASE walk.found[u] = <<>>
          <6>1. OnTheWay(u, s)
            BY <1>0, <2>0, <2>9, <5>2 DEF WalkUndisturbed, NotFoundYet
          <6>2. u \in Bound(s) /\ walk'.found[u] = <<[space |-> s, role |-> role[s][u]]>>
            BY <2>2, <2>4, <2>7, <3>3, <5>2
          <6>. QED BY <2>1, <6>1, <6>2
        <5>. QED BY <5>1, <5>2
      <4>. QED BY <1>0, <2>5, <4>1, OnTheWayKept DEF FoundFirst
    <3>4. ASSUME NEW u \in MasterUserRecords, walk'.found[u] = <<>>
          PROVE  NotFoundYet(u)'
      <4>1. walk.found[u] = <<>>
        BY <2>2, <2>4, <3>4
      <4>2. OnTheWay(u, s)
        BY <1>0, <2>0, <2>9, <4>1 DEF WalkUndisturbed, NotFoundYet
      <4>3. u \notin Bound(s)
        <5>1. ListSpaceBindings(s)[u] = <<>>
          BY <2>2, <2>4, <3>4, <4>1
        <5>2. <<[space |-> s, role |-> role[s][u]]>> # <<>>
          OBVIOUS
        <5>. QED BY <2>7, <5>1, <5>2
      <4>4. OnTheWay(u, s)' /\ u \notin Bound(s)'
        BY <1>0, <4>2, <4>3, OnTheWayKept
      <4>. QED BY <3>0, <4>4 DEF NotFoundYet, OnTheWay, Bound
    <3>. QED BY <3>1, <3>2, <3>3, <3>4 DEF WalkUndisturbed
  <2>. QED BY <2>5, <2>6, <2>8, <2>9
<1>. QED BY <1>1, <1>2 DEF List

(* One level up.                                                           *)
LEMMA GetKeeps ==
    ASSUME ListerInv, GetParentSpace
    PROVE  ListerInv'
<1>. USE DEF ListerInv
<1>0. UNCHANGED <<clusterVars, asked, touched>> /\ walk.at = "get"
  BY DEF GetParentSpace
<1>1. CASE Returns("failed", walk.found)
  BY <1>0, <1>1, FailedKeeps
<1>2. ASSUME walk' = [walk EXCEPT !.at = "list", !.space = Copy(ParentSpace(@))],
             walk.space.parent \in Spaces
      PROVE  ListerInv'
  <2>0. PICK p \in Spaces : p = walk.space.parent
    BY <1>2
  <2>1. Copy(p) \in SpaceCopy /\ Copy(p).name = p
    BY CopyType
  <2>2. walk' = [walk EXCEPT !.at = "list", !.space = Copy(p)]
    BY <1>2, <2>0 DEF ParentSpace
  <2>3. /\ walk'.at = "list" /\ walk'.space = Copy(p) /\ walk'.found = walk.found
        /\ walk' \in [at : {"list", "get", "returned", "failed"}, space : SpaceCopy, found : Found]
    BY <2>1, <2>2 DEF ListerTypes
  <2>4. live' = live /\ parent' = parent /\ role' = role /\ asked' = asked /\ touched' = touched
    BY <1>0 DEF clusterVars
  <2>5. ListerTypes'
    BY <2>3, <2>4 DEF ListerTypes, Acyclic
  <2>6. OneRolePerUser'
    BY <2>3 DEF OneRolePerUser
  <2>7. ASSUME WalkUndisturbed
        PROVE  WalkUndisturbed'
    <3>0. walk'.space.name = p
      BY <2>1, <2>3
    <3>1. (walk.space = Copy(walk.space.name))'
      <4>1. Copy(p)' = Copy(p)
        BY <1>0, OnTheWayKept
      <4>. QED BY <2>3, <3>0, <4>1 DEF Copy
    <3>2. PICK s \in Spaces : s = walk.space.name
      BY DEF ListerTypes, SpaceCopy
    <3>3. s \notin disabled /\ parent[s] = p
      <4>1. walk.space = Copy(s) /\ ~StopsAt(walk.space)
        BY <1>0, <2>7, <3>2 DEF WalkUndisturbed
      <4>2. walk.space.parent = parent[s]
        BY <4>1 DEF Copy
      <4>3. walk.space.disabled <=> s \in disabled
        BY <4>1, CopyDisabled, Zenon
      <4>4. ~walk.space.disabled
        BY <4>1, Zenon DEF StopsAt
      <4>. QED BY <2>0, <4>2, <4>3, <4>4
    <3>4. ASSUME NEW u \in MasterUserRecords, walk'.found[u] # <<>>
          PROVE  FoundFirst(u)'
      <4>1. PICK t \in Spaces : /\ walk.found[u] = <<[space |-> t, role |-> role[t][u]]>>
                                /\ OnTheWay(u, t) /\ u \in Bound(t)
        BY <2>3, <2>7, <3>4 DEF WalkUndisturbed, FoundFirst
      <4>. QED BY <1>0, <2>3, <2>4, <4>1, OnTheWayKept DEF FoundFirst
    <3>5. ASSUME NEW u \in MasterUserRecords, walk'.found[u] = <<>>
          PROVE  NotFoundYet(u)'
      <4>1. OnTheWay(u, s) /\ u \notin Bound(s)
        BY <1>0, <2>3, <2>7, <3>2, <3>5 DEF WalkUndisturbed, NotFoundYet
      <4>2. OnTheWay(u, p)
        BY <3>3, <4>1, OnTheWayUp DEF ListerTypes
      <4>3. OnTheWay(u, p)'
        BY <1>0, <4>2, OnTheWayKept
      <4>. QED BY <2>3, <3>0, <4>3 DEF NotFoundYet, OnTheWay
    <3>. QED BY <2>3, <3>1, <3>4, <3>5 DEF WalkUndisturbed
  <2>. QED BY <2>4, <2>5, <2>6, <2>7
<1>3. live \subseteq Spaces
  BY DEF ListerTypes
<1>. QED BY <1>1, <1>2, <1>3 DEF GetParentSpace, ParentSpace

LEMMA ListerInvStep ==
    ASSUME ListerInv, [ListerNext]_listerVars
    PROVE  ListerInv'
<1>1. /\ live \subseteq Spaces /\ Acyclic(parent)
      /\ parent \in [Spaces -> Spaces \cup {NoSpace}]
      /\ role \in [Spaces -> [MasterUserRecords -> Roles \cup {NoRole}]]
  BY DEF ListerInv, ListerTypes
<1>2. ASSUME Moved, NEW s \in Spaces, NEW u \in MasterUserRecords, NEW r \in Roles \cup {NoRole},
             NewSpaceBinding(s, u, r)
      PROVE  ListerInv'
  <2>1. role' \in [Spaces -> [MasterUserRecords -> Roles \cup {NoRole}]]
    BY <1>1, <1>2 DEF NewSpaceBinding
  <2>2. live' = live /\ parent' = parent
    BY <1>2 DEF NewSpaceBinding
  <2>3. Acyclic(parent')
    BY <1>1, <2>2, Zenon
  <2>. QED BY <1>1, <1>2, <2>1, <2>2, <2>3, MovedKeeps
<1>3. ASSUME Moved, NEW s \in Spaces, NEW p \in Spaces \cup {NoSpace}, MoveSpace(s, p)
      PROVE  ListerInv'
  <2>1. parent' \in [Spaces -> Spaces \cup {NoSpace}] /\ Acyclic(parent')
    BY <1>1, <1>3 DEF MoveSpace
  <2>2. live' = live /\ role' = role
    BY <1>3 DEF MoveSpace
  <2>. QED BY <1>1, <1>3, <2>1, <2>2, MovedKeeps
<1>4. ASSUME Moved, NEW s \in Spaces, SetInheritance(s) \/ DeleteSpace(s)
      PROVE  ListerInv'
  <2>1. live' \subseteq Spaces /\ parent' = parent /\ role' = role
    BY <1>1, <1>4 DEF SetInheritance, DeleteSpace
  <2>2. Acyclic(parent')
    BY <1>1, <2>1, Zenon
  <2>. QED BY <1>1, <1>4, <2>1, <2>2, MovedKeeps
<1>5. CASE ListForSpace
  BY <1>5, ListKeeps, GetKeeps DEF ListForSpace
<1>6. CASE UNCHANGED listerVars
  <2>1. /\ UNCHANGED <<clusterVars, asked, touched>> /\ walk' = walk
        /\ live' = live /\ parent' = parent /\ role' = role
        /\ disabled' = disabled /\ asked' = asked /\ touched' = touched
    BY <1>6 DEF listerVars, clusterVars
  <2>2. ListerTypes' /\ OneRolePerUser'
    BY <2>1 DEF ListerInv, ListerTypes, OneRolePerUser, Acyclic
  <2>3. WalkUndisturbed => WalkUndisturbed'
    BY <2>1 DEF WalkUndisturbed, NotFoundYet, FoundFirst, OnTheWay, Inherited, Closed, InheritsFrom,
                Bound, Copy, StopsAt
  <2>. QED BY <2>1, <2>2, <2>3 DEF ListerInv
<1>. QED BY <1>2, <1>3, <1>4, <1>5, <1>6 DEF ListerNext

(* ListForSpace returns a binding of the user at most once, however Spaces *)
(* are moved while it is on its way.                                       *)
THEOREM OneRoleEach == ListerSpec => []OneRolePerUser
<1>1. ListerInv => OneRolePerUser
  BY DEF ListerInv
<1>. QED BY <1>1, ListerInvStart, ListerInvStep, PTL DEF ListerSpec

LEMMA UndisturbedIsNearest ==
    ASSUME ListerInv, ~touched, NEW u \in MasterUserRecords
    PROVE  LET effective == {[space |-> t, role |-> role[t][u]] : t \in Nearest(asked, u)} IN
           /\ Range(walk.found[u]) \subseteq effective
           /\ walk.at = "returned" => Range(walk.found[u]) = effective
<1>0. WalkUndisturbed /\ asked \in Spaces /\ Acyclic(parent)
  BY DEF ListerInv, ListerTypes
<1>1. CASE walk.found[u] # <<>>
  <2>1. PICK t \in Spaces : /\ walk.found[u] = <<[space |-> t, role |-> role[t][u]]>>
                            /\ OnTheWay(u, t) /\ u \in Bound(t)
    BY <1>0, <1>1 DEF WalkUndisturbed, FoundFirst
  <2>2. Nearest(asked, u) = {t}
    BY <1>0, <2>1, FirstIsNearest
  <2>3. Range(walk.found[u]) = {[space |-> t, role |-> role[t][u]]}
    BY <2>1 DEF Range
  <2>. QED BY <2>2, <2>3
<1>2. CASE walk.found[u] = <<>>
  <2>1. Range(walk.found[u]) = {}
    BY <1>2 DEF Range
  <2>2. ASSUME walk.at = "returned"
        PROVE  Nearest(asked, u) = {}
    <3>1. PICK s \in Spaces : s = walk.space.name
      BY DEF ListerInv, ListerTypes, SpaceCopy
    <3>2. OnTheWay(u, s) /\ u \notin Bound(s) /\ walk.space = Copy(s) /\ StopsAt(walk.space)
      BY <1>0, <1>2, <2>2, <3>1 DEF WalkUndisturbed, NotFoundYet
    <3>3. walk.space.parent = parent[s] /\ (walk.space.disabled <=> s \in disabled)
      BY <3>2, CopyDisabled, Zenon
    <3>4. walk.space.parent = NoSpace \/ walk.space.disabled
      BY <3>2, Zenon DEF StopsAt
    <3>5. s \in disabled \/ parent[s] \notin Spaces
      BY <3>3, <3>4, SpaceAssumption
    <3>. QED BY <1>0, <3>2, <3>5, NothingNearest
  <2>. QED BY <2>1, <2>2
<1>. QED BY <1>1, <1>2

(* In a hierarchy without cycles, of any depth and with any Spaces that do *)
(* not inherit, ListForSpace returns for each user exactly the binding of  *)
(* the nearest Space, if nothing was changed meanwhile.                    *)
THEOREM NearestBindingIsReturned == ListerSpec => []NearestBindingWins
<1>1. ListerInv => NearestBindingWins
  BY UndisturbedIsNearest DEF NearestBindingWins
<1>. QED BY <1>1, ListerInvStart, ListerInvStep, PTL DEF ListerSpec

(***************************************************************************)
(* The owners.                                                             *)
(***************************************************************************)

(* The one that GetOwners follows is the controller, or the first owner    *)
(* if none is a controller.                                                *)
LEMMA FollowedIsMain ==
    ASSUME NEW refs \in Seq(Reference), refs # <<>>
    PROVE  /\ FollowedOwner(refs) \in OwnedObjects
           /\ \E i \in 1 .. Len(refs) :
                /\ refs[i].name = FollowedOwner(refs)
                /\ \/ refs[i].controller
                   \/ i = 1 /\ \A j \in 1 .. Len(refs) : ~refs[j].controller
<1>. DEFINE I == {i \in 1 .. Len(refs) : refs[i].controller}
            k == SelectInSeq(refs, LAMBDA r : r.controller)
<1>1. k = IF I # {} THEN Min(I) ELSE 0
  BY DEF SelectInSeq
<1>2. FollowedOwner(refs) = IF k # 0 THEN refs[k].name ELSE FirstOwner(refs)
  BY DEF FollowedOwner
<1>3. \A i \in 1 .. Len(refs) : refs[i].name \in OwnedObjects
  <2>1. \A i \in 1 .. Len(refs) : refs[i] \in Reference
    OBVIOUS
  <2>. QED BY <2>1 DEF Reference
<1>4. 1 \in 1 .. Len(refs)
  <2>1. Len(refs) \in Nat \ {0}
    BY EmptySeq
  <2>. QED BY <2>1
<1>. HIDE DEF k
<1>5. CASE I = {}
  <2>1. FollowedOwner(refs) = refs[1].name
    BY <1>1, <1>2, <1>5 DEF FirstOwner
  <2>2. \A j \in 1 .. Len(refs) : ~refs[j].controller
    BY <1>5
  <2>. QED BY <1>3, <1>4, <2>1, <2>2
<1>6. CASE I # {}
  <2>1. Min(I) \in I
    BY <1>6, MinOfIndices
  <2>2. k \in 1 .. Len(refs) /\ refs[k].controller
    BY <1>1, <1>6, <2>1
  <2>3. FollowedOwner(refs) = refs[k].name
    BY <1>2, <2>2
  <2>. QED BY <1>3, <2>2, <2>3
<1>. QED BY <1>5, <1>6

LEMMA NoneIsFollowed == FollowedOwner(<<>>) = NoOne
<1>1. SelectInSeq(<<>>, LAMBDA r : r.controller) = 0
  BY DEF SelectInSeq
<1>. QED BY <1>1 DEF FollowedOwner, FirstOwner

(***************************************************************************)
(* The way of a call, from the owner that it has come to down to the       *)
(* object.                                                                 *)
(***************************************************************************)

FetchStep == {"idle", "choose", "ensure", "discover", "unlock", "get", "returned", "failed"}
Fetch == [at : FetchStep, object : OwnedObjects \cup {NoOne},
          refs : Seq(Reference), owners : Seq(OwnedObjects)]

Way(f) == Append(f.owners, f.object)

(* A call that nothing disturbed has followed the main owners, and has     *)
(* read the references of the last one.                                    *)
OnItsWay(f) ==
    /\ \A i \in 1 .. Len(f.owners) : MainOwner(Way(f)[i + 1], Way(f)[i])
    /\ Way(f)[1] \in OwnersAbove(f.object) \cup {f.object}
    /\ f.refs = references[Way(f)[1]]
    /\ f.at \in {"ensure", "discover", "unlock", "get", "failed"} => f.refs # <<>>
    /\ f.at = "returned" => f.refs = <<>>

WithoutObject(f) == f.owners = <<>> /\ f.refs = <<>> /\ f.at \notin {"choose", "get"}

Undisturbed(f) ==
    /\ f.at = "idle" => f.object = NoOne
    /\ f.object = NoOne => WithoutObject(f)
    /\ f.object # NoOne => OnItsWay(f)

OwnerTypes ==
    /\ present \subseteq OwnedObjects
    /\ references \in [OwnedObjects -> Seq(Reference)]
    /\ served \subseteq ResourceKinds /\ installed \subseteq ResourceKinds
    /\ fetch \in [Goroutines -> Fetch]
    /\ callErrors \in Nat

(* The list is complete when it is there, and there when it is looked at.  *)
ListFilled ==
    /\ resourceLists # NoList => served \subseteq resourceLists
    /\ \A g \in Goroutines : fetch[g].at = "unlock" => resourceLists # NoList

(* The calls that failed for no reason of their object.                    *)
Unlucky == {g \in Goroutines \ disturbed :
                /\ fetch[g].at = "failed"
                /\ fetch[g].object = NoOne \/ ~OwnerUnreachable(fetch[g].object)}

OwnerInv ==
    /\ OwnerTypes
    /\ ListFilled
    /\ \A g \in Goroutines \ disturbed : Undisturbed(fetch[g])
    /\ Cardinality(Unlucky) <= callErrors

(* The way, and its first element.                                         *)
LEMMA WayFacts ==
    ASSUME NEW f \in Fetch, f.object # NoOne
    PROVE  /\ Way(f) \in Seq(OwnedObjects) /\ Len(Way(f)) = Len(f.owners) + 1
           /\ 1 \in 1 .. Len(Way(f)) /\ Way(f)[1] \in OwnedObjects
           /\ \A i \in 1 .. Len(f.owners) : Way(f)[i] = f.owners[i]
           /\ Way(f)[Len(f.owners) + 1] = f.object
<1>1. f.owners \in Seq(OwnedObjects) /\ f.object \in OwnedObjects /\ Len(f.owners) \in Nat
  BY DEF Fetch
<1>2. /\ Way(f) \in Seq(OwnedObjects) /\ Len(Way(f)) = Len(f.owners) + 1
      /\ \A i \in 1 .. Len(f.owners) : Way(f)[i] = f.owners[i]
      /\ Way(f)[Len(f.owners) + 1] = f.object
  BY <1>1 DEF Way
<1>3. 1 \in 1 .. Len(Way(f))
  BY <1>1, <1>2
<1>4. Way(f)[1] \in OwnedObjects
  BY <1>2, <1>3
<1>. QED BY <1>2, <1>3, <1>4

(* The main owner of the last one of the way is above the object.          *)
LEMMA FollowedIsAbove ==
    ASSUME OwnerTypes, NEW f \in Fetch, f.object # NoOne, OnItsWay(f), f.refs # <<>>
    PROVE  /\ FollowedOwner(f.refs) \in OwnedObjects
           /\ MainOwner(Way(f)[1], FollowedOwner(f.refs))
           /\ FollowedOwner(f.refs) \in OwnersAbove(f.object)
<1>. DEFINE top == Way(f)[1]
            owner == FollowedOwner(f.refs)
<1>1. top \in OwnedObjects /\ f.refs = references[top] /\ f.refs \in Seq(Reference)
  BY WayFacts DEF OnItsWay, Fetch
<1>2. owner \in OwnedObjects
  BY <1>1, FollowedIsMain
<1>3. MainOwner(top, owner)
  BY <1>1, FollowedIsMain DEF MainOwner
<1>4. top \in OwnersAbove(f.object) \cup {f.object}
  BY DEF OnItsWay
<1>. HIDE DEF top, owner
<1>5. ASSUME NEW set \in SUBSET OwnedObjects,
             \A q \in set \cup {f.object}, r \in OwnedObjects : MainOwner(q, r) => r \in set
      PROVE  owner \in set
  <2>1. top \in set \cup {f.object}
    BY <1>4, <1>5 DEF OwnersAbove
  <2>. QED BY <1>2, <1>3, <1>5, <2>1
<1>6. owner \in OwnersAbove(f.object)
  BY <1>2, <1>5 DEF OwnersAbove
<1>. QED BY <1>2, <1>3, <1>6 DEF top, owner

(***************************************************************************)
(* Steps.                                                                  *)
(***************************************************************************)

(* While the objects stay as they are, so does what is said of a call.     *)
LEMMA UndisturbedKept ==
    ASSUME references' = references, present' = present, served' = served, NEW f, NEW o
    PROVE  /\ Undisturbed(f)' <=> Undisturbed(f)
           /\ OwnerUnreachable(o)' <=> OwnerUnreachable(o)
<1>1. OwnersAbove(o)' = OwnersAbove(o)
  BY DEF OwnersAbove, MainOwner
<1>2. OwnerUnreachable(o)' <=> OwnerUnreachable(o)
  BY <1>1 DEF OwnerUnreachable
<1>3. OnItsWay(f)' <=> OnItsWay(f)
  BY DEF OnItsWay, OwnersAbove, MainOwner, Way
<1>4. Undisturbed(f)' <=> Undisturbed(f)
  BY <1>3, Zenon DEF Undisturbed, WithoutObject
<1>. QED BY <1>2, <1>4

(* A call by the value it has after the step.                              *)
LEMMA CallByName ==
    ASSUME NEW g, NEW e, e = fetch'[g], Undisturbed(e)'
    PROVE  Undisturbed(fetch[g])'
<1>1. OwnersAbove(fetch[g].object)' = OwnersAbove(e.object)'
  BY DEF OwnersAbove, MainOwner
<1>2. OnItsWay(e)' => OnItsWay(fetch[g])'
  <2>1. Way(fetch[g])' = Way(e)
    BY DEF Way
  <2>2. ASSUME OnItsWay(e)', NEW i \in 1 .. Len(e.owners)
        PROVE  MainOwner(Way(fetch[g])[i + 1], Way(fetch[g])[i])'
    BY <2>1, <2>2 DEF OnItsWay, MainOwner
  <2>3. ASSUME OnItsWay(e)'
        PROVE  Way(fetch[g])'[1] \in (OwnersAbove(fetch[g].object) \cup {fetch[g].object})'
    BY <1>1, <2>1, <2>3 DEF OnItsWay
  <2>4. ASSUME OnItsWay(e)'
        PROVE  /\ fetch'[g].refs = references'[Way(fetch[g])'[1]]
               /\ fetch'[g].at \in {"ensure", "discover", "unlock", "get", "failed"} =>
                      fetch'[g].refs # <<>>
               /\ fetch'[g].at = "returned" => fetch'[g].refs = <<>>
    BY <2>1, <2>4 DEF OnItsWay
  <2>. QED BY <2>2, <2>3, <2>4 DEF OnItsWay
<1>. QED BY <1>2, Zenon DEF Undisturbed, WithoutObject

(* Sets that grow by one at most.                                          *)
LEMMA CountOneMore ==
    ASSUME NEW S, NEW T, NEW x, IsFiniteSet(S), T \subseteq S \cup {x},
           NEW n \in Nat, Cardinality(S) <= n
    PROVE  Cardinality(T) <= n + 1 /\ (x \notin T \/ x \in S => Cardinality(T) <= n)
<1>1. /\ IsFiniteSet(S \cup {x})
      /\ Cardinality(S \cup {x}) = IF x \in S THEN Cardinality(S) ELSE Cardinality(S) + 1
      /\ Cardinality(S) \in Nat
  BY FS_AddElement, FS_CardinalityType
<1>2. IsFiniteSet(T) /\ Cardinality(T) <= Cardinality(S \cup {x}) /\ Cardinality(T) \in Nat
  BY <1>1, FS_Subset, FS_CardinalityType
<1>3. ASSUME x \notin T \/ x \in S
      PROVE  Cardinality(T) <= n
  <2>1. T \subseteq S
    BY <1>3
  <2>2. Cardinality(T) <= Cardinality(S)
    BY <2>1, FS_Subset
  <2>. QED BY <1>1, <1>2, <2>2
<1>. QED BY <1>1, <1>2, <1>3

(* A step of goroutine h: the new state of its call is undisturbed if the  *)
(* old one was, and failed for a reason of its object or for an error that *)
(* is counted.                                                             *)
LEMMA StepOfOne ==
    ASSUME OwnerInv, UNCHANGED <<present, references, served, installed, disturbed>>,
           NEW h \in Goroutines, NEW f \in Fetch, fetch' = [fetch EXCEPT ![h] = f],
           h \notin disturbed => Undisturbed(f),
           resourceLists # NoList => resourceLists' # NoList,
           resourceLists' # NoList => served \subseteq resourceLists',
           f.at = "unlock" => resourceLists' # NoList,
           \/ /\ callErrors' = callErrors
              /\ h \notin disturbed /\ f.at = "failed" => f.object # NoOne /\ OwnerUnreachable(f.object)
           \/ callErrors' = callErrors + 1
    PROVE  OwnerInv'
<1>. USE DEF OwnerInv
<1>1. /\ present' = present /\ references' = references /\ served' = served
      /\ installed' = installed /\ disturbed' = disturbed
  OBVIOUS
<1>2. fetch \in [Goroutines -> Fetch] /\ callErrors \in Nat
  BY DEF OwnerTypes
<1>. HIDE DEF Fetch
<1>3. fetch'[h] = f /\ \A g \in Goroutines \ {h} : fetch'[g] = fetch[g]
  BY <1>2
<1>4. OwnerTypes'
  <2>1. fetch' \in [Goroutines -> Fetch]
    BY <1>2
  <2>2. callErrors' \in Nat
    BY <1>2
  <2>. QED BY <1>1, <2>1, <2>2 DEF OwnerTypes
<1>5. ListFilled'
  <2>1. resourceLists' # NoList => served' \subseteq resourceLists'
    BY <1>1
  <2>2. ASSUME NEW g \in Goroutines, fetch'[g].at = "unlock"
        PROVE  resourceLists' # NoList
    BY <1>3, <2>2 DEF ListFilled
  <2>. QED BY <2>1, <2>2 DEF ListFilled
<1>6. ASSUME NEW g \in Goroutines \ disturbed'
      PROVE  Undisturbed(fetch[g])'
  <2>1. PICK e : e = fetch'[g] /\ Undisturbed(e)
    BY <1>1, <1>3, <1>6
  <2>2. Undisturbed(e)'
    BY <1>1, <2>1, UndisturbedKept
  <2>. QED BY <2>1, <2>2, CallByName
<1>7. Cardinality(Unlucky') <= callErrors'
  <2>1. IsFiniteSet(Unlucky)
    BY OwnerAssumption, FS_Subset DEF Unlucky
  <2>2. Unlucky' \subseteq Unlucky \cup {h}
    <3>1. ASSUME NEW g \in Unlucky', g # h
          PROVE  g \in Unlucky
      <4>1. /\ g \in Goroutines \ disturbed /\ fetch'[g] = fetch[g] /\ fetch'[g].at = "failed"
            /\ fetch'[g].object = NoOne \/ ~OwnerUnreachable(fetch[g].object)'
        BY <1>1, <1>3, <3>1 DEF Unlucky
      <4>2. PICK o : o = fetch[g].object
        OBVIOUS
      <4>3. OwnerUnreachable(fetch[g].object) => OwnerUnreachable(fetch[g].object)'
        BY <1>1, <4>1, <4>2, UndisturbedKept DEF OwnerUnreachable, OwnersAbove, MainOwner
      <4>. QED BY <4>1, <4>3 DEF Unlucky
    <3>. QED BY <3>1
  <2>3. CASE callErrors' = callErrors + 1
    BY <1>2, <2>1, <2>2, <2>3, CountOneMore
  <2>4. CASE /\ callErrors' = callErrors
             /\ h \notin disturbed /\ f.at = "failed" => f.object # NoOne /\ OwnerUnreachable(f.object)
    <3>1. h \notin Unlucky'
      <4>. SUFFICES ASSUME h \in Unlucky' PROVE FALSE
        OBVIOUS
      <4>1. /\ h \notin disturbed /\ f.at = "failed"
            /\ f.object = NoOne \/ ~OwnerUnreachable(fetch[h].object)'
        BY <1>1, <1>3 DEF Unlucky
      <4>2. f.object # NoOne /\ OwnerUnreachable(f.object)
        BY <2>4, <4>1
      <4>3. OwnerUnreachable(fetch[h].object)'
        BY <1>1, <1>3, <4>2 DEF OwnerUnreachable, OwnersAbove, MainOwner
      <4>. QED BY <4>1, <4>2, <4>3
    <3>. QED BY <1>2, <2>1, <2>2, <2>4, <3>1, CountOneMore
  <2>. QED BY <2>3, <2>4
<1>. QED BY <1>4, <1>5, <1>6, <1>7

(* A change by others disturbs every call.                                 *)
LEMMA EditKeeps ==
    ASSUME OwnerInv, OwnerEdit, served' = served,
           present' \subseteq OwnedObjects, references' \in [OwnedObjects -> Seq(Reference)],
           installed' \subseteq ResourceKinds
    PROVE  OwnerInv'
<1>. USE DEF OwnerInv
<1>1. /\ fetch' = fetch /\ resourceLists' = resourceLists /\ callErrors' = callErrors
      /\ disturbed' = disturbed \cup {g \in Goroutines : fetch[g].at # "idle"}
  BY DEF OwnerEdit, cacheVars
<1>2. OwnerTypes' /\ ListFilled'
  BY <1>1 DEF OwnerTypes, ListFilled
<1>3. ASSUME NEW g \in Goroutines \ disturbed'
      PROVE  Undisturbed(fetch[g])'
  <2>1. fetch[g].at = "idle" /\ Undisturbed(fetch[g])
    BY <1>1
  <2>2. fetch[g].object = NoOne /\ WithoutObject(fetch[g])
    BY <2>1 DEF Undisturbed
  <2>. QED BY <1>1, <2>2 DEF Undisturbed, WithoutObject
<1>4. Unlucky' = {}
  BY <1>1 DEF Unlucky
<1>5. Cardinality(Unlucky') <= callErrors'
  BY <1>1, <1>4, FS_EmptySet DEF OwnerTypes
<1>. QED BY <1>2, <1>3, <1>5


(* A call that goes on with what it has: it returns where there is no      *)
(* owner, and fails for a reason of its object or for an error.            *)
LEMMA GoesOn ==
    ASSUME OwnerInv, UNCHANGED <<present, references, served, installed, disturbed>>,
           NEW h \in Goroutines, NEW at \in FetchStep \ {"idle", "choose"}, Goes(h, at),
           h \notin disturbed /\ fetch[h].object = NoOne => at # "get",
           h \notin disturbed /\ fetch[h].object # NoOne => (at = "returned" <=> fetch[h].refs = <<>>),
           resourceLists # NoList => resourceLists' # NoList,
           resourceLists' # NoList => served \subseteq resourceLists',
           at = "unlock" => resourceLists' # NoList,
           \/ /\ callErrors' = callErrors
              /\ h \notin disturbed /\ at = "failed" =>
                    fetch[h].object # NoOne /\ OwnerUnreachable(fetch[h].object)
           \/ callErrors' = callErrors + 1
    PROVE  OwnerInv'
<1>0. fetch \in [Goroutines -> Fetch]
  BY DEF OwnerInv, OwnerTypes
<1>1. PICK e : e = fetch[h]
  OBVIOUS
<1>2. e \in Fetch
  BY <1>0, <1>1
<1>. DEFINE f == [e EXCEPT !.at = at]
<1>3. /\ f \in Fetch /\ f.at = at /\ f.object = e.object /\ f.refs = e.refs /\ f.owners = e.owners
  BY <1>2 DEF Fetch
<1>4. fetch' = [fetch EXCEPT ![h] = f]
  BY <1>0, <1>1, <1>2 DEF Goes, Fetch
<1>. HIDE DEF f
<1>5. ASSUME h \notin disturbed
      PROVE  Undisturbed(f)
  <2>1. Undisturbed(e)
    BY <1>1, <1>5 DEF OwnerInv
  <2>2. CASE e.object = NoOne
    BY <1>1, <1>3, <1>5, <2>1, <2>2 DEF Undisturbed, WithoutObject
  <2>3. CASE e.object # NoOne
    <3>1. OnItsWay(e) /\ Way(f) = Way(e)
      BY <1>3, <2>1, <2>3 DEF Undisturbed, Way
    <3>2. at = "returned" <=> f.refs = <<>>
      BY <1>1, <1>3, <1>5, <2>3
    <3>3. OnItsWay(f)
      BY <1>3, <3>1, <3>2 DEF OnItsWay
    <3>. QED BY <1>3, <2>3, <3>3 DEF Undisturbed
  <2>. QED BY <2>2, <2>3
<1>6. OwnerUnreachable(fetch[h].object) => OwnerUnreachable(f.object)
  BY <1>1, <1>3
<1>. QED BY <1>1, <1>3, <1>4, <1>5, <1>6, StepOfOne

(* What an undisturbed call has, by its step.                              *)
LEMMA CallFacts ==
    ASSUME OwnerInv, NEW g \in Goroutines
    PROVE  /\ fetch[g] \in Fetch /\ fetch[g].refs \in Seq(Reference)
           /\ (FollowedOwner(fetch[g].refs) = NoOne) <=> (fetch[g].refs = <<>>)
           /\ g \notin disturbed /\ fetch[g].at \in {"choose", "get"} => fetch[g].object # NoOne
           /\ g \notin disturbed /\ fetch[g].object # NoOne => OnItsWay(fetch[g])
           /\ g \notin disturbed /\ fetch[g].object # NoOne
                /\ fetch[g].at \in {"ensure", "discover", "unlock", "get"} => fetch[g].refs # <<>>
           /\ g \notin disturbed /\ fetch[g].object = NoOne => fetch[g].refs = <<>>
           /\ g \notin disturbed /\ fetch[g].at = "idle" => fetch[g].object = NoOne
<1>1. fetch[g] \in Fetch
  BY DEF OwnerInv, OwnerTypes
<1>2. fetch[g].refs \in Seq(Reference)
  BY <1>1 DEF Fetch
<1>3. (FollowedOwner(fetch[g].refs) = NoOne) <=> (fetch[g].refs = <<>>)
  BY <1>2, FollowedIsMain, NoneIsFollowed, OwnerAssumption
<1>4. g \notin disturbed => Undisturbed(fetch[g])
  BY DEF OwnerInv
<1>. QED BY <1>1, <1>2, <1>3, <1>4 DEF Undisturbed, WithoutObject, OnItsWay

(* The reason of a lookup or a Get that fails without an error.            *)
LEMMA MissingOwner ==
    ASSUME OwnerInv, NEW g \in Goroutines \ disturbed, fetch[g].object # NoOne, fetch[g].refs # <<>>,
           \/ FollowedOwner(fetch[g].refs) \notin present
           \/ KindOf[FollowedOwner(fetch[g].refs)] \notin served
    PROVE  OwnerUnreachable(fetch[g].object)
<1>1. PICK f : f = fetch[g]
  OBVIOUS
<1>2. OwnerTypes /\ f \in Fetch /\ OnItsWay(f)
  BY <1>1, CallFacts DEF OwnerInv
<1>3. FollowedOwner(f.refs) \in OwnersAbove(f.object)
  BY <1>1, <1>2, FollowedIsAbove
<1>. QED BY <1>1, <1>3 DEF OwnerUnreachable


(***************************************************************************)
(* The actions.                                                            *)
(***************************************************************************)

LEMMA GVKForGRKeeps ==
    ASSUME OwnerInv, NEW g \in Goroutines, GVKForGR(g)
    PROVE  OwnerInv'
<1>1. /\ UNCHANGED <<present, references, served, installed, disturbed>>
      /\ resourceLists' = resourceLists /\ callErrors' = callErrors
      /\ Goes(g, "ensure") /\ fetch[g].at = "idle"
  BY DEF GVKForGR, objectVars, cacheVars
<1>2. g \notin disturbed => fetch[g].object = NoOne
  BY <1>1, CallFacts
<1>3. resourceLists # NoList => served \subseteq resourceLists
  BY DEF OwnerInv, ListFilled
<1>. QED BY <1>1, <1>2, <1>3, GoesOn DEF FetchStep

LEMMA ChooseOwnerKeeps ==
    ASSUME OwnerInv, NEW g \in Goroutines, ChooseOwner(g)
    PROVE  OwnerInv'
<1>1. /\ UNCHANGED <<present, references, served, installed, disturbed>>
      /\ resourceLists' = resourceLists /\ callErrors' = callErrors /\ fetch[g].at = "choose"
  BY DEF ChooseOwner, objectVars, cacheVars
<1>2. resourceLists # NoList => served \subseteq resourceLists
  BY DEF OwnerInv, ListFilled
<1>3. CASE fetch[g].refs = <<>>
  <2>1. Goes(g, "returned")
    BY <1>3, CallFacts DEF ChooseOwner
  <2>. QED BY <1>1, <1>2, <1>3, <2>1, GoesOn DEF FetchStep
<1>4. CASE fetch[g].refs # <<>>
  <2>1. Goes(g, "ensure")
    BY <1>4, CallFacts DEF ChooseOwner
  <2>. QED BY <1>1, <1>2, <1>4, <2>1, GoesOn DEF FetchStep
<1>. QED BY <1>3, <1>4

LEMMA LockMutexKeeps ==
    ASSUME OwnerInv, NEW g \in Goroutines, LockMutex(g)
    PROVE  OwnerInv'
<1>1. /\ UNCHANGED <<present, references, served, installed, disturbed>>
      /\ resourceLists' = resourceLists /\ callErrors' = callErrors /\ fetch[g].at = "ensure"
  BY DEF LockMutex, objectVars
<1>2. resourceLists # NoList => served \subseteq resourceLists
  BY DEF OwnerInv, ListFilled
<1>3. g \notin disturbed /\ fetch[g].object # NoOne => fetch[g].refs # <<>>
  BY <1>1, CallFacts
<1>4. CASE resourceLists = NoList
  <2>1. Goes(g, "discover")
    BY <1>4 DEF LockMutex
  <2>. QED BY <1>1, <1>2, <1>3, <2>1, GoesOn DEF FetchStep
<1>5. CASE resourceLists # NoList
  <2>1. Goes(g, "unlock")
    BY <1>5 DEF LockMutex
  <2>. QED BY <1>1, <1>2, <1>3, <1>5, <2>1, GoesOn DEF FetchStep
<1>. QED BY <1>4, <1>5

(* A failed discovery leaves the list as it was.                           *)
LEMMA DiscoverKeeps ==
    ASSUME OwnerInv, NEW g \in Goroutines, Discover(g)
    PROVE  OwnerInv'
<1>1. UNCHANGED <<present, references, served, installed, disturbed>> /\ fetch[g].at = "discover"
  BY DEF Discover, objectVars
<1>2. g \notin disturbed /\ fetch[g].object # NoOne => fetch[g].refs # <<>>
  BY <1>1, CallFacts
<1>3. CASE resourceLists' = served \cup installed /\ Goes(g, "unlock") /\ callErrors' = callErrors
  <2>1. resourceLists' # NoList /\ served \subseteq resourceLists'
    BY <1>3, OwnerAssumption DEF OwnerInv, OwnerTypes
  <2>. QED BY <1>1, <1>2, <1>3, <2>1, GoesOn DEF FetchStep
<1>4. CASE resourceLists' = resourceLists /\ Goes(g, "failed") /\ callErrors' = callErrors + 1
  <2>1. resourceLists # NoList => served \subseteq resourceLists
    BY DEF OwnerInv, ListFilled
  <2>. QED BY <1>1, <1>2, <1>4, <2>1, GoesOn DEF FetchStep
<1>. QED BY <1>3, <1>4 DEF Discover, CallFails, FailedDiscovery

(* The list is there, and has the kinds that were served from the          *)
(* beginning: only the others are not found.                               *)
LEMMA LookupKeeps ==
    ASSUME OwnerInv, NEW g \in Goroutines, Lookup(g)
    PROVE  OwnerInv'
<1>. DEFINE owner == FollowedOwner(fetch[g].refs)
<1>1. /\ UNCHANGED <<present, references, served, installed, disturbed>> /\ fetch[g].at = "unlock"
      /\ resourceLists' = resourceLists /\ callErrors' = callErrors
      /\ Goes(g, IF owner = NoOne THEN "returned"
                 ELSE IF KindOf[owner] \in resourceLists THEN "get" ELSE "failed")
  BY DEF Lookup, objectVars
<1>2. resourceLists # NoList /\ served \subseteq resourceLists
  BY <1>1 DEF OwnerInv, ListFilled
<1>3. /\ (owner = NoOne) <=> (fetch[g].refs = <<>>)
      /\ g \notin disturbed /\ fetch[g].object # NoOne => fetch[g].refs # <<>>
      /\ g \notin disturbed /\ fetch[g].object = NoOne => fetch[g].refs = <<>>
  BY <1>1, CallFacts
<1>. HIDE DEF owner
<1>4. CASE owner = NoOne
  <2>1. Goes(g, "returned")
    BY <1>1, <1>4
  <2>. QED BY <1>1, <1>2, <1>3, <1>4, <2>1, GoesOn DEF FetchStep
<1>5. CASE owner # NoOne /\ KindOf[owner] \in resourceLists
  <2>1. Goes(g, "get")
    BY <1>1, <1>5
  <2>. QED BY <1>1, <1>2, <1>3, <1>5, <2>1, GoesOn DEF FetchStep
<1>6. CASE owner # NoOne /\ KindOf[owner] \notin resourceLists
  <2>1. Goes(g, "failed")
    BY <1>1, <1>6
  <2>2. g \notin disturbed => fetch[g].object # NoOne /\ OwnerUnreachable(fetch[g].object)
    BY <1>2, <1>3, <1>6, MissingOwner DEF owner
  <2>. QED BY <1>1, <1>2, <1>3, <1>6, <2>1, <2>2, GoesOn DEF FetchStep
<1>. QED BY <1>4, <1>5, <1>6


LEMMA GetOwnersKeeps ==
    ASSUME OwnerInv, NEW g \in Goroutines, NEW o \in OwnedObjects, GetOwners(g, o)
    PROVE  OwnerInv'
<1>1. /\ UNCHANGED <<present, references, served, installed, disturbed>> /\ fetch[g].at = "idle"
      /\ resourceLists' = resourceLists /\ callErrors' = callErrors
  BY DEF GetOwners, objectVars, cacheVars
<1>2. fetch \in [Goroutines -> Fetch] /\ references[o] \in Seq(Reference)
  BY DEF OwnerInv, OwnerTypes
<1>3. resourceLists # NoList => served \subseteq resourceLists
  BY DEF OwnerInv, ListFilled
<1>4. PICK e, refs : e = fetch[g] /\ refs = references[o]
  OBVIOUS
<1>5. e \in Fetch /\ refs \in Seq(Reference)
  BY <1>2, <1>4
<1>. DEFINE f == [e EXCEPT !.at = "choose", !.object = o, !.refs = refs]
<1>6. f \in Fetch /\ f.at = "choose" /\ f.object = o /\ f.refs = refs /\ f.owners = e.owners
  BY <1>5 DEF Fetch, FetchStep
<1>7. fetch' = [fetch EXCEPT ![g] = f]
  BY <1>2, <1>4 DEF GetOwners
<1>. HIDE DEF f
<1>8. ASSUME g \notin disturbed
      PROVE  Undisturbed(f)
  <2>1. e.owners = <<>>
    BY <1>1, <1>4, <1>8 DEF OwnerInv, Undisturbed, WithoutObject
  <2>2. Way(f) = <<o>> /\ Len(f.owners) = 0
    BY <1>6, <2>1 DEF Way
  <2>3. OnItsWay(f)
    BY <1>4, <1>6, <2>2 DEF OnItsWay
  <2>4. o # NoOne
    BY OwnerAssumption
  <2>. QED BY <1>6, <2>3, <2>4 DEF Undisturbed
<1>. QED BY <1>1, <1>3, <1>6, <1>7, <1>8, StepOfOne

(* The owner is the new top of the way.                                    *)
LEMMA WayGoesUp ==
    ASSUME OwnerTypes, NEW e \in Fetch, e.object # NoOne, OnItsWay(e), e.refs # <<>>,
           NEW f \in Fetch, f.at = "choose", f.object = e.object,
           f.refs = references[FollowedOwner(e.refs)],
           f.owners = <<FollowedOwner(e.refs)>> \o e.owners
    PROVE  OnItsWay(f)
<1>. DEFINE owner == FollowedOwner(e.refs)
<1>1. /\ owner \in OwnedObjects /\ MainOwner(Way(e)[1], owner)
      /\ owner \in OwnersAbove(e.object)
  BY FollowedIsAbove
<1>. HIDE DEF owner
<1>2. e.owners \in Seq(OwnedObjects) /\ Len(e.owners) \in Nat /\ e.object \in OwnedObjects
  BY DEF Fetch
<1>3. f.owners = <<owner>> \o e.owners
  BY DEF owner
<1>4. /\ Len(f.owners) = Len(e.owners) + 1 /\ f.owners[1] = owner
      /\ \A i \in 1 .. Len(e.owners) : f.owners[i + 1] = e.owners[i]
  BY <1>1, <1>2, <1>3
<1>5. /\ \A i \in 1 .. Len(f.owners) : Way(f)[i] = f.owners[i]
      /\ Way(f)[Len(f.owners) + 1] = e.object
      /\ \A i \in 1 .. Len(e.owners) : Way(e)[i] = e.owners[i]
      /\ Way(e)[Len(e.owners) + 1] = e.object
  BY WayFacts
<1>6. Way(f)[1] = owner
  BY <1>2, <1>4, <1>5
<1>7. \A i \in 1 .. Len(e.owners) + 1 : Way(f)[i + 1] = Way(e)[i]
  <2>. SUFFICES ASSUME NEW i \in 1 .. Len(e.owners) + 1
                PROVE  Way(f)[i + 1] = Way(e)[i]
    OBVIOUS
  <2>1. CASE i = Len(e.owners) + 1
    BY <1>2, <1>4, <1>5, <2>1
  <2>2. CASE i \in 1 .. Len(e.owners)
    BY <1>2, <1>4, <1>5, <2>2
  <2>. QED BY <1>2, <2>1, <2>2
<1>8. ASSUME NEW i \in 1 .. Len(f.owners)
      PROVE  MainOwner(Way(f)[i + 1], Way(f)[i])
  <2>1. CASE i = 1
    <3>1. Way(f)[i + 1] = Way(e)[1]
      BY <1>2, <1>7, <2>1
    <3>. QED BY <1>1, <1>6, <2>1, <3>1
  <2>2. CASE i # 1
    <3>1. PICK j \in 1 .. Len(e.owners) : i = j + 1
      <4>1. i - 1 \in 1 .. Len(e.owners) /\ i = (i - 1) + 1
        BY <1>2, <1>4, <2>2
      <4>. QED BY <4>1
    <3>2. Way(f)[i + 1] = Way(e)[j + 1] /\ Way(f)[i] = Way(e)[j]
      <4>1. j \in 1 .. Len(e.owners) + 1 /\ j + 1 \in 1 .. Len(e.owners) + 1
        BY <1>2, <3>1
      <4>. QED BY <1>7, <3>1, <4>1
    <3>3. MainOwner(Way(e)[j + 1], Way(e)[j])
      BY <3>1 DEF OnItsWay
    <3>. QED BY <3>2, <3>3
  <2>. QED BY <2>1, <2>2
<1>9. Way(f)[1] \in OwnersAbove(f.object) \cup {f.object} /\ f.refs = references[Way(f)[1]]
  BY <1>1, <1>6 DEF owner
<1>. QED BY <1>8, <1>9 DEF OnItsWay

LEMMA GetOwnerKeeps ==
    ASSUME OwnerInv, NEW g \in Goroutines, GetOwner(g)
    PROVE  OwnerInv'
<1>. DEFINE owner == FollowedOwner(fetch[g].refs)
<1>1. /\ UNCHANGED <<present, references, served, installed, disturbed>> /\ fetch[g].at = "get"
      /\ resourceLists' = resourceLists
  BY DEF GetOwner, objectVars, cacheVars
<1>2. resourceLists # NoList => served \subseteq resourceLists
  BY DEF OwnerInv, ListFilled
<1>3. g \notin disturbed => /\ fetch[g].object # NoOne /\ fetch[g].refs # <<>>
                            /\ OnItsWay(fetch[g])
  BY <1>1, CallFacts
<1>. HIDE DEF owner
<1>4. CASE /\ owner \in present /\ callErrors' = callErrors
           /\ fetch' = [fetch EXCEPT ![g] =
                [at |-> "choose", object |-> fetch[g].object, refs |-> references[owner],
                 owners |-> <<owner>> \o fetch[g].owners]]
  <2>1. OwnerTypes /\ fetch \in [Goroutines -> Fetch] /\ owner \in OwnedObjects
    BY <1>4 DEF OwnerInv, OwnerTypes
  <2>2. PICK e, p, refs : e = fetch[g] /\ p = owner /\ refs = references[owner]
    OBVIOUS
  <2>3. e \in Fetch /\ p \in OwnedObjects /\ refs \in Seq(Reference)
    BY <2>1, <2>2 DEF OwnerTypes
  <2>. DEFINE f == [at |-> "choose", object |-> e.object, refs |-> refs,
                    owners |-> <<p>> \o e.owners]
  <2>4. e.owners \in Seq(OwnedObjects) /\ <<p>> \o e.owners \in Seq(OwnedObjects)
    BY <2>3 DEF Fetch
  <2>5. /\ f \in Fetch /\ f.at = "choose" /\ f.object = e.object /\ f.refs = refs
        /\ f.owners = <<p>> \o e.owners
    BY <2>3, <2>4 DEF Fetch, FetchStep
  <2>6. fetch' = [fetch EXCEPT ![g] = f]
    BY <1>4, <2>2
  <2>. HIDE DEF f
  <2>7. ASSUME g \notin disturbed
        PROVE  Undisturbed(f)
    <3>1. e.object # NoOne /\ e.refs # <<>> /\ OnItsWay(e) /\ p = FollowedOwner(e.refs)
      BY <1>3, <2>2, <2>7 DEF owner
    <3>2. OnItsWay(f)
      BY <2>1, <2>2, <2>3, <2>5, <3>1, WayGoesUp DEF owner
    <3>. QED BY <2>5, <3>1, <3>2 DEF Undisturbed
  <2>. QED BY <1>1, <1>2, <1>4, <2>5, <2>6, <2>7, StepOfOne
<1>5. CASE owner \notin present /\ callErrors' = callErrors /\ Goes(g, "failed")
  <2>1. g \notin disturbed => OwnerUnreachable(fetch[g].object)
    BY <1>3, <1>5, MissingOwner DEF owner
  <2>. QED BY <1>1, <1>2, <1>3, <1>5, <2>1, GoesOn DEF FetchStep
<1>6. CASE callErrors' = callErrors + 1 /\ Goes(g, "failed")
  BY <1>1, <1>2, <1>3, <1>6, GoesOn DEF FetchStep
<1>7. \/ /\ owner \in present /\ callErrors' = callErrors
         /\ fetch' = [fetch EXCEPT ![g] =
                [at |-> "choose", object |-> fetch[g].object, refs |-> references[owner],
                 owners |-> <<owner>> \o fetch[g].owners]]
      \/ owner \notin present /\ callErrors' = callErrors /\ Goes(g, "failed")
      \/ callErrors' = callErrors + 1 /\ Goes(g, "failed")
  BY Zenon DEF GetOwner, CallFails, owner
<1>. QED BY <1>4, <1>5, <1>6, <1>7


LEMMA OthersKeep ==
    ASSUME OwnerInv, OwnerEdit,
           \/ \E o \in OwnedObjects :
                \/ DeleteObject(o)
                \/ RemoveReference(o)
                \/ \E p \in OwnedObjects, controller \in BOOLEAN : AddReference(o, p, controller)
           \/ \E k \in ResourceKinds : InstallKind(k)
    PROVE  OwnerInv'
<1>1. OwnerTypes
  BY DEF OwnerInv
<1>. USE <1>1 DEF OwnerTypes
<1>2. ASSUME NEW o \in OwnedObjects, DeleteObject(o)
      PROVE  OwnerInv'
  BY <1>2, EditKeeps DEF DeleteObject
<1>3. ASSUME NEW o \in OwnedObjects, RemoveReference(o)
      PROVE  OwnerInv'
  <2>1. Tail(references[o]) \in Seq(Reference)
    BY <1>3, EmptySeq DEF RemoveReference
  <2>. QED BY <1>3, <2>1, EditKeeps DEF RemoveReference
<1>4. ASSUME NEW o \in OwnedObjects, NEW p \in OwnedObjects, NEW controller \in BOOLEAN,
             AddReference(o, p, controller)
      PROVE  OwnerInv'
  <2>1. [name |-> p, controller |-> controller] \in Reference
    BY Zenon DEF Reference
  <2>2. Append(references[o], [name |-> p, controller |-> controller]) \in Seq(Reference)
    BY <2>1
  <2>. QED BY <1>4, <2>2, EditKeeps DEF AddReference
<1>5. ASSUME NEW k \in ResourceKinds, InstallKind(k)
      PROVE  OwnerInv'
  BY <1>5, EditKeeps DEF InstallKind
<1>. QED BY <1>2, <1>3, <1>4, <1>5

LEMMA OwnerInvStart == OwnerInit => OwnerInv
<1>. SUFFICES ASSUME OwnerInit PROVE OwnerInv
  OBVIOUS
<1>. USE DEF OwnerInit
<1>1. references \in [OwnedObjects -> Seq(Reference)]
  BY OwnerAssumption
<1>2. Idle \in Fetch
  BY DEF Idle, Fetch, FetchStep
<1>3. OwnerTypes
  BY <1>1, <1>2 DEF OwnerTypes
<1>4. ListFilled
  BY DEF ListFilled, Idle
<1>5. \A g \in Goroutines : Undisturbed(fetch[g])
  BY DEF Undisturbed, WithoutObject, Idle
<1>6. Cardinality(Unlucky) <= callErrors
  <2>1. Unlucky = {}
    BY DEF Unlucky, Idle
  <2>. QED BY <2>1, FS_EmptySet
<1>. QED BY <1>3, <1>4, <1>5, <1>6 DEF OwnerInv

LEMMA OwnerInvStep == OwnerInv /\ [OwnerNext]_ownerVars => OwnerInv'
<1>. SUFFICES ASSUME OwnerInv, [OwnerNext]_ownerVars PROVE OwnerInv'
  OBVIOUS
<1>1. ASSUME NEW g \in Goroutines,
             (\E o \in OwnedObjects : GetOwners(g, o)) \/ GVKForGR(g) \/ Fetches(g)
      PROVE  OwnerInv'
  BY <1>1, GetOwnersKeeps, GVKForGRKeeps, ChooseOwnerKeeps, LockMutexKeeps, DiscoverKeeps,
     LookupKeeps, GetOwnerKeeps, Zenon DEF Fetches
<1>2. CASE UNCHANGED ownerVars
  <2>1. /\ UNCHANGED <<present, references, served, installed, disturbed>>
        /\ fetch' = fetch /\ resourceLists' = resourceLists /\ callErrors' = callErrors
    BY <1>2 DEF ownerVars, objectVars, cacheVars
  <2>2. OwnerTypes' /\ ListFilled'
    BY <2>1 DEF OwnerInv, OwnerTypes, ListFilled
  <2>3. Unlucky' = Unlucky
    BY <2>1 DEF Unlucky, OwnerUnreachable, OwnersAbove, MainOwner
  <2>4. ASSUME NEW g \in Goroutines \ disturbed'
        PROVE  Undisturbed(fetch[g])'
    <3>1. PICK e : e = fetch'[g] /\ Undisturbed(e)
      BY <2>1 DEF OwnerInv
    <3>2. Undisturbed(e)'
      BY <2>1, <3>1, UndisturbedKept
    <3>. QED BY <3>1, <3>2, CallByName
  <2>. QED BY <2>1, <2>2, <2>3, <2>4 DEF OwnerInv
<1>3. CASE ~UNCHANGED ownerVars
  <2>1. OwnerNext
    BY <1>3
  <2>. QED BY <1>1, <2>1, OthersKeep, Zenon DEF OwnerNext
<1>. QED BY <1>2, <1>3

(* The answer of GetOwners leads from the top-level owner down to the      *)
(* owner of the object, and with an error it is the lower part of this     *)
(* way: for every graph of references, any number of goroutines and        *)
(* whatever fails.                                                         *)
THEOREM OwnersAreFromTheTop == OwnerSpec => []OwnersFromTheTop
<1>1. OwnerInv => OwnersFromTheTop
  <2>. SUFFICES ASSUME OwnerInv, NEW g \in Goroutines \ disturbed,
                       fetch[g].at \in {"returned", "failed"}, fetch[g].object # NoOne
                PROVE  LET way == Append(fetch[g].owners, fetch[g].object) IN
                       /\ \A i \in 1 .. Len(way) - 1 : MainOwner(way[i + 1], way[i])
                       /\ fetch[g].at = "returned" <=> references[way[1]] = <<>>
    BY DEF OwnersFromTheTop
  <2>1. PICK f : f = fetch[g]
    OBVIOUS
  <2>2. f \in Fetch /\ f.object # NoOne /\ OnItsWay(f)
    BY <2>1, CallFacts
  <2>3. Len(Way(f)) - 1 = Len(f.owners)
    BY <2>2, WayFacts DEF Fetch
  <2>4. \A i \in 1 .. Len(Way(f)) - 1 : MainOwner(Way(f)[i + 1], Way(f)[i])
    BY <2>2, <2>3 DEF OnItsWay
  <2>5. f.at = "returned" <=> references[Way(f)[1]] = <<>>
    BY <2>1, <2>2 DEF OnItsWay
  <2>. QED BY <2>1, <2>4, <2>5 DEF Way
<1>. QED BY <1>1, OwnerInvStart, OwnerInvStep, PTL DEF OwnerSpec

(* No error of a call to the API server or the discovery client fails      *)
(* more than the call that met it.                                         *)
THEOREM ErrorsFailOneCallEach == OwnerSpec => []OneErrorFailsOneCall
<1>1. OwnerInv => OneErrorFailsOneCall
  BY DEF OwnerInv, OneErrorFailsOneCall, Unlucky
<1>. QED BY <1>1, OwnerInvStart, OwnerInvStep, PTL DEF OwnerSpec
=============================================================================
