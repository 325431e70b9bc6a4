---------------------------- MODULE VersionCheck ----------------------------
(***************************************************************************)
(* pkg/status/versionchecks.go and CanIssueGitHubRequest: a controller     *)
(* checks for one component after the other whether the latest commit of   *)
(* its repository is deployed, and saves the condition that it is given.   *)
(* Calls to GitHub are kept Delay apart for each repository; in between    *)
(* the saved condition is returned.  Commits, deployments, failed calls,   *)
(* lost status updates and restarts come in between.  Times are ages,      *)
(* which stop when they exceed every limit.                                *)
(***************************************************************************)
EXTENDS Naturals

CONSTANTS
    Deployments,        \* the components that are checked
    Following,          \* the one that is checked next
    RepoOf,             \* the name of a component's repository
    Commits,            \* commit SHAs
    Delay,              \* GitHubAPICallDelay
    DeploymentThreshold,
    NoAge, Nobody,
    MaxPushes,          \* bound on commits, deployments and restarts
    MaxMishaps          \* bound on failed calls and lost updates

ASSUME VersionAssumption ==
    /\ Delay \in Nat /\ DeploymentThreshold \in Nat
    /\ NoAge \notin Nat
    /\ Nobody \notin Deployments

Repos == {RepoOf[d] : d \in Deployments}

VARIABLES
    latest, committed,  \* the latest commit of a repository, and the age of its author date
    deployed,
    enabled,            \* isProd and an accessTokenKey
    lastGHCall,         \* LastGHCallsPerRepo
    lastRequest,        \* history: the age of the last request of this process
    ready,              \* the reason of the saved Ready condition, Nobody without one
    turn, asking,       \* the component to check next; the one that waits for GitHub
    pushes, mishaps

repoVars == <<latest, committed, deployed, enabled>>
versionVars == <<repoVars, lastGHCall, lastRequest, ready, turn, asking, pushes, mishaps>>

Limit == IF Delay > DeploymentThreshold THEN Delay + 1 ELSE DeploymentThreshold + 1
Later(age) == IF age = NoAge \/ age = Limit THEN age ELSE age + 1

VersionInit ==
    /\ latest \in [Repos -> Commits] /\ deployed \in [Deployments -> Commits]
    /\ committed = [r \in Repos |-> 0]
    /\ enabled \in BOOLEAN
    /\ lastGHCall = [r \in Repos |-> NoAge] /\ lastRequest = [r \in Repos |-> NoAge]
    /\ ready = [d \in Deployments |-> Nobody]
    /\ turn \in Deployments /\ asking = Nobody
    /\ pushes = 0 /\ mishaps = 0

(***************************************************************************)
(* Time, the repositories and the process.                                 *)
(***************************************************************************)

Tick ==
    /\ committed' = [r \in Repos |-> Later(committed[r])]
    /\ lastGHCall' = [r \in Repos |-> Later(lastGHCall[r])]
    /\ lastRequest' = [r \in Repos |-> Later(lastRequest[r])]
    /\ UNCHANGED <<latest, deployed, enabled, ready, turn, asking, pushes, mishaps>>

Push == pushes < MaxPushes /\ pushes' = pushes + 1
Mishap == mishaps < MaxMishaps /\ mishaps' = mishaps + 1

(* The author date may be any time before the push.                        *)
CommitTo(r, c, age) ==
    /\ Push
    /\ c # latest[r]
    /\ latest' = [latest EXCEPT ![r] = c]
    /\ committed' = [committed EXCEPT ![r] = age]
    /\ UNCHANGED <<deployed, enabled, lastGHCall, lastRequest, ready, turn, asking, mishaps>>

Deploy(d) ==
    /\ Push
    /\ deployed[d] # latest[RepoOf[d]]
    /\ deployed' = [deployed EXCEPT ![d] = latest[RepoOf[d]]]
    /\ UNCHANGED <<latest, committed, enabled, lastGHCall, lastRequest, ready, turn, asking, mishaps>>

Restart ==
    /\ Push
    /\ lastGHCall' = [r \in Repos |-> NoAge] /\ lastRequest' = [r \in Repos |-> NoAge]
    /\ asking' = Nobody
    /\ UNCHANGED <<repoVars, ready, turn, mishaps>>

(***************************************************************************)
(* CheckDeployedVersionIsUpToDate.                                         *)
(***************************************************************************)

(* The controller saves the condition, or the update is lost.              *)
Saves(d, reason) ==
    /\ turn' = Following[d]
    /\ \/ ready' = [ready EXCEPT ![d] = reason] /\ UNCHANGED mishaps
       \/ Mishap /\ UNCHANGED ready

CanIssueAtLimit(age) == age # NoAge => age >= Delay
CanIssueGitHubRequest(age) == age # NoAge => age > Delay

SameKey(d) == RepoOf[CHOOSE e \in Deployments : TRUE]
Key(d) == RepoOf[d]

Disabled(d) ==
    /\ turn = d /\ asking = Nobody
    /\ ~enabled
    /\ Saves(d, "RevisionCheckDisabled")
    /\ UNCHANGED <<repoVars, lastGHCall, lastRequest, asking, pushes>>

(* Too early for another request: the existing condition again.            *)
Throttled(d) ==
    /\ turn = d /\ asking = Nobody
    /\ enabled /\ ~CanIssueGitHubRequest(lastGHCall[Key(d)])
    /\ Saves(d, IF ready[d] = Nobody THEN "OperatorError" ELSE ready[d])
    /\ UNCHANGED <<repoVars, lastGHCall, lastRequest, asking, pushes>>

(* The request is noted, then made.                                        *)
Request(d) ==
    /\ turn = d /\ asking = Nobody
    /\ enabled /\ CanIssueGitHubRequest(lastGHCall[Key(d)])
    /\ lastGHCall' = [lastGHCall EXCEPT ![Key(d)] = 0]
    /\ lastRequest' = [lastRequest EXCEPT ![RepoOf[d]] = 0]
    /\ asking' = d
    /\ UNCHANGED <<repoVars, ready, turn, pushes, mishaps>>

(* getLatestCommit and the comparison, or an error.                        *)
Overdue(d) == committed[RepoOf[d]] > DeploymentThreshold
NotUpToDate(d) == latest[RepoOf[d]] # deployed[d] /\ Overdue(d)

Answer(d) ==
    /\ asking = d
    /\ asking' = Nobody
    /\ \/ Saves(d, IF NotUpToDate(d) THEN "NotUpToDate" ELSE "UpToDate")
       \/ /\ Mishap
          /\ turn' = Following[d]
          /\ ready' = [ready EXCEPT ![d] = "GitHubError"]
    /\ UNCHANGED <<repoVars, lastGHCall, lastRequest, pushes>>

Checks(d) == Disabled(d) \/ Throttled(d) \/ Request(d) \/ Answer(d)

VersionNext ==
    \/ Tick
    \/ \E r \in Repos, c \in Commits, age \in 0 .. Limit : CommitTo(r, c, age)
    \/ \E d \in Deployments : Deploy(d) \/ Checks(d)
    \/ Restart

VersionSpec == VersionInit /\ [][VersionNext]_versionVars

(***************************************************************************)
(* Properties.                                                             *)
(***************************************************************************)

(* The requests of a process for one repository are more than Delay apart, *)
(* failed ones included.                                                   *)
RequestsSpaced ==
    [][\A d \in Deployments :
        asking' = d /\ asking # d =>
            lastRequest[RepoOf[d]] \in {NoAge} \cup (Delay + 1 .. Limit)]_versionVars

(* Once commits and deployments have settled and GitHub answers, every     *)
(* component's condition tells the truth for good: no saved condition is   *)
(* returned for ever, and no component keeps the others from GitHub.       *)
VerdictsConverge ==
    \A d \in Deployments :
        <>[](ready[d] = IF ~enabled THEN "RevisionCheckDisabled"
                        ELSE IF deployed[d] = latest[RepoOf[d]] THEN "UpToDate"
                        ELSE "NotUpToDate")
=============================================================================
