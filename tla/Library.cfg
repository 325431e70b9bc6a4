CONSTANTS
    None = None
    MaxLength = 8
    MaxIdentifier = 6
    SignedUp <- MCSignedUp
    ForbiddenUsernamePrefixes <- MCForbiddenPrefixes
    ForbiddenUsernameSuffixes <- MCForbiddenSuffixes
    ConditionTypes = {"Ready", "Other"}
    Statuses = {"True", "False"}
    Reasons = {"a", "b"}
    MaxAge = 1
    MaxConditions = 3
    s1 = s1
    s2 = s2
    s3 = s3
    u1 = u1
    u2 = u2
    Spaces = {s1, s2, s3}
    MasterUserRecords = {u1, u2}
    Roles = {"r"}
    NoSpace = NoSpace
    NoRole = NoRole
    MaxMoves = 2
    MaxErrors = 1
    o1 = o1
    o2 = o2
    o3 = o3
    Goroutines = {g1, g2}
    OwnedObjects = {o1, o2, o3}
    ResourceKinds = {"pod", "crd"}
    KindOf <- MCKindOf
    InitialReferences <- MCReferences
    NoList = NoList
    NoOne = NoOne
    MaxOwnerEdits = 1
    MaxCallErrors = 1
    Deployments = {"host", "registration"}
    Following <- MCFollowing
    RepoOf <- MCRepoOf
    Commits = {"c1", "c2"}
    Delay = 1
    DeploymentThreshold = 1
    NoAge = NoAge
    Nobody = Nobody
    MaxPushes = 2
    MaxMishaps = 1
SPECIFICATION MCSpec
CHECK_DEADLOCK FALSE
INVARIANT DeactivatedExcludes
INVARIANT LastSetterHolds
INVARIANT UsernameCompliant
INVARIANT IdentifierCompliant
INVARIANT StatusAsReported
INVARIANT TransitionTimeOfStatus
INVARIANT NearestBindingWins
INVARIANT OneRolePerUser
INVARIANT OwnersFromTheTop
INVARIANT OneErrorFailsOneCall
PROPERTY ListForSpaceEnds
PROPERTY GetOwnersReturns
PROPERTY RequestsSpaced
PROPERTY VersionVerdictsConverge
