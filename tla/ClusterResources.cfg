CONSTANTS
    r1 = r1
    r2 = r2
    spec = spec
    status = status
    N = 2
    Fields = {label, spec, status}
    Label = label
    SpecFields = {spec}
    Values = {ours, theirs}
    Provider = ours
    None = None
    Releases = {r1, r2}
    Template <- MCTemplate
    MaxEdits = 2
    MaxFaults = 1

SPECIFICATION FairSpec
INVARIANT TypeOK
INVARIANT AppliedAsDescribed
INVARIANT RestsOnlyWhenApplied
PROPERTY ManagedSpec
PROPERTY AllApplied
