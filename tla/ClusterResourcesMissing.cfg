CONSTANTS
    r1 = r1
    r2 = r2
    spec = spec
    status = status
    N = 1
    Fields = {label, spec, status}
    Label = label
    SpecFields = {spec}
    Values = {ours, theirs}
    Provider = ours
    None = None
    Releases = {r1, r2}
    Template <- MCTemplate
    MaxEdits = 1
    MaxFaults = 0

SPECIFICATION FairSpec
PROPERTY MissingIsCreated
