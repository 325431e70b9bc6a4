CONSTANTS
    Tiers = {t1, t2}
    Kinds = {dev}
    Roles = {admin}
    Params = {p1, p2}
    None = None
    MaxRevision = 3
    MaxEdits = 2
    MaxFaults = 1

SPECIFICATION Spec
SYMMETRY MCSymmetry
INVARIANT RefsResolve
INVARIANT TiersAsDescribed
PROPERTY TemplatesImmutable
