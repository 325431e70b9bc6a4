CONSTANTS
    Procs = {p1, p2}
    ServiceAccounts = {a}
    Services = {s}
    Others = {o}
    Specs = {s1, s2}
    Labels = {l1}
    IPs = {i1, i2}
    Refs = {r1}
    None = None
    MaxFaults = 1

SPECIFICATION MCSpec
SYMMETRY MCSymmetry
INVARIANT SecretRefsKept
INVARIANT ClusterIPRetained
INVARIANT AnnotationTruthful
INVARIANT ReportsGenerations
