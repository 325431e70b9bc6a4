SPECIFICATION FairSpec
CONSTANTS
    K1 = K1
    K2 = K2
    F1 = F1
    N1 = N1
    N2 = N2
    Keys = {K1}
    Own = {K1}
    Names = {N1}
    NameOf <- MCOneName
    Objects = {Ready}
    ReadyObjects = {Ready}
    RestConfigs = {r1, r2}
    OperatorNamespaces = {ns}
    Users = {u1}
    Worker = worker
    None = None
    MaxChanges = 2
    MaxFaults = 0
INVARIANTS
    TypeOK
    ClientMatchesConfig
    LockDiscipline
PROPERTIES
    LookupReturns
    EventuallyCached
