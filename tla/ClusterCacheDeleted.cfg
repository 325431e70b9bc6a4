SPECIFICATION Spec
CONSTANTS
    K1 = K1
    K2 = K2
    F1 = F1
    N1 = N1
    N2 = N2
    Keys = {K1}
    Own = {K1}
    Names = {N1}
    NameOf <- MCOneName
    Objects = {Ready}
    ReadyObjects = {Ready}
    RestConfigs = {r1}
    OperatorNamespaces = {ns}
    Users = {u1}
    Worker = worker
    None = None
    MaxChanges = 1
    MaxFaults = 0
INVARIANTS
    DeletedIsUncached
