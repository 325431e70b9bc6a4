SPECIFICATION MCSpec
SYMMETRY MCLoaders
CONSTANTS
    K1 = K1
    K2 = K2
    F1 = F1
    N1 = N1
    N2 = N2
    Keys = {K1, K2, F1}
    Own = {K1, K2}
    Names = {N1, N2}
    NameOf <- MCNamesake
    Objects = {Ready}
    ReadyObjects = {Ready}
    RestConfigs = {r1}
    OperatorNamespaces = {ns}
    Users = {u1}
    Worker = worker
    None = None
    MaxChanges = 1
    MaxFaults = 1
    Loaders = {g1, g2}
    Nil = Nil
    MaxVersion = 2
    MaxFailures = 1
INVARIANTS
    QuiescentConsistent
    LookupFindsStable
    ConfigTypeOK
    LoadedTogether
    UndisturbedLoadIsLatest
