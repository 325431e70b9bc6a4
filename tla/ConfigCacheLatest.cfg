CONSTANTS
    Loaders = {g1, g2}
    Nil = Nil
    MaxVersion = 1
    MaxFailures = 0

SPECIFICATION ConfigSpec
SYMMETRY MCLoaders
INVARIANT LoadLatestIsLatest
