SPECIFICATION FairSpec
CONSTANTS
    Configs = {c1, c2}
    None = None
    MaxDuration = 1
    MaxChanges = 1
    MaxFaults = 1
INVARIANTS
    ReadyIsRecent
PROPERTIES
    ConfigConverges
    StatusConverges
    MonitoringStops
