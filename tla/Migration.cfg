CONSTANTS
    Nodes = {a, b}
    Home = a
    Mig = {m1, m2}
    None = None
    Lens = {1}
    MaxFreezes = 2
    MaxRestores = 2
    Policy = "look"
    Faults = {"stage", "dump", "pack", "cut", "slow", "build", "pidfile", "txkill", "rxkill"}
    MaxKinds = 2
SPECIFICATION FairSpec
INVARIANTS OnePlace NotLost Tracked
PROPERTIES KeepsPromise MigrateEnds ReceiverFrees HandsOver
CHECK_DEADLOCK FALSE
