CONSTANTS
    Nodes = {a, b}
    Home = a
    Mig = {m1, m2}
    None = None
    Lens = {1, 2}
    MaxFreezes = 2
    MaxRestores = 2
    Policy = "any"
    Faults = {"stage", "dump", "pack", "refused", "token", "junk", "cut", "slow", "unpack", "build", "pidfile", "txkill", "rxkill"}
    MaxKinds = 1
SPECIFICATION Spec
INVARIANT InboxWhole
PROPERTY ReleasedAfterRunning
CHECK_DEADLOCK FALSE
