CONSTANTS
    Cmds = {c1}
    Sups = {s1, s2}
    Pids = {p1, p2, p3}
    Names = {latest, other}
    Latest = latest
    None = None
    Net = TRUE
    Uses <- SweepFirstUses
    Patient = TRUE
    Faults = {"slowsup", "supkill", "stage", "dump", "reject", "unpack", "prep", "engine", "build"}
    CrashPoints <- SafeCrashPoints
    MaxCrashes = 2
SPECIFICATION Spec
SYMMETRY PidSymmetry
INVARIANTS SingleCopy Tracked Restorable NoLeak FrozenNotStopped
