CONSTANTS
    Cmds = {c1}
    Sups = {s1}
    Pids = {p1, p2, p3}
    Names = {latest}
    Latest = latest
    None = None
    Net = TRUE
    Uses <- CarefulUses
    Patient = TRUE
    Faults = {}
    CrashPoints = {"build"}
    MaxCrashes = 1
SPECIFICATION Spec
SYMMETRY PidSymmetry
INVARIANTS SingleCopy
