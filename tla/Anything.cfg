CONSTANTS
    Cmds = {c1}
    Sups = {s1}
    Pids = {p1, p2}
    Names = {latest}
    Latest = latest
    None = None
    Net = TRUE
    Uses <- AllUses
    Patient = FALSE
    Faults <- FaultKinds
    CrashPoints <- AllCrashPoints
    MaxCrashes = 1
SPECIFICATION Spec
SYMMETRY PidSymmetry
INVARIANTS TypeOK RestoringRecoverable
CHECK_DEADLOCK FALSE
