CONSTANTS
    Cmds = {c1}
    Sups = {s1, s2}
    Pids = {p1, p2}
    Names = {latest}
    Latest = latest
    None = None
    Net = TRUE
    Uses <- RestartUses
    Patient = TRUE
    Faults = {"supkill", "earlykill", "spawn", "stage", "dump", "pack", "prep", "engine"}
    CrashPoints <- AllCrashPoints
    MaxCrashes = 1
SPECIFICATION FairSpec
PROPERTIES LabelsResolve CommandsFinish DeathNoticed SweepSparesLive
