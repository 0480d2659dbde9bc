CONSTANTS
    Readers = {r1}
    Absent = Absent
    MaxDumps = 2
    MaxLog = 2
SPECIFICATION Spec
INVARIANTS UnpacksOnePack TornRejected RoundTrip
CHECK_DEADLOCK FALSE
