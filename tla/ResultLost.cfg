CONSTANTS
    Nodes = {a, b}
    Home = a
    Mig = {m1}
    None = None
    Lens = {1}
    MaxFreezes = 1
    MaxRestores = 2
    Policy = "advice"
    Faults = {"cut"}
    MaxKinds = 1
SPECIFICATION Spec
INVARIANT NeverTwice
CHECK_DEADLOCK FALSE
