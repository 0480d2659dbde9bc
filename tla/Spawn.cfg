CONSTANTS
    Codes = {0, 3, 127}
    Faults <- FaultKinds
SPECIFICATION FairSpec
INVARIANTS TypeOK ReadyBeforeExec HandleHasPid ExitCodeRelayed NothingLeft
PROPERTIES PidArrives NeverStranded EndNoticed
