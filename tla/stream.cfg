SPECIFICATION Spec
CONSTANTS
    InitialSize = 3
    Absent = Absent
    Plan <- Plans
INVARIANTS TypeOK Contained ReadBack InStep
CHECK_DEADLOCK FALSE
