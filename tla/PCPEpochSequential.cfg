SPECIFICATION Spec
CONSTANTS
    Observers = {o1}
    Hz = 2
    W = 64
    MaxTicks = 36
    MaxRestarts = 1
SYMMETRY Symmetry
INVARIANTS
    TypeOK
PROPERTIES
    NoFalseAlarm
    RestartNoticed
CHECK_DEADLOCK FALSE
