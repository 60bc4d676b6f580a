SPECIFICATION Spec
CONSTANTS
    Observers = {o1, o2}
    Hz = 2
    W = 64
    MaxTicks = 8
    MaxRestarts = 0
SYMMETRY Symmetry
PROPERTIES
    NoFalseAlarm
CHECK_DEADLOCK FALSE
