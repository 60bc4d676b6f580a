SPECIFICATION FairSpec
CONSTANTS
    Callers = {c1, c2}
    Keys = {k1}
    MaxRestarts = 1
    NoKey = NoKey
    Nobody = Nobody
INVARIANTS
    TypeOK
    NoRestartSwallowed
PROPERTIES
    ReportTruthful
    FailureUndone
    CallsEnd
    CallReturns
    FoundIsUsed
