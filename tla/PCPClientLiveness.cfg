SPECIFICATION FairSpec
CONSTANTS
    Callers = {c1, c2}
    UserKeys = {k1}
    ProbeKeys = {k1}
    Nonces = {n1, n2}
    Ports = {p1, p2}
    MaxRetries = 2
    MaxInFlight = 1
    Reordering = FALSE
    NoKey = NoKey
    NoNonce = NoNonce
    NoPort = NoPort
    Nobody = Nobody
    Foreign = Foreign
PROPERTIES
    CallReturns
