SPECIFICATION Spec
CONSTANTS
    Callers = {c1, c2}
    UserKeys = {k1}
    ProbeKeys = {k1}
    Nonces = {n1, n2, n3}
    Ports = {p1, p2, p3}
    MaxRetries = 2
    MaxInFlight = 2
    Reordering = FALSE
    NoKey = NoKey
    NoNonce = NoNonce
    NoPort = NoPort
    Nobody = Nobody
    Foreign = Foreign
SYMMETRY Symmetry
INVARIANTS
    HeldIsMapped
