SPECIFICATION Spec
CONSTANTS
    Callers = {c1, c2}
    UserKeys = {k1}
    ProbeKeys = {k2}
    Nonces = {n1, n2, n3}
    Ports = {p1, p2, p3}
    MaxRetries = 2
    MaxInFlight = 2
    Reordering = FALSE
    NoKey = NoKey
    NoNonce = NoNonce
    NoPort = NoPort
    Nobody = Nobody
    Foreign = Foreign
SYMMETRY Symmetry
INVARIANTS
    TypeOK
    IInv
    Serialized
    NoStranded
    HeldIsMapped
PROPERTIES
    DeleteIsTruthful
    ExchangesEnd
    KeepsPromise
