SPECIFICATION Spec
SYMMETRY Symmetry
CONSTANTS
    Callers = {c1, c2}
    Protocols = {udp}
    InternalPorts = {p1, p2}
    ExtPorts = {e1, e2}
    RandomTries = 2
    MaxQueue = 2
    NoKey = NoKey
    NoPort = NoPort
    Nobody = Nobody
    Other = Other
    Locations = {own1, own2, rogue}
    OwnLocations = {own1, own2}
    Targets = 3
    MaxAnswers = 2
    MaxServices = 2
INVARIANTS MappingTypeOK Addressable BestService SearchIsExact
PROPERTIES PortIsTrue KeepsPromise
CHECK_DEADLOCK FALSE
