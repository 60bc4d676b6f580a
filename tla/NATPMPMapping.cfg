SPECIFICATION Spec
CONSTANTS
    Callers = {c1, c2}
    Protocols = {tcp, udp}
    InternalPorts = {p1}
    ExtPorts = {e1, e2}
    RandomTries = 2
    NoKey = NoKey
    NoPort = NoPort
INVARIANT TypeOK
PROPERTIES PortIsTrueUndisturbed KeepsPromise
