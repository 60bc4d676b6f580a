SPECIFICATION Spec
CONSTANTS
    Callers = {c1}
    Protocols = {udp}
    InternalPorts = {p1}
    ExtPorts = {e1, e2}
    RandomTries = 2
    NoKey = NoKey
    NoPort = NoPort
PROPERTY PortIsTrue
