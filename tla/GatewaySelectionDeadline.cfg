SPECIFICATION SelectSpec
CONSTANTS
    Sources = {unicast, natpmp}
    Buffered = {unicast, natpmp}
    Timed = {natpmp}
    MaxOffers = 1
INVARIANTS
    FallbackKept
CHECK_DEADLOCK FALSE
