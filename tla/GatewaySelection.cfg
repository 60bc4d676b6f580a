SPECIFICATION FairSelectSpec
CONSTANTS
    Sources = {multicast, natpmp}
    Buffered = {natpmp}
    Timed = {natpmp}
    MaxOffers = 2
INVARIANTS
    SelectTypeOK
    PCPPreferred
    IndependentIPv6
    NotFoundIsTrue
PROPERTIES
    Returns
    NothingLeaks
CHECK_DEADLOCK FALSE
