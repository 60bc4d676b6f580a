SPECIFICATION FairSpec
CONSTANTS
    Sources = {multicast, unicast, natpmp}
    Buffered = {unicast, natpmp}
    Timed = {natpmp}
    MaxOffers = 2
INVARIANTS
    TypeOK
    NoSendOnClosed
    NothingLost
PROPERTIES
    CancelEndsAll
    ChannelCloses
CHECK_DEADLOCK FALSE
