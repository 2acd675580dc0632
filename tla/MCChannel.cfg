SPECIFICATION ChannelFairSpec
CONSTANTS
    Threads = {t1, t2, t3}
    Values = {zero, one}
    Zero = zero
    Requested = 2
INVARIANTS
    ChannelTypeOK
    NoLostReceiver
    NoLostSender
PROPERTIES
    ImplementsFifo
    ClosedStaysClosed
    CloseReleases
CHECK_DEADLOCK TRUE
