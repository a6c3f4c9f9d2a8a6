\* Two readers of /log, two goroutines that broadcast, a channel of two: a
\* reader that does not read loses the third message.
CONSTANTS
    p1 = p1
    p2 = p2
    Handlers = {h1, h2}
    Producers = {p1, p2}
    Leavers = {h1}
    None = None
    Cap = 2
    MaxMsgs <- MCMaxMsgs
SPECIFICATION FairSpec
INVARIANTS
    TypeOK
    NoSendOnClosed
    OwnSubscription
    NoCollateralLoss
PROPERTIES
    ImplementsLogStream
    BroadcastReturns
    GoneReaderLeaves
CHECK_DEADLOCK FALSE
