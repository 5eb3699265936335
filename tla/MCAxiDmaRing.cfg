\* Every kind of channel whose submissions fit the ring, a ring of three BDs.
CONSTANTS
    N = 3
    a = a
    b = b
    c = c
    d = d
    IO = {a, b, c, d}
    NoIO = NoIO
    FinLen = 2
    Chans <- FittingChans
SPECIFICATION FairSpec
INVARIANTS RingMatchesHardware ReturnedAfterFinal NeverLost BytesExact
PROPERTIES ImplementsFifo EventuallyReturned
