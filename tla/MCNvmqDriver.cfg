\* Two requests on one I/O queue of two, three ring slots, two reconnect
\* attempts allowed after an error.
CONSTANTS
    NQ = 2
    r1 = r1
    r2 = r2
    Req = {r1, r2}
    QueueOf <- Shared
    RingSize = 3
    MaxReconnects = 2
    NoReq = NoReq
SPECIFICATION FairSpec
INVARIANTS   LiveIsThawed OneReconfiguration 
PROPERTIES StartedEnds 
CHECK_DEADLOCK FALSE
