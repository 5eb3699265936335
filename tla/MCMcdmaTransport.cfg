\* Two tags; two data packets, two source ranges; recv entries for every
\* request object and every packet the host can have outstanding.
CONSTANTS
    t1 = t1
    t2 = t2
    Tag = {t1, t2}
    Depth = 3
    Recvs = 9
    DataPkts = 2
    MaxRanges = 2
    Bufs = 4
    None = None
SPECIFICATION FairSpec
INVARIANTS PoolsConserved   
 
CHECK_DEADLOCK FALSE
