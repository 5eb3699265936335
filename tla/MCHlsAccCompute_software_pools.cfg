CONSTANTS
    A = A
    B = B
    a1 = a1
    b1 = b1
    r1 = r1
    r2 = r2
    r3 = r3
    rx1 = rx1
    rx2 = rx2
    tx1 = tx1
    tx2 = tx2
    Req = {r1, r2, r3}
    Type = {A, B}
    Op = {a1, b1}
    TypeOf <- OneOfEach
    TxCh = {tx1, tx2}
    RxCh = {rx1, rx2}
    SwPrograms <- OnA
    SwThreads = 1
    VO = VO
    Null = Null
    Loads <- MaySoftware
SPECIFICATION Spec
INVARIANTS PoolsHoldChannels
CHECK_DEADLOCK FALSE
