SPECIFICATION FairSpec
CONSTANTS
    p1 = p1
    p2 = p2
    Procs = {p1, p2}
    NoProgram = NoProgram
    NoConn = NoConn
    Slots <- MCSlots
    Conns <- MCConns
    Mixes <- MCMixes
    Chunks = 2
    MaxRetries = 1
    Depth = 2
    MaxRuns = 2
INVARIANTS NothingLeftBehind NoWildAccess RunsItsOwn TransferExact AnswerIsMine SuccessIsEarned
PROPERTIES AppsEnd ServerComesBack
CHECK_DEADLOCK FALSE
