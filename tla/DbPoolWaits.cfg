SPECIFICATION DbUpSpec
CONSTANTS
    t1 = t1
    t2 = t2
    t3 = t3
    c1 = c1
    c2 = c2
    c3 = c3
    Threads <- MCThreads
    Conns <- MCConns
    NoConn = NoConn
    Nobody = Nobody
    PoolSize = 1
    MaxPoolSize = 1
PROPERTY AcquireReturns
