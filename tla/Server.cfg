\* Four threads on at most two database connections; two users on three
\* sockets; messages of up to one byte over the limit, with a byte in base 4
CONSTANTS
    t1 = t1
    t2 = t2
    t3 = t3
    t4 = t4
    d1 = d1
    d2 = d2
    d3 = d3
    Threads = {t1, t2, t3, t4}
    Conns = {d1, d2, d3}
    NoConn = NoConn
    Nobody = Nobody
    PoolSize = 1
    MaxPoolSize = 2
    c1 = c1
    c2 = c2
    c3 = c3
    alice = alice
    bob = bob
    Sockets = {c1, c2, c3}
    Users = {alice, bob}
    NoSocket = NoSocket
    NoUser = NoUser
    Base = 4
    HeaderSize = 3
    Limit = 4
    Bodies <- MCBodies
    MaxSends = 2
SPECIFICATION MCSpec
CONSTRAINTS ThreePairs TwoHandlers
SYMMETRY MCSymmetry
INVARIANTS
    ConnExclusive PoolBound BorrowLedger NoStrandedConn
    SessionTableSound SessionHeld
    FramesExact
