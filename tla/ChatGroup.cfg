SPECIFICATION HSpec
CONSTANTS
    s1 = s1
    s2 = s2
    alice = alice
    bob = bob
    carol = carol
    a1 = a1
    a2 = a2
    a3 = a3
    b1 = b1
    m1 = m1
    m2 = m2
    Servers = {s1, s2}
    Users = {alice, bob, carol}
    Conns = {a1, a3, b1}
    ServerOf <- OnTwo
    UserOf <- MCUserOf
    Friends <- AliceAndBob
    Msgs = {m1}
    GroupMsgs = {m1}
    From <- FromBob
    To <- ToGroup
    NoConn = NoConn
    NoJob = NoJob
CHECK_DEADLOCK FALSE
CONSTRAINT OneLogin
INVARIANTS ExactlyOnce FriendViewCurrent
