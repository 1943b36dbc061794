SPECIFICATION LSpec
CONSTANTS
    s1 = s1
    s2 = s2
    alice = alice
    a1 = a1
    a2 = a2
    a3 = a3
    Servers = {s1, s2}
    Users = {alice}
    Conns = {a1, a3}
    ServerOf <- MCServerOf
    UserOf <- MCUserOf
    Friends <- MCFriends
    Msgs = {}
    GroupMsgs = {}
    From <- NoMsg
    To <- NoAddressee
    NoConn = NoConn
    NoJob = NoJob
    MaxEnds = 2
    MaxLost = 1
CONSTRAINT NotRaced
CHECK_DEADLOCK FALSE
INVARIANTS NoTrackedGhost PresenceRepaired CleanExit
