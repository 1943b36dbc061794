SPECIFICATION HSpec
CONSTANTS
    s1 = s1
    s2 = s2
    alice = alice
    bob = bob
    carol = carol
    a1 = a1
    a2 = a2
    a3 = a3
    b1 = b1
    m1 = m1
    m2 = m2
    Servers = {s1}
    Users = {alice, bob}
    Conns = {a1, b1}
    ServerOf <- OnOne
    UserOf <- MCUserOf
    Friends <- NoFriends
    Msgs = {m1, m2}
    GroupMsgs = {}
    From <- FromBob
    To <- ToAlice
    NoConn = NoConn
    NoJob = NoJob
CHECK_DEADLOCK FALSE
CONSTRAINT NoShutdown
PROPERTY StoredUntilDelivered
