SPECIFICATION FairSpec
CONSTANTS
    t1 = t1
    t2 = t2
    alice = alice
    Threads = {t1, t2}
    Channels = {alice}
    MaxOutages = 2
    MaxMsgs = 2
    MaxPending = 2
    NoCall = NoCall
CHECK_DEADLOCK FALSE
INVARIANTS SubscriptionsMatch ReportedInOrder
PROPERTIES Recovers StopEnds
