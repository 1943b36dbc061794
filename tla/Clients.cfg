SPECIFICATION MCSpec
CONSTANTS
    alice = alice
    bob = bob
    Accounts = {alice, bob}
    NoOne = NoOne
    MaxPending = 2
    Users = {alice, bob}
    NoUser = NoUser
    Has <- MCHas
    MaxUnderway = 3
CHECK_DEADLOCK FALSE
INVARIANTS StatusAndTimers SemaphoreMatched SentAsServed
PROPERTIES KeepsPromise BackOnline AnswerWakes
