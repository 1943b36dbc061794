SPECIFICATION Spec
CONSTANTS
    Ids = {1}
    NoTarget = NoTarget
    HistoryCap = 2
    MaxMsgs = 2
    MaxOwn = 1
    MaxLogins = 2
    MaxChanges = 2
INVARIANTS ViewIsHistory HistoryExact UnreadExact LabelsTrue
CHECK_DEADLOCK FALSE
CONSTRAINT ShortQueue
