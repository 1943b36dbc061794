SPECIFICATION FairSpec
CONSTANTS
    main = main
    io = io
    writer = writer
    Threads = {main, io}
    Main = main
    Writer = writer
    RollSize = 1
    MaxLines = 2
    MaxTime = 1
    Nobody = Nobody
CHECK_DEADLOCK FALSE
INVARIANTS LogInOrder UninitFlushes
PROPERTY QueueDrains
