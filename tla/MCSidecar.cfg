SPECIFICATION FairSpec
CONSTANTS
    b1 = b1
    b2 = b2
    b3 = b3
    localhost = localhost
    lan = lan
    Null = Null
    Backends <- MCBackends
    Modes <- MCModes
    DefaultMode = localhost
    Tasks <- MCTasks
    MaxRestarts = 2
    MaxCommands = 2
    MaxFaults = 1
CHECK_DEADLOCK FALSE
INVARIANTS
    TypeOK
    ReadyIsWatched
    ExposureInForce
PROPERTIES
    ReadyIsServed
