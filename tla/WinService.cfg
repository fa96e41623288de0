SPECIFICATION FairSpec
CONSTANTS
    Admins = {a1, a2}
    Setup = setup
    NoOne = nobody
    HandlerSleep = 3
    SetupWait = 2
    DeleteWait = 15
    MaxShutdown = 4
INVARIANTS TypeOK ShutdownNotCut ChannelsClosedOnce UnlockedForSetup DeletedWhenStopped
PROPERTIES StopEnds
