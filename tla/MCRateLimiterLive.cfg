SPECIFICATION FairSpec
CONSTANTS
    Threads = {t1, t2}
    NoThread = NoThread
    NoWait = NoWait
    Configs <- MCFairConfigs
    MaxWaits <- MCMaxWaits
    TicksPerMs = 2
    ClockMax = 200
    Horizon = 3
    MaxCalls = 4
PROPERTIES AcquireReturns
