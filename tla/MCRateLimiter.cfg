SPECIFICATION HSpec
CONSTANTS
    Threads = {t1, t2}
    NoThread = NoThread
    NoWait = NoWait
    Configs <- MCConfigs
    MaxWaits <- MCMaxWaits
    TicksPerMs = 2
    ClockMax = 10
    Horizon = 6
    MaxCalls = 3
INVARIANTS TypeOK AvailableAgrees RateBound OneSleepSuffices
PROPERTIES AskingIsFree ImplementsBucket
SYMMETRY Symmetry
