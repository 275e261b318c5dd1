SPECIFICATION HSpec
CONSTANTS
    Threads = {t1, t2}
    NoThread = NoThread
    NoWait = NoWait
    Configs <- MCGiveUpConfigs
    MaxWaits <- MCGiveUpWaits
    TicksPerMs = 2
    ClockMax = 10
    Horizon = 6
    MaxCalls = 3

PROPERTIES PunctualGiveUp
SYMMETRY Symmetry
