SPECIFICATION FairSpec
CONSTANTS
    Threads = {t1, t2, t3}
    NoThread = NoThread
    MaxCalls = 6
INVARIANTS LoadsAlone SeesDefinitions OnlyFirstSerialized FastPathStays
PROPERTIES CallsReturn
