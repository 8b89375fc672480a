CONSTANTS
    PoolSize = 2
    DedicatedModes = {"slow"}

SPECIFICATION FairPoolSpec

PROPERTIES
    RunDedicatedReturns

CHECK_DEADLOCK FALSE
