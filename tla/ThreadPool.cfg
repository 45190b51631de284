SPECIFICATION FairSpec
CONSTANTS
    wq = wq  serialq = serialq
    MaxWorkers = 3
    Workqs = {wq, serialq}
    Parallel = {wq}
    MaxTasks = 3
    MinTake = 1
    Spins = 0
INVARIANT
    PoolInv
PROPERTIES
    BarrierComplete CallsReturn
