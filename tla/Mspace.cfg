SPECIFICATION FairSpec
CONSTANTS
    t1 = t1  t2 = t2
    Threads = {t1, t2}
    Main = t1
    Allocators = {t1, t2}
    WordBits = 3
    MaxBits = 8
    LineWords = 2
    MaxLines = 3
    Sizes = {1, 2}
    Junk <- MCJunk
    TlabUsers = {t1}
    TlabWords = 1
    MaxAllocs = 3
INVARIANTS
    WorldStopped HeapSound MasksRight
PROPERTY
    AllocReturns
