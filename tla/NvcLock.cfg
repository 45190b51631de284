SPECIFICATION FairSpec
CONSTANTS
  Threads = {t1, t2, t3}
  l1 = l1
  l2 = l2
  b1 = b1
  Locks <- MCLocks
  Bays <- MCBays
  BayOf <- MCBayOf
  LockSpins = 1
  NoThread = NoThread
INVARIANT
    IInv
PROPERTIES
    ParkedThreadsWake 
