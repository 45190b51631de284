SPECIFICATION FairSpec
CONSTANTS
    t1 = t1  t2 = t2  a = a  b = b  c = c  d = d  x = x  y = y  z = z
    old = old  new = new
    Threads = {t1, t2}
    Keys = {a, b, c, d, x, y, z}
    Values = {old, new}
    HashOf <- MCHashOf
    Used = {x, y, z}
    Preloaded = {a, b, c, d}
    InitialValue = old
    InitialSize = 8
    Asserts = TRUE
    Serialised = TRUE
    MaxCalls = 2
    NULL = NULL
    KeyHash <- MCKeyHash
    TableSize = 4
    MaxOps = 5
CHECK_DEADLOCK FALSE
INVARIANTS
    RoomLeft TablesRight
PROPERTIES
    ImplementsMap CallsReturn
