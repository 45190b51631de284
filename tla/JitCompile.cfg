SPECIFICATION FairSpec
CONSTANTS
    t1 = t1  t2 = t2
    outer = outer  inner = inner  pkg = pkg  lost = lost
    Threads = {t1, t2}
    Funcs = {outer, inner, pkg, lost}
    Roots = {outer, inner, lost}
    Calls <- MCCalls
    Uprefs <- MCUprefs
    Links <- MCLinks
    Packed = {pkg}
    Missing = {lost}
    ListSize = 1
    MaxCalls = 2
INVARIANTS
    HandlesValid CodeComplete
PROPERTY
    CompileReturns
