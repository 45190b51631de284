SPECIFICATION FairSpec
CONSTANTS
    p1 = p1  p2 = p2
    top = top  pkg = pkg
    entity = entity
    Procs = {p1, p2}
    Units = {top, pkg}
    Kinds = {entity}
    Deps <- MCDeps
    MaxOps = 3  MaxTime = 2  MaxCrashes = 1
    None = None  Torn = Torn

     
PROPERTY
    CallsReturn
