CONSTANTS
    root = root
    a = a
    b = b
    c = c
    h1 = h1
    h2 = h2
    Workers = {w1, w2}
    Hashes = {h1, h2}
    DirOf <- MCDirOf
    InitDirs <- MCInitDirs
    MaxCalls = 2
    MaxFaults = 1

SPECIFICATION Spec

\* Every worker stops after MaxCalls calls, and an aborted process stops.
CHECK_DEADLOCK FALSE

INVARIANT ConcurrentStoresDoNotInterfere
