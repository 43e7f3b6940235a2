CONSTANTS
    v1 = v1
    T1 = T1
    T2 = T2
    R1 = R1
    R2 = R2
    s1 = s1
    s2 = s2
    m1 = m1
    Vdisks = {v1}
    NoVdisk = NoVdisk
    Callers = {c1, c2}
    Files <- MCFiles
    MaxEdits = 2
    MaxSignals = 1

SPECIFICATION Spec

\* Once every caller is done and the context is never cancelled, the
\* factory's Listen waits for requests for ever: the process is idle.
CHECK_DEADLOCK FALSE

INVARIANT TypeOK
INVARIANT LoadedConfigWhole
PROPERTY NewClientReturns
