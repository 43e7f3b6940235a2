CONSTANTS
    JumpHash <- MCJumpHash
    MaxJumpRounds <- MCMaxJumpRounds
    ClusterIDs = {c1, c2}
    NoCluster = NoCluster
    Callers = {r1, r2}
    ObjectIndices = {0, 1}
    Configs <- MCConfigs
    MaxRefUpdates = 1
    MaxCfgUpdates = 1

SPECIFICATION Spec

\* A panic ends the process.
CHECK_DEADLOCK FALSE

INVARIANT TypeOK
INVARIANT PanicOnlyAfterClose
INVARIANT DialsOnlineServer
PROPERTY AtomicClusterRefined
PROPERTY DoReturns
