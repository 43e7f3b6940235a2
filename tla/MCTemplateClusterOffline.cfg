CONSTANTS
    JumpHash <- MCJumpHash
    MaxJumpRounds <- MCMaxJumpRounds
    ClusterIDs = {c1}
    NoCluster = NoCluster
    Callers = {r1, r2}
    ObjectIndices = {0, 1}
    Configs <- MCOfflineConfigs
    MaxRefUpdates = 2
    MaxCfgUpdates = 1

SPECIFICATION Spec

PROPERTY DoForReturns
