CONSTANTS
    JumpHash <- MCJumpHash
    MaxJumpRounds <- MCMaxJumpRounds
    ClusterIDs = {c1}
    NoCluster = NoCluster
    Callers = {r1}
    ObjectIndices = {0}
    Configs <- MCConfigs
    MaxRefUpdates = 2
    MaxCfgUpdates = 1

SPECIFICATION Spec

INVARIANT DetachedHasNoServers
