CONSTANTS
    JumpHash <- MCJumpHash
    MaxJumpRounds <- MCMaxJumpRounds
    ClusterIDs = {c1, c2}
    NoCluster = NoCluster
    Callers = {r1}
    ObjectIndices = {0}
    Configs <- MCConfigs
    MaxRefUpdates = 2
    MaxCfgUpdates = 0

SPECIFICATION Spec

INVARIANT WatcherFollowsReference
