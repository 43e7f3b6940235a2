CONSTANTS
    JumpHash <- MCJumpHash
    MaxJumpRounds <- MCMaxJumpRounds
    ClusterIDs = {c1, c2}
    NoCluster = NoCluster
    Callers = {r1, r2}
    ObjectIndices = {0, 1}
    Configs <- MCConfigs
    MaxRefUpdates = 2
    MaxCfgUpdates = 1

SPECIFICATION Spec

INVARIANT TypeOK
INVARIANT DialsOnlineServer
INVARIANT WatcherFollowsReference
INVARIANT ServersFollowWatchedCluster
PROPERTY AtomicClusterRefined
