CONSTANTS
    JumpHash <- MCJumpHash
    MaxJumpRounds <- MCMaxJumpRounds
    Configs <- MCConfigs
    ObjectIndices <- MCObjectIndices
    Actions = {a1, a2}
    PairLengths = {0, 2, 3}

SPECIFICATION Spec

INVARIANT TypeOK
INVARIANT RoutingTotalOnBuiltCluster
INVARIANT DoForAllMatchesDoFor
