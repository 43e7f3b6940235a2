------------------------------ MODULE MCCluster ------------------------------
(***************************************************************************)
(* Model values for Cluster: clusters of one to three servers in every     *)
(* state, object indices 0..2 (enough to reach the jump-hash search past   *)
(* a RIP server at the modulo position), and the real jump consistent      *)
(* hash for up to four buckets.                                            *)
(***************************************************************************)
EXTENDS Cluster, MCJumpHash

MCConfigs == UNION {[1..n -> ServerStates] : n \in 1..3}
MCObjectIndices == 0..2
=============================================================================
