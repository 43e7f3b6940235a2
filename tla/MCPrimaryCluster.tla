-------------------------- MODULE MCPrimaryCluster --------------------------
(***************************************************************************)
(* Model values for PrimaryCluster: two storage clusters, two callers,     *)
(* object indices 0..1, cluster configs of one or two servers, each with   *)
(* an online server, one reference change and one config change.          *)
(***************************************************************************)
EXTENDS PrimaryCluster, MCJumpHash

\* A one-server config and a two-server config whose first server is
\* offline: a reload between them shrinks the cluster under a caller and
\* moves object index 0 between the modulo hit and the jump-hash search.
\* The states are written as the strings TemplateCluster's Online and
\* Offline stand for: Configs is also a constant of the instance T, and a
\* value of it taken through T would refer back to Configs.
MCConfigs == {<<"online">>, <<"offline", "online">>}
====
