-------------------------- MODULE MCTemplateCluster --------------------------
(***************************************************************************)
(* Model values for TemplateCluster: two storage clusters, two callers,    *)
(* object indices 0..1, cluster configs of one or two servers.  Configs    *)
(* that shrink from two servers to one make a reload able to invalidate a  *)
(* caller's index; two reference changes reach A -> B -> A.                *)
(***************************************************************************)
EXTENDS TemplateCluster, MCJumpHash

\* Every config keeps an online server: DoFor's search then ends.
MCConfigs == {<<Online>>, <<Online, Online>>, <<Offline, Online>>}

\* A config with no online server.
MCOfflineConfigs == {<<Online>>, <<Offline>>}
=============================================================================
