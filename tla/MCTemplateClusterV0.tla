------------------------- MODULE MCTemplateClusterV0 -------------------------
(***************************************************************************)
(* Model values for TemplateClusterV0: configs of one or two servers, each *)
(* with an online server.                                                  *)
(***************************************************************************)
EXTENDS TemplateClusterV0, MCJumpHash

MCConfigs == {<<Online>>, <<Online, Online>>, <<Offline, Online>>}
=============================================================================
