-------------------------- MODULE MCClusterClient --------------------------
(***************************************************************************)
(* Config files for checking ClusterClient: one vdisk, asked for by both  *)
(* callers, whose entry is one of a few storage cluster configs, of which *)
(* some fail loadConfig after it has written part of them, or is missing. *)
(***************************************************************************)
EXTENDS ClusterClient, TLC

CONSTANTS v1, T1, T2, R1, R2, s1, s2, m1

Entry(type, root, data, meta) ==
    [found |-> TRUE, type |-> type, root |-> root, clusterFound |-> TRUE, data |-> data, meta |-> meta]

Good1 == Entry(T1, R1, <<s1, s2>>, m1)
Good2 == Entry(T1, R2, <<s2>>, m1)
\* Fails after writing root, data and numberOfServers.
NoData == Entry(T1, R2, <<>>, m1)
NoMetaData == Entry(T1, R2, <<s2>>, NoMeta)
\* Fails the vdisk type check of a client that loaded T1.
OtherType == Entry(T2, R2, <<s2>>, m1)

FileOf(e) == [readable |-> TRUE, vdisks |-> (v1 :> e)]

MCFiles ==
    {FileOf(e) : e \in {Good1, Good2, NoData, NoMetaData, OtherType, NoEntry}}
    \cup {[readable |-> FALSE, vdisks |-> (v1 :> NoEntry)]}

=============================================================================
