----------------------------- MODULE MCLBAShard -----------------------------
(***************************************************************************)
(* LBAShard with three slots and one non-zero hash.  The meta cluster may  *)
(* start with no record, a record this code wrote, or a truncated record.  *)
(***************************************************************************)
EXTENDS LBAShard

CONSTANTS h1

MCRecords == 3
MCHashes == {h1}
\* No record, <<h1, 0, 0>>, <<0, 0, h1>>, and a truncated record.
MCInitStored == {Deleted, <<h1, NilHash, NilHash>>, <<NilHash, NilHash, h1>>, <<h1, NilHash>>}
====
