----------------------------- MODULE MCJumpHash -----------------------------
(***************************************************************************)
(* The real jump consistent hash for up to four buckets, as a table: TLC's *)
(* integers cannot hold the 64-bit LCG of the vendored jumphash package.   *)
(***************************************************************************)
EXTENDS Integers

\* jumphash.Hash(key, n) for n in 1..4 and key in 0..15 (Lamping-Veach,
\* 64-bit LCG and float64 division, as the vendored package computes it).
JumpTable ==
    << <<0, 0, 0, 0, 0, 0, 0, 0, 0, 0, 0, 0, 0, 0, 0, 0>>,
       <<0, 0, 0, 0, 1, 1, 1, 0, 0, 0, 1, 1, 1, 0, 0, 0>>,
       <<0, 0, 0, 2, 1, 1, 2, 0, 0, 2, 2, 2, 1, 0, 0, 0>>,
       <<0, 0, 3, 3, 1, 1, 2, 0, 0, 2, 2, 2, 1, 0, 0, 3>> >>

MCJumpHash(key, n) == JumpTable[n][key + 1]

\* Up to seven rounds reach every bucket from keys 0..3 when n <= 4.
MCMaxJumpRounds == 8
=============================================================================
