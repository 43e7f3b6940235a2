--------------------------- MODULE MCBlockFetcher ---------------------------
(***************************************************************************)
(* Source streams for checking BlockFetcher: every stream with increasing *)
(* indices over a small index range, with any contents.                   *)
(***************************************************************************)
EXTENDS BlockFetcher, FiniteSets

CONSTANTS A, B

MCTokens == {A, B}

\* The stream of the indices in S, in increasing order, with contents f.
Stream(S, f) ==
    LET idx == SetToSortSeq(S, <)
    IN  [j \in 1..Cardinality(S) |-> [index |-> idx[j], data |-> f[idx[j]]]]

StreamsOver(indices, contents) ==
    UNION {{Stream(S, f) : f \in [S -> contents]} : S \in SUBSET indices}

\* Small source blocks over two spans of four; big source blocks over two
\* indices; equal sizes over two indices.
MCSources ==
    [inflation |-> StreamsOver(0..5, MCTokens),
     deflation |-> StreamsOver(0..1, BigBlocks),
     source    |-> StreamsOver(0..1, MCTokens)]

MCSizes == {<<1, 4>>, <<4, 1>>, <<4, 4>>}
=============================================================================
