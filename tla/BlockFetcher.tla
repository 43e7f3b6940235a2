---------------------------- MODULE BlockFetcher ----------------------------
(***************************************************************************)
(* The block fetchers of the backup driver (nbd/ardb/backup,               *)
(* server_driver.go).  sizedBlockFetcher wraps a source fetcher so that    *)
(* the blocks it returns have the destination block size: an inflation     *)
(* fetcher gathers Ratio small source blocks into one big block, a         *)
(* deflation fetcher cuts one big source block into Ratio small ones and   *)
(* leaves out those that are all zeroes, and equal sizes pass the source   *)
(* through.                                                                *)
(*                                                                         *)
(* Block contents are abstracted to the smallest block size: a small       *)
(* block is a token, or Zero for a block of zeroes, and a big block is a   *)
(* function from its slots 0..Ratio-1 to tokens.  Offsets are counted in   *)
(* small blocks.  One consumer calls FetchBlock until io.EOF; each call    *)
(* is one step.  The source is a list of blocks with increasing indices;   *)
(* one of its fetches may fail with an error other than io.EOF, after      *)
(* which the consumer may call FetchBlock again.                           *)
(***************************************************************************)
EXTENDS Integers, Sequences, SequencesExt

CONSTANTS
    Tokens,      \* contents of a small block that is not all zeroes
    Zero,        \* a small block of zeroes
    Ratio,       \* dstBS / srcBS (inflation) or srcBS / dstBS (deflation)
    Sizes,       \* the (srcBS, dstBS) pairs the fetcher may be built with
    Sources,     \* the source streams: sequences of [index, data]
    MaxErrors    \* bound on failed source fetches

ASSUME Ratio \in Nat \ {0, 1}
ASSUME Zero \notin Tokens

SlotsOf == 0..(Ratio - 1)
BigBlocks == [SlotsOf -> Tokens \cup {Zero}]
ZeroBlock == [k \in SlotsOf |-> Zero]

\* sizedBlockFetcher: which fetcher wraps the source.
sizedBlockFetcher(srcBS, dstBS) ==
    IF srcBS < dstBS THEN "inflation"
    ELSE IF srcBS > dstBS THEN "deflation"
    ELSE "source"

\* isNilBlock, of a small block.
isNilBlock(block) == block = Zero

\* The inflation fetcher's cache with output == nil.
NoOutput == [has |-> FALSE, output |-> ZeroBlock, offset |-> 0, prevIndex |-> 0]

VARIABLES
    mode,    \* the fetcher sizedBlockFetcher returned
    src,     \* the source stream
    pos,     \* the source's next block (1-based)
    cache,   \* inflationBlockFetcher.cache; has is output != nil
    cb,      \* deflationBlockFetcher.cb, as the sequence of its small blocks
    cbi,     \* deflationBlockFetcher.cbi
    out,     \* the pairs FetchBlock returned, in order
    eof,     \* FetchBlock returned io.EOF
    errors   \* source fetches that failed

vars == <<mode, src, pos, cache, cb, cbi, out, eof, errors>>

(***************************************************************************)
(* A FetchBlock call.  k is the number of the source fetch, within this    *)
(* call, that fails (0: none fails).  The result is a record of kind       *)
(* "pair", "eof" or "error" with the fetcher's state after the call.       *)
(***************************************************************************)

Emit(o, prev, p) ==
    [kind |-> "pair", pair |-> [index |-> prev \div Ratio, block |-> o],
     cache |-> NoOutput, pos |-> p]

\* Mutant: the gap moves the offset by the whole index delta.
RECURSIVE FillGapOffByOne(_, _, _, _, _)
FillGapOffByOne(o, off, prev, p, k) ==
    IF off >= Ratio THEN Emit(o, prev, p)
    ELSE IF k = 1
         THEN [kind |-> "error", pos |-> p,
               cache |-> [has |-> TRUE, output |-> o, offset |-> off, prevIndex |-> prev]]
    ELSE IF p > Len(src) THEN Emit(o, prev, p)
    ELSE LET b == src[p]
             delta == b.index - prev
             gapOff == IF prev >= 0 /\ delta > 1 THEN off + delta ELSE off
         IN  IF prev >= 0 /\ delta > 1 /\ gapOff >= Ratio
             THEN Emit(o, prev, p + 1)
             ELSE FillGapOffByOne([o EXCEPT ![gapOff] = b.data], gapOff + 1, b.index, p + 1, k - 1)

\* Mutant: a failed fetch drops the output gathered so far.
RECURSIVE FillDroppingCacheOnError(_, _, _, _, _)
FillDroppingCacheOnError(o, off, prev, p, k) ==
    IF off >= Ratio THEN Emit(o, prev, p)
    ELSE IF k = 1 THEN [kind |-> "error", pos |-> p, cache |-> NoOutput]
    ELSE IF p > Len(src) THEN Emit(o, prev, p)
    ELSE LET b == src[p]
             delta == b.index - prev
             gapOff == IF prev >= 0 /\ delta > 1 THEN off + delta - 1 ELSE off
         IN  IF prev >= 0 /\ delta > 1 /\ gapOff >= Ratio
             THEN Emit(o, prev, p + 1)
             ELSE FillDroppingCacheOnError([o EXCEPT ![gapOff] = b.data], gapOff + 1, b.index, p + 1, k - 1)

\* The loop of inflationBlockFetcher.FetchBlock, from offset off.
RECURSIVE Fill(_, _, _, _, _)
Fill(o, off, prev, p, k) ==
    IF off >= Ratio THEN Emit(o, prev, p)
    ELSE IF k = 1
         THEN [kind |-> "error", pos |-> p,
               cache |-> [has |-> TRUE, output |-> o, offset |-> off, prevIndex |-> prev]]
    ELSE IF p > Len(src) THEN Emit(o, prev, p)
    ELSE LET b == src[p]
             delta == b.index - prev
             gapOff == IF prev >= 0 /\ delta > 1 THEN off + delta - 1 ELSE off
         IN  IF prev >= 0 /\ delta > 1 /\ gapOff >= Ratio
             THEN Emit(o, prev, p + 1)
             ELSE Fill([o EXCEPT ![gapOff] = b.data], gapOff + 1, b.index, p + 1, k - 1)

\* inflationBlockFetcher.FetchBlock: a new output is started from the
\* next source block when the cache holds none.
InflationFetch(k) ==
    IF cache.has
    THEN Fill(cache.output, cache.offset, cache.prevIndex, pos, k)
    ELSE IF k = 1 THEN [kind |-> "error", pos |-> pos, cache |-> cache]
    ELSE IF pos > Len(src) THEN [kind |-> "eof", pos |-> pos, cache |-> cache]
    ELSE LET b == src[pos]
             off == b.index % Ratio
         IN  Fill([ZeroBlock EXCEPT ![off] = b.data], off + 1, b.index, pos + 1, k - 1)

\* Mutant: the isNilBlock check is left out.
RECURSIVE SplitKeepingNilBlocks(_, _, _, _)
SplitKeepingNilBlocks(c, i, p, k) ==
    IF c # <<>>
    THEN [kind |-> "pair", pair |-> [index |-> i, block |-> Head(c)],
          cb |-> Tail(c), cbi |-> i + 1, pos |-> p]
    ELSE IF k = 1 THEN [kind |-> "error", cb |-> c, cbi |-> i, pos |-> p]
    ELSE IF p > Len(src) THEN [kind |-> "eof", cb |-> c, cbi |-> i, pos |-> p]
    ELSE SplitKeepingNilBlocks([j \in 1..Ratio |-> src[p].data[j - 1]], src[p].index * Ratio, p + 1, k - 1)

\* Mutant: a skipped nil block does not advance cbi.
RECURSIVE SplitNotCountingNil(_, _, _, _)
SplitNotCountingNil(c, i, p, k) ==
    IF c # <<>>
    THEN IF ~isNilBlock(Head(c))
         THEN [kind |-> "pair", pair |-> [index |-> i, block |-> Head(c)],
               cb |-> Tail(c), cbi |-> i + 1, pos |-> p]
         ELSE SplitNotCountingNil(Tail(c), i, p, k)
    ELSE IF k = 1 THEN [kind |-> "error", cb |-> c, cbi |-> i, pos |-> p]
    ELSE IF p > Len(src) THEN [kind |-> "eof", cb |-> c, cbi |-> i, pos |-> p]
    ELSE SplitNotCountingNil([j \in 1..Ratio |-> src[p].data[j - 1]], src[p].index * Ratio, p + 1, k - 1)

\* The loop of deflationBlockFetcher.FetchBlock: hand out the next small
\* block that is not nil, fetching a big block when cb is used up.
RECURSIVE Split(_, _, _, _)
Split(c, i, p, k) ==
    IF c # <<>>
    THEN IF ~isNilBlock(Head(c))
         THEN [kind |-> "pair", pair |-> [index |-> i, block |-> Head(c)],
               cb |-> Tail(c), cbi |-> i + 1, pos |-> p]
         ELSE Split(Tail(c), i + 1, p, k)
    ELSE IF k = 1 THEN [kind |-> "error", cb |-> c, cbi |-> i, pos |-> p]
    ELSE IF p > Len(src) THEN [kind |-> "eof", cb |-> c, cbi |-> i, pos |-> p]
    ELSE Split([j \in 1..Ratio |-> src[p].data[j - 1]], src[p].index * Ratio, p + 1, k - 1)

DeflationFetch(k) == Split(cb, cbi, pos, k)

\* The source fetcher itself, when the block sizes are equal.
SourceFetch(k) ==
    IF k = 1 THEN [kind |-> "error", pos |-> pos]
    ELSE IF pos > Len(src) THEN [kind |-> "eof", pos |-> pos]
    ELSE [kind |-> "pair", pair |-> [index |-> src[pos].index, block |-> src[pos].data],
          pos |-> pos + 1]

\* The effect of a FetchBlock result on the consumer.
Deliver(r) ==
    /\ pos' = r.pos
    /\ out' = IF r.kind = "pair" THEN Append(out, r.pair) ELSE out
    /\ eof' = (r.kind = "eof")
    /\ errors' = IF r.kind = "error" THEN errors + 1 ELSE errors

\* Failures to inject: none, or the k-th source fetch of this call.
Failures == IF errors < MaxErrors THEN 0..(Ratio + 1) ELSE {0}

FetchBlock(k) ==
    /\ ~eof
    /\ k \in Failures
    /\ \/ /\ mode = "inflation"
          /\ LET r == InflationFetch(k)
             IN  /\ Deliver(r)
                 /\ cache' = r.cache
                 /\ UNCHANGED <<cb, cbi>>
       \/ /\ mode = "deflation"
          /\ LET r == DeflationFetch(k)
             IN  /\ Deliver(r)
                 /\ cb' = r.cb
                 /\ cbi' = r.cbi
                 /\ UNCHANGED cache
       \/ /\ mode = "source"
          /\ Deliver(SourceFetch(k))
          /\ UNCHANGED <<cache, cb, cbi>>
    /\ UNCHANGED <<mode, src>>

\* sizedBlockFetcher and the two constructors: newDeflationBlockFetcher
\* starts with cb nil and cbi -1.
Init ==
    /\ \E s \in Sizes : mode = sizedBlockFetcher(s[1], s[2])
    /\ src \in Sources[mode]
    /\ pos = 1
    /\ cache = NoOutput
    /\ cb = <<>>
    /\ cbi = -1
    /\ out = <<>>
    /\ eof = FALSE
    /\ errors = 0

Next == \E k \in 0..(Ratio + 1) : FetchBlock(k)

Spec == Init /\ [][Next]_vars

(***************************************************************************)
(* Reference definitions (spec 4.6)                                        *)
(***************************************************************************)

\* The data of source block n, Zero when the source has no block n.
DataAt(s, n) ==
    IF \E j \in DOMAIN s : s[j].index = n
    THEN s[CHOOSE j \in DOMAIN s : s[j].index = n].data
    ELSE Zero

\* Inflation: one big block for every span of Ratio source indices that
\* holds a source block, in order, each slot holding the source block of
\* its index, or zeroes where the source has none.
InflateRef(s) ==
    LET spans == SetToSortSeq({s[j].index \div Ratio : j \in DOMAIN s}, <)
    IN  [d \in DOMAIN spans |->
           [index |-> spans[d],
            block |-> [k \in SlotsOf |-> DataAt(s, spans[d] * Ratio + k)]]]

\* Deflation: every small block that is not nil, in order, with the index
\* index * Ratio + slot.
DeflateRef(s) ==
    LET NotNil(pair) == ~isNilBlock(pair.block)
        cut(j) == [k \in 1..Ratio |-> [index |-> s[j].index * Ratio + k - 1,
                                       block |-> s[j].data[k - 1]]]
    IN  FlattenSeq([j \in DOMAIN s |-> SelectSeq(cut(j), NotNil)])

\* The source streams of the spec's inflator law: indices 0..n.
Contiguous(s) == \A j \in DOMAIN s : s[j].index = j - 1

(***************************************************************************)
(* Properties                                                              *)
(***************************************************************************)

OutPairs ==
    [inflation |-> [index: Nat, block: BigBlocks],
     deflation |-> [index: Nat, block: Tokens],
     source    |-> [index: Nat, block: Tokens]]

\* The state of the fetchers, and the pairs FetchBlock returned: a
\* deflation fetcher never returns a nil small block.
TypeOK ==
    /\ mode \in {"inflation", "deflation", "source"}
    /\ pos \in 1..(Len(src) + 1)
    /\ cache.has \in BOOLEAN
    /\ cache.output \in BigBlocks
    /\ cache.offset \in 0..Ratio
    /\ cb \in Seq(Tokens \cup {Zero})
    /\ cbi \in Int
    /\ out \in Seq(OutPairs[mode])
    /\ eof \in BOOLEAN
    /\ errors \in 0..MaxErrors

\* Every slot the inflation fetcher fills holds the source block of that
\* index, however the source indices skip, and the big blocks come in
\* increasing index order (server_driver.go 408 and 432-452: the offset
\* arithmetic over index gaps and over a failed fetch kept in the cache).
InflationSound ==
    mode = "inflation" =>
      /\ \A i \in DOMAIN out, k \in SlotsOf :
           out[i].block[k] # Zero => out[i].block[k] = DataAt(src, out[i].index * Ratio + k)
      /\ \A i \in 1..(Len(out) - 1) : out[i].index < out[i + 1].index

\* The spec's inflator law (4.6): for a source with indices 0..n the
\* inflation fetcher returns, call by call, the big blocks of the source
\* in order, and all of them before io.EOF, also when a fetch failed.
InflationConservation ==
    (mode = "inflation" /\ Contiguous(src)) =>
      /\ IsPrefix(out, InflateRef(src))
      /\ eof => out = InflateRef(src)

\* Spec 4.6 for any source: when the next source index crosses into a new
\* destination span the current big block is returned and a new one
\* begins, so every source block ends up in some returned block.
InflationMatchesSpec ==
    mode = "inflation" =>
      /\ IsPrefix(out, InflateRef(src))
      /\ eof => out = InflateRef(src)

\* The spec's deflator law (4.6): the deflation fetcher returns the small
\* blocks that are not all zeroes, in order, with index index*Ratio+slot,
\* skipping nil ones without losing count, also when a fetch failed.
DeflationConservation ==
    mode = "deflation" =>
      /\ IsPrefix(out, DeflateRef(src))
      /\ eof => out = DeflateRef(src)
=============================================================================
