------------------------------ MODULE LBAShard ------------------------------
(***************************************************************************)
(* One shard of the LBA index (package lba, part_002): a fixed array of    *)
(* NumberOfRecordsPerLBAShard hashes and a dirty flag, the encoder Write   *)
(* and the decoder shardFromBytes, and the record the meta cluster keeps   *)
(* for the shard.                                                          *)
(*                                                                         *)
(* A Hash is a Go byte slice: a slot holds Nil (the nil slice of an unset  *)
(* slot), NilHash (32 zero bytes) or one of Hashes.  On the wire a record  *)
(* is a sequence of hashes, one element per HashSize bytes.                *)
(*                                                                         *)
(* The shard's caller, the shard store, is not in the source tree: loading *)
(* a record and Flush follow spec 4.5 (a missing record loads as a new     *)
(* shard, Flush writes a dirty shard, a NilShardWrite error becomes a      *)
(* DELETE, a successful write clears dirty).                               *)
(***************************************************************************)
EXTENDS Integers, Sequences, FiniteSets

CONSTANTS
    Records,      \* NumberOfRecordsPerLBAShard
    Hashes,       \* non-zero hashes, as model values
    Nil,          \* the nil slice
    NilHash,      \* the all-zero hash
    Deleted,      \* the meta cluster holds no record for the shard
    InitStored,   \* records the meta cluster may hold at the start
    MaxSets,      \* bound on Set calls
    MaxFaults     \* bound on failed writes to the writer

VARIABLES
    hashes,   \* the shard's hashes: slot -> Nil, NilHash or a hash
    dirty,    \* the shard's dirty flag
    loaded,   \* the shard is in memory
    stored,   \* the meta cluster's record: a sequence of hashes or Deleted
    sets,     \* Set calls so far
    faults    \* failed writes so far

vars == <<hashes, dirty, loaded, stored, sets, faults>>

Slots == 1..Records
Slot == Hashes \cup {Nil, NilHash}

\* newShard: new(shard), every slot nil and not dirty.
NewShard == [s \in Slots |-> Nil]

\* shardFromBytes: too short a record is an error; each HashSize chunk
\* that is not nilHash becomes the slot's hash, the others stay nil.
ShardFromBytes(bytes) ==
    IF Len(bytes) < Records
    THEN [err |-> TRUE, hashes |-> NewShard]
    ELSE [err |-> FALSE,
          hashes |-> [s \in Slots |-> IF bytes[s] # NilHash THEN bytes[s] ELSE Nil]]

\* Write's first loop: the index of the first slot that is not nil, or
\* Records + 1 when every slot is.
FirstNonNil(h) ==
    IF \A s \in Slots : h[s] = Nil
    THEN Records + 1
    ELSE CHOOSE i \in Slots : h[i] # Nil /\ \A j \in 1..(i - 1) : h[j] = Nil

\* A Write that sends a nil slot as it is (mutant).
WriteBytesKeepingNil(h) ==
    [s \in Slots |-> IF s < FirstNonNil(h) THEN NilHash ELSE h[s]]

\* What Write writes: nilHash for each slot before the first non-nil one,
\* then every slot, a nil one as nilHash.
WriteBytes(h) ==
    [s \in Slots |-> IF s < FirstNonNil(h) \/ h[s] = Nil THEN NilHash ELSE h[s]]

\* Write's outcome when the writer fails on its k-th write (k = 0: never):
\* errNilShardWrite when every slot is nil, else the error after the first
\* k - 1 hashes, else the whole record.
Write(h, k) ==
    CASE FirstNonNil(h) = Records + 1 -> [err |-> "nilShard", out |-> <<>>]
      [] k # 0                        -> [err |-> "io", out |-> SubSeq(WriteBytes(h), 1, k - 1)]
      [] OTHER                        -> [err |-> "none", out |-> WriteBytes(h)]

(***************************************************************************)
(* Operations                                                              *)
(***************************************************************************)

\* The store loads the shard: no record gives newShard, a record is given
\* to shardFromBytes, whose error leaves the shard unloaded.
Load ==
    /\ ~loaded
    /\ IF stored = Deleted
       THEN /\ hashes' = NewShard
            /\ loaded' = TRUE
       ELSE /\ hashes' = ShardFromBytes(stored).hashes
            /\ loaded' = ~ShardFromBytes(stored).err
    /\ dirty' = FALSE
    /\ UNCHANGED <<stored, sets, faults>>

\* A Set that does not mark the shard dirty (mutant).
SetWithoutDirty(i, h) ==
    /\ loaded
    /\ sets < MaxSets
    /\ hashes' = [hashes EXCEPT ![i] = h]
    /\ sets' = sets + 1
    /\ UNCHANGED <<dirty, loaded, stored, faults>>

\* Set: the slot takes the hash and the shard becomes dirty.  Delete is
\* Set with nilHash.
Set(i, h) ==
    /\ loaded
    /\ sets < MaxSets
    /\ hashes' = [hashes EXCEPT ![i] = h]
    /\ dirty' = TRUE
    /\ sets' = sets + 1
    /\ UNCHANGED <<loaded, stored, faults>>

\* UnsetDirty
UnsetDirty == dirty' = FALSE

\* Flush of a dirty shard: Write, then PUT the record, or DELETE it on
\* errNilShardWrite; dirty is cleared after either.  A failed write leaves
\* the record and the dirty flag alone.
Flush ==
    /\ loaded /\ dirty
    /\ \E k \in 0..(IF faults < MaxFaults THEN Records ELSE 0) :
         LET r == Write(hashes, k) IN
         CASE r.err = "none"     -> stored' = r.out /\ UnsetDirty /\ UNCHANGED faults
           [] r.err = "nilShard" -> stored' = Deleted /\ UnsetDirty /\ UNCHANGED faults
           [] OTHER              -> faults' = faults + 1 /\ UNCHANGED <<stored, dirty>>
    /\ UNCHANGED <<hashes, loaded, sets>>

\* The store drops a clean shard from memory.
Evict ==
    /\ loaded /\ ~dirty
    /\ loaded' = FALSE
    /\ hashes' = NewShard
    /\ UNCHANGED <<dirty, stored, sets, faults>>

Init ==
    /\ hashes = NewShard
    /\ dirty = FALSE
    /\ loaded = FALSE
    /\ stored \in InitStored
    /\ sets = 0
    /\ faults = 0

Next ==
    \/ Load
    \/ \E i \in Slots, h \in Hashes \cup {NilHash} : Set(i, h)
    \/ Flush
    \/ Evict

Spec == Init /\ [][Next]_vars

(***************************************************************************)
(* Properties                                                              *)
(***************************************************************************)

TypeOK ==
    /\ hashes \in [Slots -> Slot]
    /\ dirty \in BOOLEAN /\ loaded \in BOOLEAN
    /\ stored = Deleted \/ stored \in [1..Len(stored) -> Hashes \cup {NilHash}]
    /\ sets \in 0..MaxSets /\ faults \in 0..MaxFaults

\* A slot's value as the store sees it: nil and nilHash both mean absent.
Absent(h) == h \in {Nil, NilHash}

\* The record the meta cluster holds, read by the layout of spec 4.5 (slot s
\* is the s-th hash of the record, nilHash meaning absent), independently
\* of shardFromBytes.
StoredSlots ==
    [s \in Slots |-> IF stored = Deleted \/ s > Len(stored) THEN Nil ELSE stored[s]]

\* A loaded shard that is not dirty holds what the meta cluster holds, slot
\* by slot, across loads, Sets, failed and successful Flushes and
\* evictions: the dirty flag set by Set (55-58) and cleared only after a
\* successful write, together with Write (64-101) and shardFromBytes
\* (24-40), never lose a Set nor resurrect an old hash.
CleanShardIsStored ==
    (loaded /\ ~dirty) =>
        \A s \in Slots : Absent(hashes[s]) = Absent(StoredSlots[s])
                         /\ (~Absent(hashes[s]) => hashes[s] = StoredSlots[s])

\* Spec 8, the shard write law: a shard whose slots are all nilHash fails
\* Write with NilShardWrite, so the store deletes its record and never
\* keeps a record of zeros (Write, 64-78).
NoRecordOfZeros ==
    stored # Deleted => \E s \in 1..Len(stored) : stored[s] # NilHash
====
