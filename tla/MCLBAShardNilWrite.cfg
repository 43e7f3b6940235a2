CONSTANTS
    h1 = h1
    Nil = Nil
    NilHash = NilHash
    Deleted = Deleted
    Records <- MCRecords
    Hashes <- MCHashes
    InitStored <- MCInitStored
    MaxSets = 3
    MaxFaults = 1

SPECIFICATION Spec


INVARIANT NoRecordOfZeros
