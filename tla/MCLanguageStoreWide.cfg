CONSTANTS
    k1 = k1
    k2 = k2
    k3 = k3
    short = short
    long = long
    NoText = NoText
    Keys = {k1, k2, k3}
    Values = {short, long}
    Len <- MCLen
    Hash <- MCHash
    MaxKeys = 2
    IndexMax = 7
    SizeMax = 15
    HeapMax = 15
    ArenaStart = 2
    EntryStart = 1
    BucketStart = 1
SPECIFICATION Spec
INVARIANTS
    EveryOffsetFits
