CONSTANTS
    k1 = k1
    k2 = k2
    k3 = k3
    short = short
    long = long
    NoText = NoText
    Keys = {k1, k2, k3}
    Values = {short, long}
    Len <- MCLen
    Hash <- MCHash
    MaxKeys = 2
    IndexMax = 7
    SizeMax = 15
    HeapMax = 7
    ArenaStart = 3
    EntryStart = 3
    BucketStart = 1
SPECIFICATION Spec
INVARIANTS
    TypeOK
    WithinCapacity
    ChainsHoldEveryEntry
    LiveTextIntact
    KeysAreTheirOwn
    TableUncrowded
PROPERTIES
    ReloadingCostsNothing
    IsLanguageMap
