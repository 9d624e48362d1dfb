CONSTANTS
    Absent = Absent
    t1 = t1
    t2 = t2
    t3 = t3
    new = new
    Threads = {t1, t2, t3}
    Shards = 2
    Words = 2
    Contents = {Absent, new}
    NoCall = NoCall
    NoAnswer = NoAnswer
    Nobody = Nobody
SPECIFICATION Spec
INVARIANTS
    TypeOK
    WriterExcludesEveryone
    CopiesAreWhole
    ShardsSpread
    ErrorsAreOnesOwn
PROPERTIES
    CallsAreAtomic
