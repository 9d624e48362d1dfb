SPECIFICATION Spec
CONSTANTS
    MaxLine = 14
    MaxKey = 8
    MaxValue = 7
    MaxKeys = 6
    WordLimit <- MCWordLimit
    Noise = 9
    SuffixRoom = 3
    ByteOrder <- MCByteOrder
    Catalogues <- MCCatalogues
    NoCatalogue = NoCatalogue
    Pieces <- MCPieces
    MaxPieces = 3
    MaxChunk = 2
    Damages <- MCDamages
    Probes <- MCProbes
    Half = 6
    Hash <- MCHash
    Mix <- MCMix
    NoValue = NoValue
    IdentifierBytes = {"a", "b", "n", "x"}
    FormIndex <- MCFormIndex
    Counts <- MCCounts
    LongLimit = 1048576
INVARIANTS
    TypeOK
    LinesWhateverTheChunks
    TextSaysTheCatalogue
    MoSaysTheCatalogue
    CompiledSaysTheCatalogue
    CompiledAnswersAsLoaded
    ReadsInside
    EveryCountHasItsForm
