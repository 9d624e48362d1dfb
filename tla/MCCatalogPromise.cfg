CONSTANTS
    en = en
    ru = ru
    ruRU = ruRU
    hello = hello
    endless = endless
    endles = endles
    hi = hi
    privet = privet
    Main = Main
    Own = Own
    Catalogs = {Main}
    Default = Main
    Codes = {ru, ruRU}
    TooLong = TooLong
    Blank = Blank
    TheCurrent = TheCurrent
    CodeArgs = {ru, ruRU}
    Trail <- MCTrail
    KeyArgs = {hello}
    Clamped <- MCClamped
    Values = {hi, privet}
    Images <- MCImages
    NoText = NoText
    Nulls = {}
    NoLoad = NoLoad
    MaxLanguages = 2
    MaxKeys = 1
    MaxLines = 1
SPECIFICATION Spec
VIEW MCShown
INVARIANTS
    CodesUnique
    SelectionExists
    CompiledStaysWhole
PROPERTIES
    KeepsPromise
