CONSTANTS
    en = en
    ru = ru
    ruRU = ruRU
    hello = hello
    endless = endless
    endles = endles
    hi = hi
    privet = privet
    Main = Main
    Own = Own
    Catalogs = {Main}
    Default = Main
    Codes = {en, ru}
    TooLong = TooLong
    Blank = Blank
    TheCurrent = TheCurrent
    CodeArgs = {en, ru, NoText, TooLong}
    Trail <- MCTrail
    KeyArgs = {hello, endless}
    Clamped <- MCClamped
    Values = {hi}
    Images <- MCImages
    NoText = NoText
    Nulls = {NoText}
    NoLoad = NoLoad
    MaxLanguages = 1
    MaxKeys = 1
    MaxLines = 2
SPECIFICATION Spec
VIEW MCLoads
INVARIANTS
    TypeOK
    StatsAddUp
PROPERTIES
    LoadReportsItsLosses
