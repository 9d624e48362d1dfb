CONSTANTS
    en = en
    ru = ru
    ruRU = ruRU
    hello = hello
    endless = endless
    endles = endles
    hi = hi
    privet = privet
    Main = Main
    Own = Own
    Catalogs = {Main}
    Default = Main
    Codes = {ru}
    TooLong = TooLong
    Blank = Blank
    TheCurrent = TheCurrent
    CodeArgs = {ru, TheCurrent}
    Trail <- MCTrail
    KeyArgs = {hello}
    Clamped <- MCClamped
    Values = {hi}
    Images <- MCImages
    NoText = NoText
    Nulls = {}
    NoLoad = NoLoad
    MaxLanguages = 1
    MaxKeys = 1
    MaxLines = 1
SPECIFICATION Spec
PROPERTIES
    RemovalDeselects
