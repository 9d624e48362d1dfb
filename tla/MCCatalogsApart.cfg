CONSTANTS
    en = en
    ru = ru
    ruRU = ruRU
    hello = hello
    endless = endless
    endles = endles
    hi = hi
    privet = privet
    Main = Main
    Own = Own
    Catalogs = {Main, Own}
    Default = Main
    Codes = {ru}
    TooLong = TooLong
    Blank = Blank
    TheCurrent = TheCurrent
    CodeArgs = {ru}
    Trail <- MCTrail
    KeyArgs = {hello}
    Clamped <- MCClamped
    Values = {hi}
    Images <- MCImages
    NoText = NoText
    Nulls = {}
    NoLoad = NoLoad
    MaxLanguages = 1
    MaxKeys = 1
    MaxLines = 0
SPECIFICATION Spec
PROPERTIES
    CatalogsApart
