SPECIFICATION Spec
CONSTANTS
    Stale = 226
    MaxDigits = 9
    MaxName <- MCMaxName
    MaxArgument <- MCMaxArgument
    Formatted <- MCFormatted
    Null = Null
    LongLimit = 128
    Templates <- MCTemplates
    Selections <- MCSelections
    MaxFormatters = 2
    MaxCode = 8
    FormatterNames <- MCFormatterNames
    Programs = {"brackets", "twice"}
    MaxSettings = 3
    Keys <- MCKeys
    CountedKeys <- MCCountedKeys
    Counts <- MCCounts
    ArgumentLists <- MCArguments
    Capacities = {0, 1, 4, 8, 40}
    CountedArguments <- MCCountedArguments
    CountedCapacities = {5, 40}
    Locales <- MCLocales
    Environments <- MCEnvironments
    NumberCalls <- MCNumberCalls
    Strings <- MCStrings
    ScriptSubtags <- MCScriptSubtags
    Codes <- MCCodes
    NoCall = NoCall
INVARIANTS
    TypeOK
    ExpansionMeans
    NumbersRoundHalfEven
    OutputIsLongestPrefix
    FormFollowsItsLanguage
    StringsAgree
    ScriptDecides
PROPERTIES
    FormattersByName
    BestMatch
