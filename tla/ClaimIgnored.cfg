CONSTANTS
    default = default
    other = other
    Components <- TwoComponents
    Contexts <- OneContext
    Default = default
    Names <- MCNames
    Plain = Plain
    Ids <- OneContextIds
    Keys <- OneContextKeys
    KeyLists <- OneContextLists
    Refusable = {}
    Allowed <- ListedOnly
    BlockShortcut <- MCBlockShortcut
    EveryChordHeard = FALSE
    None = None
SPECIFICATION Spec
PROPERTY IgnoredPressesAreSilent
