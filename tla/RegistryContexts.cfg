CONSTANTS
    default = default
    other = other
    Components <- TwoComponents
    Contexts <- TwoContexts
    Default = default
    Names <- MCNames
    Plain = Plain
    Ids <- TwoContextIds
    Keys <- TwoContextKeys
    KeyLists <- TwoContextLists
    Refusable = {}
    Allowed <- AllAllowed
    BlockShortcut <- MCBlockShortcut
    EveryChordHeard = TRUE
    None = None
SPECIFICATION Spec
INVARIANT GrabAccounting
INVARIANT OwnersSound
INVARIANT LoopsKeepAccounts
PROPERTY ReleasesEndPresses
