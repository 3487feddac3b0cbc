CONSTANTS
    default = default
    other = other
    Components <- TwoComponents
    Contexts <- OneContext
    Default = default
    Names <- MCNames
    Plain = Plain
    Ids <- RefusedIds
    Keys <- OneContextKeys
    KeyLists <- OneContextLists
    Refusable <- RefusedChords
    Allowed <- AllAllowed
    BlockShortcut <- MCBlockShortcut
    EveryChordHeard = FALSE
    None = None
SPECIFICATION Spec
INVARIANT HeldIsNeverStale
