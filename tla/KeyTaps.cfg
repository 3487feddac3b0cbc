CONSTANTS
    default = default
    Components = {"kmail"}
    Contexts = {default}
    Default = default
    Names = {"open", "send"}
    Plain = "Plain"
    Ids <- TapIds
    Keys <- TapKeys
    KeyLists <- TapLists
    Refusable = {}
    Allowed <- TapAllowed
    BlockShortcut = BlockShortcut
    EveryChordHeard = TRUE
    None = None
    Syms <- TapSyms
    MaxBuffer = 1
SPECIFICATION KeySpec
INVARIANT KeyTypeOK
INVARIANT PendingTapIsHeld
PROPERTY TapsAreClean
PROPERTY ImplementsRegistry
