CONSTANTS
    default = default
    Components = {"kmail"}
    Contexts = {default}
    Default = default
    Names = {"open", "send"}
    Plain = "Plain"
    Ids <- ChordIds
    Keys <- ChordKeys
    KeyLists <- ChordLists
    Refusable = {}
    Allowed <- ChordAllowed
    BlockShortcut = BlockShortcut
    EveryChordHeard = TRUE
    None = None
    Syms <- ChordSyms
    MaxBuffer = 1
SPECIFICATION FairKeySpec
INVARIANT HeldWhileDown
PROPERTY PressesAreReleased
