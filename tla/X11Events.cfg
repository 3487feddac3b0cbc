CONSTANTS
    default = default
    Components = {"kmail"}
    Contexts = {default}
    Default = default
    Names = {"open"}
    Plain = "Plain"
    Ids <- MCIds
    Keys <- MCKeys
    KeyLists <- MCLists
    Refusable <- MCRefusable
    Allowed <- MCAllowed
    BlockShortcut = BlockShortcut
    EveryChordHeard = TRUE
    None = None
    Syms <- MCSyms
    MaxBuffer = 1
    Assigned <- MCAssigned
    MaxUnread = 4
SPECIFICATION X11Spec
INVARIANT ReleaseIsToCome
PROPERTY X11TapsAreClean
