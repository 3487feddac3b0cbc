CONSTANTS
    default = default
    other = other
    Components <- TwoComponents
    Contexts <- OneContext
    Default = default
    Names <- MCNames
    Plain = Plain
    Ids <- OneContextIds
    Keys <- OneContextKeys
    KeyLists <- OneContextLists
    Refusable = {}
    Allowed <- AllAllowed
    BlockShortcut <- MCBlockShortcut
    EveryChordHeard = FALSE
    None = None
SPECIFICATION Spec
INVARIANT TypeOK
INVARIANT NoClash
INVARIANT ActiveShortcutsOwnTheirKeys
INVARIANT HeldIsActive
INVARIANT HeldIsOwed
