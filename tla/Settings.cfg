CONSTANTS
    default = default
    other = other
    Components <- TwoComponents
    Contexts <- OneContext
    Default = default
    Names <- OneName
    Plain = Plain
    Ids <- PlainIds
    Keys <- MCKeys
    KeyLists <- PlainLists
    Refusable = {}
    Allowed <- PlainAllowed
    BlockShortcut <- MCBlockShortcut
    EveryChordHeard = TRUE
    None = None
    Apps = {}
    Desktop <- Nowhere
    DefaultLists = {0}
    Switching = TRUE
    Interval = 1
    From <- Nowhere
    FromDefault <- Nowhere
    Upgrades <- NoUpgrades
SPECIFICATION SettingsSpec
PROPERTY ImplementsStore
PROPERTY ChangesReachTheFile
PROPERTY ShutDownLosesNothing
