CONSTANTS
    default = default
    other = other
    Components <- AppAndComponent
    Contexts <- OneContext
    Default = default
    Names <- AppNames
    Plain = Plain
    Ids <- AppIds
    Keys <- MCKeys
    KeyLists <- AppLists
    Refusable = {}
    Allowed <- AppAllowed
    BlockShortcut <- MCBlockShortcut
    EveryChordHeard = TRUE
    None = None
    Apps <- App
    Desktop <- AppDesktop
    DefaultLists <- AppDefaults
    Switching = FALSE
    Interval = 0
    From <- AppFrom
    FromDefault <- AppFromDefault
    Upgrades <- AppUpgrades
SPECIFICATION SettingsSpec
INVARIANT NoClash
INVARIANT GrabAccounting
INVARIANT OwnersSound
INVARIANT FileIsUpToDate
INVARIANT RemovedAppsHoldNoKeys
INVARIANT ChosenKeysSurviveUpgrades
PROPERTY ShutDownKeepsKeys
