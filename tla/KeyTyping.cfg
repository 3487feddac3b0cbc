CONSTANTS
    Pool <- MCPool
    Typeable <- MCTypeable
    MaxTaken = 2
    MaxTyped = 6
SPECIFICATION Spec
INVARIANT TypeOK
INVARIANT TriggersWhatWasTyped
INVARIANT NoDeadKey
INVARIANT RefusalsAreJustified
INVARIANT QueryErrsOnlyOnCodes
CHECK_DEADLOCK FALSE
