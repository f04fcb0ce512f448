CONSTANTS
    acc1 = acc1
    acc2 = acc2
    t1 = t1
    t2 = t2
    NoKey = NoKey
    Account <- MC_Account
    Caller <- MC_Caller
    MaxConfigs <- MC_MaxConfigs

SPECIFICATION Spec

INVARIANT TypeOK
INVARIANT CachedKeyMatchesConfig
INVARIANT ContextKeyMatchesAccount
