\* Two callers filling the cache while the configuration changes.
CONSTANTS
    released = released
    daily = daily
    t1 = t1
    t2 = t2
    Nil = Nil
    Err = Err
    NoCaller = NoCaller
    Stream <- MC_Stream
    Caller <- MC_Caller
    MaxConfigs <- MC_MaxConfigs

SPECIFICATION Spec

PROPERTY CacheFilledOnce
