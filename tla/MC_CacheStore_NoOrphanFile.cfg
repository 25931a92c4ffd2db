CONSTANTS
    Urls = {u1, u2}
    Workers = {w1, w2}
    ContentLengths <- MC_ContentLengths
    HeaderLengths <- MC_HeaderLengths
    MessageLength <- MC_MessageLength
    RamMax <- MC_RamMax
    CacheMaxSize <- MC_CacheMaxSize
    SizeBits <- MC_SizeBits
    MaxStores <- MC_MaxStores

SPECIFICATION Spec

INVARIANT NoOrphanFile
CHECK_DEADLOCK FALSE
