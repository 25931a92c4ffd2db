CONSTANTS
    Base <- MC_Base
    MaxTime <- MC_MaxTime
    CacheTimeouts <- MC_CacheTimeoutsNone
    DEFAULT_TIMEOUT <- MC_DEFAULT_TIMEOUT
    Day <- MC_Day
    MaxAges <- MC_MaxAgesAbsent
    LastMods <- MC_LastModsAhead
    ExpiresVals <- MC_ExpiresVals
    Etags = {e1, e2}
    ContentLengths <- MC_ContentLengths
    ReqMaxAges <- MC_ReqMaxAges
    ReqMinFresh <- MC_ReqMinFresh
    ReqMaxStale <- MC_ReqMaxStale

SPECIFICATION Spec

PROPERTY FreshServeWithinLifetime
