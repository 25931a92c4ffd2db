------------------------- MODULE MC_CacheFreshness -------------------------
(* Small instance of CacheFreshness: a 5-second window starting at t = 20, *)
(* so that a Last-Modified of 0 gives a heuristic max-age of 2.             *)
EXTENDS CacheFreshness

MC_Base == 20
MC_MaxTime == 24
\* -1: no CacheTO in the configuration; 0 and 2: configured values
MC_CacheTimeouts == {-1, 0, 2}
MC_DEFAULT_TIMEOUT == 3
MC_Day == 2
MC_MaxAges == {-1, 1, 3}
MC_LastMods == {-1, 0}
MC_ExpiresVals == {-1, 22}
MC_ContentLengths == {1, 2}
MC_ReqMaxAges == {-1, 1}
MC_ReqMinFresh == {-1, 1}
MC_ReqMaxStale == {-1, 2}
\* For the Expires run: no CacheTO and no response max-age, so that no
\* stored max-age comes from storeResponse's first branch; a Last-Modified
\* 20 s ahead of the clock (an origin whose clock runs ahead) makes the
\* heuristic max-age negative.
MC_CacheTimeoutsNone == {-1}
MC_MaxAgesAbsent == {-1}
MC_LastModsAhead == {-1, 40}
=============================================================================
