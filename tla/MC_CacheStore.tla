--------------------------- MODULE MC_CacheStore ---------------------------
(* Two workers, one or two URLs, a 40-byte RAM tier (5% = 2 bytes) and an  *)
(* 8-bit size_t, so that both tiers are chosen and a counter can wrap.     *)
EXTENDS CacheStore

MC_ContentLengths == {1, 4}
MC_HeaderLengths == {2, 20}
MC_MessageLength == 1
MC_RamMax == 40
MC_CacheMaxSize == 0
MC_SizeBits == 8
MC_MaxStores == 2
=============================================================================
