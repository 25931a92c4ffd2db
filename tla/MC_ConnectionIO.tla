---------------------------- MODULE MC_ConnectionIO ----------------------------
EXTENDS ConnectionIO

MC_MAX_DATA_SIZE == 2
MC_MaxIncoming == 3
MC_Lengths == {1, 3}
MC_SndBuf == 2
MC_MaxReads == 3
================================================================================
