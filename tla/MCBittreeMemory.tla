--------------------------- MODULE MCBittreeMemory ---------------------------
EXTENDS BittreeMemory
MCStack == 11 .. 12
MCGlobals == 13 .. 14
MCHeap == (7 .. 10) \union (20 .. 23)
=============================================================================
