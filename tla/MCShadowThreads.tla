--------------------------- MODULE MCShadowThreads ---------------------------
EXTENDS ShadowThreads
CONSTANTS t1, t2
MCBase(t) == IF t = t1 THEN 14 ELSE 30
=============================================================================
