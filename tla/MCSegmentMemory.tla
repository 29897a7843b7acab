--------------------------- MODULE MCSegmentMemory ---------------------------
EXTENDS SegmentMemory
MCStack == 1 .. 6
MCGlobals == 8 .. 10
MCHeap == 12 .. 23
MCSafeLocations == {[address |-> 31, length |-> 2, writeable |-> FALSE]}
=============================================================================
