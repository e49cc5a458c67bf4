------------------------- MODULE MCPersistentIndex -------------------------
EXTENDS PersistentIndex

MCRuns == { << <<2, 4, 6, 8, 10>> >>, << <<2, 4, 6, 8, 10>>, <<12, 14, 16>> >> }
MCKeys == 1 .. 17
=============================================================================
