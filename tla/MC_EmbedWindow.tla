--------------------------- MODULE MC_EmbedWindow ---------------------------
EXTENDS EmbedWindow, TLC
CONSTANTS r1, r2
=============================================================================
