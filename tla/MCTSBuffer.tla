----------------------------- MODULE MCTSBuffer -----------------------------
EXTENDS TSBufferOrder, MCEvents

CONSTANTS p1, p2
=============================================================================
