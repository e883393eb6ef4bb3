---------------------------- MODULE MCBoltBuffer ----------------------------
EXTENDS BoltBuffer, MCEvents

CONSTANTS p1, p2
=============================================================================
