---------------------------- MODULE MC_NodeEvents ----------------------------
EXTENDS NodeEvents, TLC

CONSTANTS r1, r2

MCReceivers == {r1, r2}
=============================================================================
