----------------------------- MODULE MCPinning ------------------------------
EXTENDS Pinning

CONSTANTS p1, p2
=============================================================================
