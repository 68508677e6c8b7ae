---------------------------- MODULE MCWhitelist ----------------------------
EXTENDS Whitelist

CONSTANTS p1, p2, r1, r2
=============================================================================
