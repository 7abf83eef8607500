--------------------------- MODULE MCGatewaySession ---------------------------
EXTENDS GatewaySession, TLC
Perms == Permutations(Sessions)
=============================================================================
