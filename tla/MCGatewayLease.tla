--------------------------- MODULE MCGatewayLease ---------------------------
EXTENDS GatewayLease

CONSTANTS p1, p2

\* Hosts whose clocks are right, or one tick off either way.
OffByOne  == {-1, 0, 1}

=============================================================================
