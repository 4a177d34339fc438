----------------------------- MODULE MCPgFailover -----------------------------
EXTENDS PgFailover, TLC

CONSTANTS c1, c2, b1

ControllerSymmetry == Permutations({c1, c2})
=============================================================================
