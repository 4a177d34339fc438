------------------------- MODULE MCGatewayHistory -------------------------
EXTENDS GatewayHistory, TLC

CONSTANTS k1, k2, k3, k4

KeySymmetry == Permutations(Key)

\* The dedup capacity just covers the history, or a restart halves it.
TightLimits == {[frames |-> 2, dedup |-> 2], [frames |-> 1, dedup |-> 2]}

\* A history long enough for a publication to be retained twice.
LongHistory == {[frames |-> 3, dedup |-> 3]}

============================================================================
