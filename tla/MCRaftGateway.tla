--------------------------- MODULE MCRaftGateway ---------------------------
EXTENDS RaftGateway

CONSTANTS p1, p2, n1, n2

SameClock == {0}

\* raft-{node_id}-term-{term}
RaftIds == Node \X (1..MaxTerm)

\* One gateway beside each node.
TwoHomes == [p \in Process |-> IF p = p1 THEN n1 ELSE n2]

=============================================================================
