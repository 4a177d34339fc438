------------------------------ MODULE RmwLedger ------------------------------
(***************************************************************************)
(* The writer's side of a reliable stream of rmw_fleetqox_cpp: the         *)
(* retransmit ledger that publish_payload fills and bounds, and what an    *)
(* acknowledgement does to it.  One publisher with one key instance, no    *)
(* lifespan.  Every operator runs under g_bus_mutex in the code.           *)
(***************************************************************************)
EXTENDS Integers, FiniteSets

CONSTANTS
  Readers,  \* reliable subscriptions of the topic, by endpoint id
  MaxSeq,   \* bound: samples published
  Depth     \* KEEP_LAST depth: entries the ledger keeps for the publisher

ASSUME RmwBounds == MaxSeq \in Nat /\ Depth \in Nat \ {0}

Seqs == 1 .. MaxSeq

VARIABLES
  next,          \* next_source_sequence
  ledger,        \* sequences in g_retransmit_ledger
  pending,       \* pending_subscriber_ids of each entry
  acknowledged,  \* entries whose acknowledged flag is set
  credited       \* history: the samples each reader was taken off the list of

ledgerVars == <<next, ledger, pending, acknowledged, credited>>

LedgerTypeOK ==
  /\ next \in 1 .. MaxSeq + 1
  /\ ledger \subseteq 1 .. next - 1
  /\ pending \in [Seqs -> SUBSET Readers]
  /\ acknowledged \subseteq ledger
  /\ credited \in [Readers -> SUBSET Seqs]

LedgerInit ==
  /\ next = 1
  /\ ledger = {}
  /\ pending = [s \in Seqs |-> {}]
  /\ acknowledged = {}
  /\ credited = [r \in Readers |-> {}]

\* The n newest sequences of S.
Newest(S, n) == {s \in S : Cardinality({t \in S : t > s}) < n}

AddToLedger_StaleFlag(M) ==
  /\ next <= MaxSeq
  /\ ledger' = Newest(ledger \ acknowledged, Depth - 1) \cup {next}
  /\ pending' = [s \in Seqs |-> IF s = next THEN M
                                ELSE IF s \in ledger' THEN pending[s] ELSE {}]
  /\ next' = next + 1
  /\ UNCHANGED <<acknowledged, credited>>

\* publish_payload with M the subscriptions the graph reports as matched:
\* acknowledged entries are retired, then the oldest ones until there is room,
\* acknowledged or not; the new entry starts unacknowledged even if nobody is
\* matched.
AddToLedger(M) ==
  /\ next <= MaxSeq
  /\ ledger' = Newest(ledger \ acknowledged, Depth - 1) \cup {next}
  /\ pending' = [s \in Seqs |-> IF s = next THEN M
                                ELSE IF s \in ledger' THEN pending[s] ELSE {}]
  /\ acknowledged' = {}
  /\ next' = next + 1
  /\ UNCHANGED credited

\* handle_ack_nack_feedback: subscription r has acknowledged the entries in S.
Acknowledge(r, S) ==
  /\ pending' = [s \in Seqs |-> IF s \in S THEN pending[s] \ {r} ELSE pending[s]]
  /\ acknowledged' = {s \in ledger : IF s \in S THEN pending'[s] = {}
                                               ELSE s \in acknowledged}
  /\ credited' = [credited EXCEPT ![r] = @ \cup {s \in S : r \in pending[s]}]
=============================================================================
