# FleetQoX in TLA+

This directory specifies the parts of FleetRMW/FleetQoX on which a fleet
depends not to lose, repeat or mix up data, and not to be driven by a command
that is out of date: a small Raft, the QUIC gateway's durable history, the
lease that decides which gateway process may write it and the coupling of that
lease to Raft, the failover of the PostgreSQL pair behind the gateways, the
reliable stream of the C++ RMW, and the robot-side guard of control leases.
The modules are checked with TLC on small instances; the properties that
matter most are proved with TLAPS for every instance. Paths are those of the
repository: `fleetqox/` is the Python control plane, `scripts/` its services
and drivers, `rmw_fleetqox_cpp` stands for `ros2_ws/src/rmw_fleetqox_cpp`.

Contents: [1 The system](#1-the-system) ·
[2 The modules](#2-the-modules) · [3 The runs](#3-the-runs) ·
[4 Findings](#4-findings) · [5 The proofs](#5-the-proofs) ·
[6 What is not modelled](#6-what-is-not-modelled) · [7 Plan](#7-plan) ·
[8 Running it](#8-running-it)

## 1 The system

FleetQoX decides, for a fleet of robots, which samples go where, over which
path and at what quality, and carries them. A sample leaves a ROS 2 node
through `rmw_fleetqox_cpp` (C++) or the Python talker and sidecar, crosses
lossy links under an ACK/NACK protocol, and reaches a QUIC gateway that keeps
a short history per topic for its consumers. The gateway is made highly
available by a standby that shares its database. Controllers on the robot and
in the cloud choose paths and modes and lease control to each other.

### Components

| Component | Source | State | Operations | Talks to |
|---|---|---|---|---|
| Raft core | `fleetqox/raft.py` | term, vote, log, commit index, role, next/match index | the three timers and clients' proposals, two RPCs and their replies | its driver, by returned outboxes |
| Raft node service | `scripts/fleetqox_raft_node_service.py` | a lock, the applied KV store, waiting requests | threads for timers, RPCs and messages; `POST /kv`, `/status` | peers and clients over HTTP |
| Gateway state | `fleetqox/quic_gateway_state.py` | per topic: frames, dedup keys, outcome keys, cursors; statistics | `publish`, `publish_batch`, `take`, `record_application_outcome`, `status` | durable store; QUIC service |
| Admission policy | same | epoch quota, repairs, cumulative count, debts, observations | `admit`, `update_application_outcome`, export/restore | gateway state |
| Durable store | same, `fleetqox/quic_gateway_postgres.py` | tables of frames, dedup keys, outcomes, cursors, admission, `writer_lease` | `append_frame`, `set_cursor`, `recover`, acquire/renew/release | SQLite or PostgreSQL |
| Standby loop | `fleetqox/quic_gateway_lease.py` | a deadline | build the state, retry while the lease is held | gateway state |
| QUIC service | `scripts/fleetrmw_quic_gateway_service.py` | one asyncio loop, renewal task | serve, renew, stop | all of the above, Raft |
| Raft writer lease | `fleetqox/raft_writer_lease.py` | the term, kept in the holder id | `require_leadership`, `is_still_leader` | its Raft node's `/status` |
| etcd DCS | `fleetqox/postgres_failover_dcs.py` | next endpoint | grant, compare-and-put, get, repeated over endpoints | etcd |
| Failover and failback controllers | `scripts/fleetqox_postgres_failover_controller.py`, `..._failback_controller.py` | consecutive failures or safe samples | poll both databases, win a key, have the source stopped, promote the target | PostgreSQL, etcd, agents |
| Fence, STONITH and switchover agents | `scripts/fleetqox_postgres_fence_agent.py`, `fleetqox_hardware_stonith_agent.py`, `fleetqox_postgres_switchover_agent.py` | a thread per call | authorise by the key, stop, confirm | etcd, Docker, BMC |
| Local control lease | `fleetqox/local_control_lease.py`, `scripts/run_ros2_local_controller_lease.py` | active lease, last output, pending command, fallback ids | `ingest_lease`, `evaluate_command`, `tick` | ROS 2 topics, robot base |
| RMW reliability (Python) | `fleetqox/rmw_ack.py`, `rmw_socket.py`, `rmw_transport_loop.py` | receive windows, talker's history | observe, feedback, retransmit, prune | UDP |
| Repair scheduler | `fleetqox/repair_scheduler.py` | none | choose repairs under a budget | transport loop |
| Online planner, live controller | `fleetqox/online_fleet_planner.py`, `live_path_controller.py`, `fleet_optimizer.py` | smoothed telemetry, last switch, file offset | plan, guard a switch, tail telemetry | optimiser, gateway policy |
| Transport selector | `fleetqox/transport_selector.py` | the transport bound to each flow, evidence | `update` with hysteresis | runners |
| Sidecar, scheduler, semantic contracts | `fleetqox/sidecar_*.py`, `control_plane.py`, `scheduler.py`, `lagrangian_adaptation.py` | virtual budgets, dual variables | score, admit, degrade | UDP, bridge |
| C++ RMW: reliable stream | `rmw_fleetqox_cpp/src/rmw_pubsub.cpp`, `data_frame.cpp` | retransmit ledger; per reader: observed sequences, baseline, contiguous sequence, confirmed losses | publish, feedback, timeouts, repair, loss notices | UDP |
| C++ RMW: the rest | the same directory | graph, fragments, groups, services, QUIC client | rmw API | UDP, QUIC, ROS 2 |
| Simulators, reports, probes | the rest of `fleetqox/`, `scripts/`, `experiments/`, `external/` | none that outlives a run | experiments | — |

### How they interact, and what is hard

* **Raft node and peers.** Every RPC has a thread of its own and a timeout, so
  requests and replies are lost, repeated, delayed and reordered at will, and
  the lock is held for one handler at a time. A client's `POST /kv` waits in a
  handler thread that takes the lock anew for each look.
* **Gateway memory and store.** Each publish decides from memory, commits to
  the store and only then changes memory. A commit may fail, the process may
  die between the two, and PostgreSQL's connection may break after the commit
  so that the process takes it for failed. The four bounded collections forget
  in four different orders.
* **Gateway and gateway.** Two processes share one database. They are kept
  apart by one row: holder, fence token, expiry in wall-clock milliseconds.
  Each call reads its clock *before* it waits for the database lock.
* **Gateway and Raft.** A gateway asks Raft at start-up and after each
  renewal, and the answer is old by the time it is used.
* **Controllers, agents and etcd.** A controller polls, wins a key without
  keep-alive, calls an agent and promotes, and may stall or die between any
  two of these; the agent's thread does not know that its caller has gone.
  Failover and failback use different keys.
* **Writer and readers of a stream.** Data, feedback and loss notices are
  datagrams. The writer's ledger is bounded and evicts what nobody has
  acknowledged; a reader that joins late starts at the first frame it gets.
* **Control leases** arrive late, repeatedly and out of order and expire while
  commands go on; the speed limits depend on when the last command was let
  through.

### What makes each component correct

* Raft: one leader per term; logs that agree on an entry agree on all before
  it; a leader never loses entries; what is applied is on a majority and is
  the same everywhere; "committed" is only said of what was committed.
* Gateway state: a restart over the store finds what the old process had; a
  publication is retained, charged and debited once whatever is repeated; a
  cursor never goes back; quotas survive a crash; the store can always be
  recovered.
* Writer lease: at most one process passes the fence; it has seen everything
  written before; the tables never go back; an abandoned lease is taken over;
  a deposed process stops.
* With Raft: a demoted node's gateway stops, the leader's gateway gets the
  row, and nothing the SQL lease forbids is done.
* PostgreSQL failover: never two databases in charge; a promotion only over a
  stopped database; after the loss of the primary its standby is promoted.
* Reliable stream: an acknowledgement covers only samples whose fate the reader
  knows; a loss is reported only for what the ledger no longer holds or whose
  repair was refused, and once; gaps close.
* Control lease: what drives the robot is fresh, under a lease that lasts once,
  within the limits; an expired lease stops the robot.

The hazards this code has, each at its line, with the properties that watch
it, are in `PROJECT.json`.

## 2 The modules

```
Raft ──────────── RaftKv (clients)    GatewayHistory ── GatewayHistoryProofs
  │                 │
RaftProofs ── RaftPairProofs          GatewayLease
  │                                     │
NatFacts ──────┐                      RaftGateway ── GatewayLeaseProofs
               │
RmwLedger      │
  │            │
RmwLink ── RmwLinkProofs              PgFailover ── PgFailoverProofs
  :
ReliableStream (abstract)             LocalControlLease ── LocalControlLeaseProofs
```

Lines are EXTENDS; the dotted one is an INSTANCE with a refinement mapping.
GatewayHistoryProofs uses NatFacts as well.
`MC*` modules only add values for constants and symmetry sets.

### Raft, RaftKv

A driver thread takes the node's lock, gives one event to `RaftNode`, applies
what was committed, releases the lock and sends the outbox. That lock section
is one action:

| Action | Code |
|---|---|
| `OnElectionTimeout`, `OnHeartbeatDue` | the timers and `_send_outbox` |
| `HandleRequestVote`, `HandleRequestVoteResponse` | vote request, vote reply with `_become_leader` |
| `RejectStaleAppend`, `RejectMismatch`, `AcceptEntries` | the three ways out of `handle_append_entries` |
| `HandleAppendEntriesResponse` | match/next index, `_advance_commit_index`, immediate retry |
| `Propose`, in RaftKv `PostKv` | `propose_put`, `POST /kv` |
| `WaitCommitted`, `WaitDeposed`, `WaitTimesOut` | one poll of `wait_for_commit` |
| `PostFails` | `post_json` gives up |

*Indices.* The code counts from 0 with -1 for none; the model uses the number
of entries covered. The header of `Raft.tla` gives the translation of each
field.

*Network.* Messages are in sets. Any part of an outbox may be lost when it is
sent; a message stays in its set after a delivery, because the heartbeat loop
sends equal messages again and their copies arrive at any time; `PostFails`
removes it. This covers loss, delay, reordering and repetition.

*Whole-log hint.* `match_length_hint` is `len(self.log)` in a success reply,
as in the code, not the length the request covered. Section 4 says what
follows from that.

*No restarts.* `main` builds a blank `RaftNode` and the driver stores nothing,
so a node that is killed and started again has forgotten its term and its vote
and can vote twice in a term. `raft.py` (lines 100-102) leaves persistence to
the driver; the modules, runs and theorems are about nodes that do not restart.

### GatewayHistory

One topic of one gateway process at a time: `mem` is what `TopicHistory` and
the policy hold, `db` the rows. The service is one asyncio thread and none of
these operations awaits, so a request runs to its end; what can come between a
commit and the memory update after it is a crash or, with PostgreSQL, the
loss of the connection. Each committing operation therefore has up to four
forms: it succeeds (`PublishAccepted`, `OutcomeStored`, `Take`), the process
dies after the commit (`PublishThenCrash`, ...), the connection breaks after
the commit and the call raises as if nothing were stored (`PublishUnheard`,
`OutcomeUnheard`, `TakeUnheard`), or the store raises and nothing is stored
(`PublishFails`, ...; a take that fails this way changes nothing). `linked`
says whether the connection works: `psycopg.connect` is called by the
constructor and never again (`Reconnected`), so after a break, in a commit or
between two (`Disconnect`), the process commits nothing until it is started
anew. That is what makes the undone charge of `PublishUnheard` harmless: with
a store that reconnected, the next commit would write the lower count over the
stored one, which is the mutation `Reconnected_AtOnce`.

`Kept` is what remains of a sequence after rows or keys are deleted
(`move_to_end`, `ON DELETE CASCADE`), and `WithoutRow` the deletion of one
frame by its offset. Frames
are offset and key, keys stand for (publisher, sequence number), and the
admission score is a free choice among what `admit` may return
(`PublishRejected`, or one of `Charge`). `Restart` reads the tables under any
of the configured limits, deletes the surplus and refuses to start where
`recover` raises. `in_epoch` and `counted` are history variables.

### GatewayLease

Any number of processes, each going through start, waiting, recovery, serving
and closing. Every store call is two actions: the reading of the clock
(`Publish`, `TakeRequest`, `RenewDue`, `Start`/`Retry`) and the transaction
(`CommitFrame`, `CommitCursor`, `Renew`, `Acquire`), since `_now_unix_ms` is
called before `BEGIN IMMEDIATE`. Between them time and others move. The tables
are reduced to the next free offset and one cursor, which is what two writers
could disagree about.

The transaction may end in four ways: it commits, it is refused or fails
(`AcquireFails`, `WriteFails`, `RenewFails`), the process dies (`Crash`), or
with PostgreSQL it commits and the connection breaks before the answer. For the
lease that is `AcquireUnheard`: the standby opens a new connection at its next
try and finds its own row. For a write or a renewal it is `Unheard`: the
process is *severed*, all its later calls fail, and it ends at its next renewal
without releasing the row (`SeveredStops`). What it still has in memory can
reach neither store nor successor, so `mem` is emptied at that point, as it is
when a process closes. `RecoverUnavailable` is the store failing between the
grant and the end of recovery: the row is released if that can be done
(`TryRelease`) and the loop of `quic_gateway_lease.py` starts over;
`RecoverFails` is damaged tables, for which it gives up. `AcquireUnheard` and
`RecoverUnavailable` could raise the token without end; `MaxBroken` bounds the
token up to which they happen.

*Time is relative.* `row.left` is the expiry minus the present time and
`lag[p]` the age of p's clock reading, so the clock itself needs no bound;
`Skew` is the error of a host's clock. `row.left` stops at `-MaxStall`: beyond
that no pending reading can find the lease running, so older is the same.

*Assumption.* Live processes have distinct instance ids (`Start`). The code
does not enforce it: a second process started under an id whose lease still
runs is given the same fence token. The hazard is listed; nothing here covers
a deployment that does it.

### RaftGateway

GatewayLease with holder ids `raft-{node}-term-{term}` and a Raft that shows
only what `/status` shows: the term each node leads in. `Elect` gives a fresh
term, which is what `OneLeaderPerTerm` proves of Raft; the old leader learns
of it later, and a leader may also step down for a mere candidate of a higher
term (`Demote`). `RenewThenAsk` is the renewal of the row, `StillLeader`
and `NoLongerLeader` the answers to the question after it; requests are served
in between, as the code awaits there.

### PgFailover

Each controller is a process with a program counter that follows
`run_controller`: `PollSource` and `PollTarget` are the two questions of a
round, `Acquire`, `AcquireUnheard` and `AcquireFails` the outcomes of
`EtcdQuorumLease.acquire`, `FenceReply` and `FenceTimesOut` the end of the call
to the agent, `Promote` and `PromoteFails` the rest. The two controllers differ
in which database they have stopped (`Source`), what makes a round count
(`Counts`) and which key they win. The agents' `do_POST` is the pair
`Authorize`, `Stop`: the key is looked up, then the container is killed, reset
or stopped, and nothing connects the two. `AcquireUnheard` is the repeated
transaction of `_post`: the first endpoint created the key and its answer was
lost, so the second finds it taken. `Expire` is the TTL, `Rejoin` the rebuilding
of a stopped database (`rejoin_fenced_primary_as_standby`).

*Assumption.* `Rejoin` happens only when the controllers that had the database
stopped have ended, as the runner of the repository does it (it collects its
controllers first). Nothing in the controllers or agents enforces it: a
database that rejoins, is failed back to and is in charge while a controller of
the first failover still has its confirmed fence in hand could be joined by a
second one in charge.

*Merged step.* `Stop` is the agent's three steps in one: it looks whether the
container runs, kills it and looks again. In the code two authorised calls can
overlap between the first look and the kill, and both are confirmed. That adds
a second controller with a confirmed fence of the same stopped database;
`NoSplitBrain` and `PromotesOverStopped` would not notice, since the database
stays down until `Rejoin`, which waits for all of them.

*Bound.* A controller is started again only after its last call has ended, so
there is one agent thread per controller.

### RmwLedger, RmwLink, ReliableStream

One reliable publisher and its reliable subscriptions. RmwLedger is the writer:
`AddToLedger` is the part of `publish_payload` under `g_bus_mutex`, which
retires acknowledged entries, evicts the oldest ones and enters the new sample
with the subscriptions the graph reports at that moment (any set: discovery is
not modelled); `Acknowledge` is what feedback does to the entries. RmwLink adds
the network and the readers:

| Action | Code |
|---|---|
| `Publish` | `publish_payload` and the send |
| `RetransmitRound` | one round of `reliable_retransmit_loop` |
| `HandleAckNack` | `handle_ack_nack_feedback`: acknowledge, repair, loss notice |
| `Deliver` | `observe_frame`, the baseline of the first frame, the feedback |
| `IdleRepair` | `idle_repair_ack_nacks` from `rmw_take` on an empty queue |
| `HandleLossNotice` | `handle_unrecoverable_loss_notice`, `apply_confirmed_lost_ranges_locked` |
| `Drop` | a datagram is lost |

Sequence ranges are sets of sequences. Data frames in flight are a set per
reader; a frame that is received may stay, which is repetition and delay at
once. `Post` drops feedback beyond `MaxInFlight`; the network may drop any.
`credited` and `lost` are history variables: which samples the writer took a
reader off the list of, and which ones the reader counted as lost. The feedback
of a frame is sent in the same action: the code sends it after releasing the
mutex, and a late send is a late delivery.

*Repair and refusal.* `send_retransmission_frame` sends an entry that feedback
asks for again, skips it or refuses it. It is skipped when it was asked for
within the minimum interval before, or when the socket fails: nothing is
counted and nothing reported (the parameter `skipped` of `HandleAckNack`). It is
refused (`RepairRefused`) when a repair plan is configured that does not admit
it, when its attempts have reached the limit of its rule or of the process, or
when the process's retransmission budget is used up; then it goes into the loss
notice with what the ledger no longer holds (`Terminal`). The plan is read from
its file again at every call and the budget is shared with the other publishers
of the process, so each request meets any of `Limits`: a number of attempts, 0
for no limit, or `NotAdmitted` for none at all. A refused entry stays in the
ledger, and `reliable_retransmit_loop`, which asks neither plan nor attempts,
still sends it when its timeout runs out. A sample can therefore arrive after
its reader counted it as lost. `refused` remembers which reader was refused
what, and `LossHasCause` says that a loss has one of these two causes, not that
the sample never comes.

ReliableStream is the promise without messages: samples are published, the
writer gives some up for a reader, a reader sees a sample or is told that one
the writer gave up for it is lost, and the writer credits a reader only with
samples whose fate it knows. Under the mapping of RmwLink a sample is given up
for a reader (`GivenUp`) when it has left the ledger or that reader was refused
its repair; a sample that was given up may still be seen.

### LocalControlLease

`LocalControlLeaseState` under the three callbacks of the ROS 2 adapter, which
one executor thread runs to their ends. `Drive` is `clip_command` followed by
`apply_dynamic_limits`; one axis is modelled, since both limited axes go
through the same code. The sender either numbers its leases or does not
(`numbered`), and the policy has one of the three expiry actions. `published`
records the last Twist together with when its command was received and under
which lease; `granted` is a history of when each id was first accepted and with
which lifespan. Speeds are integers:
accelerations are quotients of them by gaps between outputs, which are exact
because all speeds of an instance are multiples of `Unit`, a number that the
products of gaps divide (360 for a horizon of six ticks).

## 3 The runs

| Run | Question | Bounds |
|---|---|---|
| `raft_three` | election safety, log matching, leader append-only, types | 3 nodes, 2 contenders, 2 terms, 2 entries, 2 messages |
| `raft_pair` | applied entries agree, are on a majority and are what clients were told | 2 nodes, 3 terms, 2 entries, 2 commands, 2 messages |
| `raft_hint` | does a majority hold what is applied? **violated** | 3 nodes, 2 terms, 1 entry, 2 commands |
| `gateway_store` | memory against store over crashes and unheard commits; charged, debited, delivered once; quota; recoverable | 3 keys, 1 consumer, history 2 or 1, dedup 2, batches of 2, 4 frames |
| `gateway_dedup` | nothing retained twice | 4 keys, history and dedup 3, 5 frames |
| `lease_pair` | fence, view of the store, no going back; takeover, deposed stop | 2 processes, 2 ids, lease 1, skew ±1, stall 2, 2 frames, broken connections up to token 1 |
| `raft_gateway_live` | is the SQL lease protocol implemented; demoted stops, leader takes over | 2 gateways, 2 nodes, 2 terms, lease 2, stall 2, no frame stored, broken connections up to token 1 |
| `rmw_link` | acknowledgements, contiguity, losses, catching up, refinement of ReliableStream | 1 reader, 3 samples, ledger of 2, 1 timeout, a limit of none, 1 or unboundedly many repairs at each request, 1 feedback and 1 notice in flight |
| `failover` | never two in charge; promotion over a stopped database | 2 failover and 1 failback controller, threshold 1, every fault |
| `failover_loss` | is the standby promoted when the primary is lost? **violated** | 2 failover controllers, threshold 2, only databases die |
| `control_lease` | fresh commands, one lifespan per lease, acceleration limit, stop at expiry | 3 ids or none, 6 ticks, lifespans 1 and 3 of at most 2, speeds 0, 3 and -5 of a bound of 3 |
| `control_bound` | are published speeds inside the bounds? **violated** | 1 lease, 4 ticks |

*Why these bounds are enough to meet the hard cases.* Two messages in flight
are one that is old and one that is current, which is what every reordering
hazard of `raft.py` needs. Two contenders and two terms give crossing votes, a
deposed leader that still sends, and a follower with a longer log than the
leader; the pair has a third term so that a leader can be deposed and return
with entries of its first term uncommitted. An entry that is overwritten after
it was counted (Figure 8 of the Raft paper) is out of reach of these runs: it
needs three nodes, where agreement fails already for the reason of Section 4,
and in a pair no log is ever cut. In `raft_three` there is a single
command: entries then differ by term and place only, which is what the
algorithm itself looks at; `raft_pair` and the violation runs have two. A
history of two with a dedup capacity of two is the tightest configuration the
constructor admits, so every eviction order occurs with three keys; a
publication retained twice needs a history of three, hence `gateway_dedup`.
A lease of one tick and stalls of two let a call outlive a whole lease and the
next holder's; with clocks one tick off a lease can also seem expired to one
host and running to the other. Each process is started once, under any id that
is free: the second may take over from the first, or be its restart under the
same id, before or after the lease ran out. Two standbys that race with a
returning holder need three processes and are left to the theorems, which are
for any number.
In `raft_gateway_live` requests come and fail but no frame is stored: what it asks
is who holds the row and who stops, which the tables do not influence, and the
room goes to a store that fails while the lease is taken. What happens to the
tables there is inherited through `ImplementsLease`.

Three samples over a ledger of two are one eviction with a reader that still
misses the sample; limits of one and of none are a frame whose attempts are used
up and one that is refused outright, and a request may meet either after it met
no limit; one timeout sends a frame that was refused.
One datagram of feedback in flight that may be repeated at any later time is
the stale acknowledgement; with one reader every property of `rmw_link` is met
in full, since readers share nothing but the entries' lists, and the theorems
are for any number. Two failover controllers are a holder and its successor on
an expired key, the failback controller the one with the other key; a larger
threshold only delays `Acquire`. Three lease ids are one active, one stale and
one newer; six ticks hold three outputs at different distances.

In a *pair* of nodes every election is unanimous, so the follower's log is part
of the leader's, the length it reports is a real match and no entry is ever
replaced; RaftPairProofs proves this for any bounds. With three
nodes `AppliedOnMajority` fails (`raft_hint`), and so does `AckedIsApplied`:
`wait_for_commit` compares the index alone, so a client whose leader is deposed
and whose entry is replaced between two polls is told "committed". The passing
run states how far the guarantee goes.

*Deadlock* is checked except in the Raft runs and `rmw_link`, which stop when
terms, log and messages, or samples and retransmissions, have reached their
bounds; the programs themselves never stop.

### Fairness

* `lease_pair`: time passes. A store call that has its lock ends one way or
  another (`Proceeds`). Retrying and closing are steps of a running asyncio
  task. A store that is asked again and again for a lease nobody else holds
  grants it in the end (`SF(Acquire)`): it is not unavailable for ever.
  `RenewDue` has strong fairness: requests disable it again and again, but
  asyncio's ready queue is first in, first out, so a task whose sleep is over
  runs after the callbacks queued before it. `Crash`, `Stop`, `WaitTimesOut`,
  `Recover` and the ways in which the store fails have none: nothing promises
  that they happen.
* `raft_gateway_live`: the same, recovery that succeeds in the end
  (`SF(Recover)`; a gateway of an ended term whose recovery fails for ever would
  take its own row anew each time and never come to ask Raft), an answer to each
  question to Raft (`StillLeader` or `NoLongerLeader`; an error or timeout counts
  as the latter), and `WF(Demote)` for a leader that has a successor: it
  eventually hears of the higher term. That is an assumption on the network,
  not a promise of the code: as long as a partition lasts the old node's
  `/status` says "leader" and its gateway renews the row. Without `WF(Demote)`
  `LeaderTakesOver` is false.
* `rmw_link`: a reader takes again and again (`WF(IdleRepair)`; `rmw_take` on
  an empty queue asks for what is missing), and a datagram of a kind that is
  sent again and again is received for good in the end (`SF` of the receptions
  that leave no copy), feedback at a time when none of its repairs is skipped:
  the minimum interval runs out and the socket works again. Whether they are
  refused is left open. Nobody need publish, and timeouts need not fire.
* `failover_loss`: controllers are started again, polls and calls end, the key
  can be won again and again (`SF(Acquire)`), leases run out, promotions
  complete. Dying, stalls and time-outs have no fairness. The property fails
  even so.
* `control_lease`: the clock runs and the timer is called. Nobody need send
  leases or commands.
* Raft itself is checked for safety only: that somebody is elected depends on
  randomised timeouts and message delays, which no fairness condition of an
  untimed model expresses.

## 4 Findings

Each is a run that TLC finds violated; `PROJECT.json` quotes the statements of
the repository that the code does not meet.

1. **A follower's length is counted as replication** (`raft_hint`).
   `handle_append_entries` reports the length of its whole log on success. The
   uncommitted tail of an earlier term is included, because a request that
   ends below the tail and agrees with it so far does not cut it. The leader
   takes that as `match_index`, counts it, and commits an entry that only the
   leader has. In the paper `match_index` is `prev_log_index` plus the number
   of entries sent.
2. **A primary that is down is never confirmed fenced** (`failover_loss`). The
   agents confirm a stop only if the database was running before
   (`running_before is True`, or power state `On`). If the primary's container
   or host is what failed, or a controller died between fencing and promoting,
   every controller that wins the key ends with `fencing_failed` and the
   standby stays a standby. The rule that makes this so also makes failover
   safe: a confirmed stop is the caller's own.
3. **The jerk limiter undoes the speed bound** (`control_bound`). The command is
   clipped first and the change of acceleration limited afterwards. At the
   bound the acceleration may fall only gradually, and the speed goes on
   rising past `max_linear_x`. With the default policy, commands of 0.25 m/s
   every 20 ms publish 0.256 m/s and more.

Remarks that contradict no statement strongly enough to be a finding, or follow
from the assumptions above:

* A frame can be committed after its writer's lease has run out, because the
  clock is read before the lock is awaited. That is harmless: whoever takes the
  row over afterwards gets a new token and recovers later, which
  `WriterSeesStore` checks with stalls of a whole lease and `WriterIsCurrent`
  proves.
* A duplicate publication moves its key, not its frame, to the end of the
  gateway's memory, so with equal capacities a retained frame's key can be
  forgotten. With a durable store the UNIQUE row refuses the repetition
  (`RetainedOnce`); without one the frame is retained twice.
* The SQL row orders gateways by when they took it, not by Raft term: a gateway
  of an earlier term that was slow to take the row may write after one of a
  later term, until its next renewal asks Raft. It has seen everything written
  (`RaftWriterIsCurrent`).
* A lease without event id leaves `None` among the answered ids; the expiry of
  the next such lease is answered by the next command, not by the timer.
  `StopsAtExpiry` is stated for senders that number their leases.

## 5 The proofs

All theorems hold for every value of the constants under the named ASSUMEs:
`NodeAssumption` (finitely many nodes, `None` is no node) and
`BoundAssumption` for Raft, `LeaseAssumption` and `HomeAssumption` for the
leases, `FailoverAssumption`, `RmwBounds` and `LinkBounds`, and
`ControlAssumption`, `LimitsAssumption` and `QuotaAssumption`. The bounds are
guards of the model; since they are arbitrary, no theorem rests on a
particular one.

**RaftProofs.** `TypeCorrect` needs more than `TypeOK`, since
`match_length_hint` may be any length and a log may be cut below what was
committed: the inductive invariant is `TypeInv`. It consists of `TypeOK` and
`CommitApplied`: the driver applies what is committed before it releases the
lock, so what may be applied next lies inside the log just read.
`OneLeaderPerTerm` cannot be had from `votes_received`, which is reset whenever
a voter moves on, nor from the replies in flight, which are lost. The invariant
therefore speaks of what can no longer happen: `Bound(v, l, t)` says that
whatever voter v still does in term t helps only l, because it voted for l or
has left the term, and `Elected(l, t)` that a majority is bound to l.
`OrderlyStep` shows that no step lets a voter change its mind within a term, so
both are stable; `MajoritiesMeet` makes elected nodes unique; `ElectionInv`
ties votes, replies and roles to bindings. Because every AppendEntries request
comes from an elected node, a leader receives none in its own term, and
`LeaderAppendOnly` follows from the same invariant.

`LogsMatch` is about entries in logs, but requests carry entries for any time
before they are stored, so the invariant `LogInv` is about *points*: an entry
with its index and the term of the entry before it, in a log or in flight.
Index and term identify a point (`PointsMatch`), from which log matching
follows by going down from the shared index. Only `propose_put` makes a point;
that it is new needs `LeadersCover` (no point of a leader's term lies beyond
its log) and, at an election, `Authored` (the points of a term come from the
node elected in it, so a new leader finds none of its term). Replication,
truncation and insertion copy points. All these theorems are about nodes that
do not restart. `NatFacts` holds the two facts about least and greatest numbers that
this module, RmwLinkProofs and GatewayHistoryProofs share.

**RaftPairProofs.** Agreement of the state machines, majority of what is
applied and the acknowledgements are false for three nodes, because
`handle_append_entries` reports the length of its whole log (`raft_hint`).
They are theorems for every pair, under `Cardinality(Node) = 2` and for any
number of terms, entries, commands and messages: `PairAppliesAlike`,
`PairHoldsApplied`, `PairAcksApplied`. The reason is peculiar to pairs. Both
nodes vote for whoever is elected, and a node votes only for a log at least as
good as its own; since one log is always a prefix of the other (`Comparable`),
the voter's is a prefix of the leader's (`LeaderAhead`). The invariant
`PairInv` follows this through everything in flight: votes granted and counted
(`VotersBehind`, `GrantsPast`, `Asked`), requests that are not stale, which
carry a part of the sender's log (`SenderActive`, `Carried`), followers and the
lengths they report (`FollowerBehind`, `Hints`), the leader's indices
(`Matches`, `Nexts`), and commit indices, which lie within both logs
(`Commits`, `CommitsSent`, `AppliedLogged`). A consequence is `PairKeepsLogs`:
in a pair no log is ever cut, so the truncations of `handle_append_entries` are
dead code there. `KvInv` adds that the entry a client waits for stays at its
index in its node's log; then comparing the index alone, as `wait_for_commit`
does, is enough.

**GatewayLeaseProofs.** The inductive invariant `FenceInv` is `TypeOK`,
`TokensIssued` and `WriterSeesStore`. `TokensIssued` says who can have which
token: none is above the row's, ids of live processes differ, a process that
has not acquired has none, and whoever has the row's token is the row's holder.
Without it a step of `Acquire` could make a stale writer pass. Nothing in
it mentions time: `FenceIsExclusive`, `WriterIsCurrent` and the action
property `StoreNeverGoesBack` hold whatever the clocks say, however long calls
stall. Expiry only decides *who* may take the row, and taking it always issues
a token that nobody live holds, except to the same instance id. Commits whose
answer is lost need no more: a severed process never writes again, and what it
had committed is found by the next recovery.

The same module has the theorems about RaftGateway. `RaftImplementsLease` shows
that RaftGateway implements GatewayLease: the refinement mapping is the
identity on the shared variables, elections and Raft's answers are stutters,
and a refusal by Raft stops a service as a signal would. `TermsIssued` is
needed for the start-up step: the holder id made of node and term must be one
of the instance ids. `RaftTypes` uses the refinement the other way round:
`TypeOK` is inherited, and with it every holder id names its own node and an
issued term. The theorems about the fence carry over, `RaftWriterIsCurrent`
being the one that matters: whatever Raft says and however late, the fence
never lets a stale view be written.

**PgFailoverProofs.** `NoSplitBrain` is not inductive: a controller that holds a
confirmed fence may stall for any time before it promotes. The invariant
`FailoverInv` adds `MandateHolds`: while a controller has its agent's
confirmation, or is about to promote, the database it had stopped is still
stopped. It is stable because a stop is confirmed only to the call that found
the database running and brought it down, because nothing but `Rejoin` brings a
database back, and `Rejoin` waits for those controllers. Keys do not occur in
the argument: safety rests on the agents' confirmation alone, and the expiry of
a key under a slow controller does no harm. `PromotionSafe` follows from the
same invariant.

**GatewayHistoryProofs.** The invariant has two halves. `StoreInv` is what the
tables satisfy on their own: they are within the limits of the last process,
offsets are consecutive (`Contiguous`), the retained frames are the newest
dedup rows (`FramesRemembered`), dedup and outcome rows are distinct, every
outcome has its dedup row, a frame that raised the debt has an outcome row for
as long as it has a dedup row (`DebtsRecorded`), and the stored counters count
the frames accepted. `MemoryInv` says that memory agrees with the tables while
the process is linked; `recent_keys` and the outcome keys in memory are absent
from it, since they need not agree. `FramesRetainedOnce` follows from
`FramesRemembered` and the unique dedup rows, whatever memory has forgotten.
`OutcomesDebtedOnce` needs a count: an outcome that is inserted evicts none,
because outcomes are fewer than dedup rows as long as one of those has none.
`EnumerationExists` shows, by the least size without one, that the positions
`Kept` selects can be listed in order. The assumptions are
`LimitsAssumption` (a history of at least one frame and a dedup capacity no
smaller, which the constructor demands) and `QuotaAssumption`.

**RmwLinkProofs.** The invariant ties what is in flight to what the reader
knows: feedback only covers sequences that were settled when it was made, and
settled sequences stay settled, so feedback of any age is safe
(`FeedbackInv`); a notice only names samples that the writer had given up for
that reader, and a sample once given up stays so (`NoticeInv`); what was
counted as lost lies below the contiguous sequence, so counting from there on
never counts twice (`CountInv`); the baseline is where cumulative
acknowledgement begins (`BaselineInv`). `LinkImplementsStream` maps each action
to a step of ReliableStream or to a stutter with the same invariant.

**LocalControlLeaseProofs.** `LeaseLastsOnce` needs that the active lease of a
numbered sender runs no longer than the lifespan its id first came with, and
that ids above the active one have never been accepted; then a repeated lease is
always stale (`GrantInv`). `AccelerationLimited` rests on `ControlTypeOK`: the
acceleration carried over is within the limit, and a step from it towards a
clamped target stays there.

Every safety property that a passing run checks is stated by a theorem. Only
model-checked are the liveness properties (`TakesOver`, `DeposedStops`,
`DemotedStops`, `LeaderTakesOver`, `CatchesUp`, `StopsAtExpiry`), which, like
ENABLED and induction over data, are beyond the prover.

## 6 What is not modelled

* In the modelled parts: HTTP routing, document validation and formatting, the
  JSON status and log output (reads), certificates and QUIC streams. The
  admission scores, EWMA debts and expiring observations of the policy are
  real-valued and reduced to a free choice of the verdict. Topics share only
  the fleet quota, so one topic is enough for every property but a comparison
  between topics.
* `recover` trims tables without looking at the fence; GatewayLease does not
  see it because its tables have no rows to trim. With equal limits in all
  processes nothing is surplus.
* `take` commits the cursor before it returns the frame: delivery is at most
  once by design, and a frame lost that way contradicts nothing.
* `application_outcome_keys` in memory outlives the eviction of its frame's
  key; its only effect is a missed debt update.
* Of the C++ stream: fragments and their repair, lifespan, keyed instances
  (each has its own ledger bound), presentation groups, content filters,
  discovery, and `rmw_publisher_wait_for_all_acked`, which reports success when
  the ledger holds no unacknowledged entry up to the last sample at the call,
  evicted ones not counted. Sequence numbers are 64 bits wide and do not wrap
  in practice. The Python prototype (`rmw_ack.py`, `rmw_socket.py`) is a
  different, smaller protocol used by probes.
* Of repair in the C++ stream: the budget's counter, which is one for the whole
  process, and the time of the last request. Both are free choices at each
  request, which allows more than the code does. A frame too large for shared
  memory, the one send that fails as unsupported, is not modelled. A notice that
  overlaps a sample received late is counted whole, as in the code, so a sample
  inside a confirmed range can be both received and counted as lost.
* Of the failover: replication itself. A synchronous standby that has replayed
  everything is the free choice `safe`; data loss at a failover is not a
  question this model can answer.
* Of the control lease: the adapter publishes no stop when it ends by
  `max_runtime_s` or by `idle_timeout_s` without activity, so `StopsAtExpiry` is
  about an adapter that runs; feedback records and counters.
* Everything listed as not modelled in `PROJECT.json`, with the reason there:
  chiefly real-valued scoring, experiment harnesses, adapters and reports, which
  make up most of the repository's lines.

## 7 Plan

In order; the first eight are built.

1. Raft, RaftKv: safety of the log and of acknowledgements.
2. GatewayHistory: memory against store under crashes and failed commits.
3. GatewayLease: the fence, with time. 4. RaftGateway: both together.
5. PgFailover: the etcd key, the controllers and the agents.
6. RmwLedger, RmwLink, ReliableStream: the reliable stream and its refinement.
7. LocalControlLease: leases, limits and expiry.
8. Proofs of the safety properties of every passing run. The theorems about
   pairs are as far as the code goes: three nodes would need a
   `match_length_hint` that counts only the entries a request has checked.
9. Models next, each with a question of its own: `wait_for_all_acked` over
   RmwLink with subscriptions that vanish from the graph; the unfenced trimming
   as a composition of GatewayHistory with GatewayLease; the repair scheduler
   against exhaustive search; the planner's dwell guard.

Runs stay small: two or three actors, two or three values, one more than the
capacity of whatever overflows.

## 8 Running it

```
tlc -workers 2 -config MCRaft_three.cfg MCRaft.tla
tlapm RaftProofs.tla
```

`PROJECT.json` lists the runs with their modules and configurations, the
mutations each property is known to detect (an operator named after the
definition it distorts, such as `Verified_TimeOnly`), the source lines of every
definition, the hazards, the findings and the theorems.
