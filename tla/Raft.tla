-------------------------------- MODULE Raft --------------------------------
(***************************************************************************)
(* The consensus core of fleetqox/raft.py as it runs under its driver,     *)
(* scripts/fleetqox_raft_node_service.py.  A driver thread takes the       *)
(* node's lock, feeds one event to the RaftNode, applies what became       *)
(* committed, releases the lock and sends the outbox: one action here.     *)
(*                                                                         *)
(* Indices.  The code counts log positions from 0 and writes -1 for none.  *)
(* Here every index is the number of entries it covers: commit_index,      *)
(* match_index, prev_log_index and last_log_index are the code's value     *)
(* plus one, next_index and match_length_hint are the code's value.        *)
(*                                                                         *)
(* Messages.  Every RPC is an HTTP POST sent from a thread of its own, so  *)
(* requests and replies are delayed and reordered, and post_json gives up  *)
(* on a refused or broken connection or a timeout; the heartbeat loop      *)
(* re-sends equal requests, so equal messages arrive repeatedly.  Any part *)
(* of an outbox may therefore be lost at once, a message stays in its set  *)
(* after a delivery, and PostFails removes it.                             *)
(***************************************************************************)
EXTENDS Integers, Sequences, FiniteSets

CONSTANTS
    Node,       \* the replicas: node_id and the peer_ids
    Command,    \* what clients propose
    None,       \* Python's None in voted_for and leader_id
    Contender,  \* bound: the replicas whose election timer may fire
    MaxTerm,    \* bound on the elections started
    MaxLog,     \* bound on the length of a leader's log
    MaxInFlight \* bound on the messages in flight

ASSUME NodeAssumption == /\ IsFiniteSet(Node)
                         /\ None \notin Node
                         /\ Contender \subseteq Node
ASSUME BoundAssumption == {MaxTerm, MaxLog, MaxInFlight} \subseteq Nat

VARIABLES
    current_term, voted_for, log,       \* persistent state of Figure 2
    commit_index, role, leader_id,      \* volatile state, all replicas
    votes_received,                     \* candidates only
    next_index, match_index,            \* leaders only
    applied,                            \* commands the state machine consumed
    request_votes, vote_replies,        \* RPCs in flight
    append_entries, append_replies

electionVars == <<current_term, voted_for, role, leader_id, votes_received>>
logVars      == <<log, commit_index, applied>>
leaderVars   == <<next_index, match_index>>
netVars      == <<request_votes, vote_replies, append_entries, append_replies>>
vars         == <<electionVars, logVars, leaderVars, netVars>>

Role  == {"follower", "candidate", "leader"}
Term  == Nat
Entry == [term : Term, command : Command]

RequestVoteRequest ==
    [term : Term, candidate_id : Node, dst : Node,
     last_log_index : Nat, last_log_term : Term]
RequestVoteResponse ==
    [term : Term, vote_granted : BOOLEAN, voter_id : Node, dst : Node]
AppendEntriesRequest ==
    [term : Term, leader_id : Node, dst : Node, prev_log_index : Nat,
     prev_log_term : Term, entries : Seq(Entry), leader_commit : Nat]
AppendEntriesResponse ==
    [term : Term, success : BOOLEAN, follower_id : Node, dst : Node,
     match_length_hint : Nat]

Peers(n)  == Node \ {n}
Majority  == Cardinality(Node) \div 2 + 1

-----------------------------------------------------------------------------
(* Log helpers *)

LastLogTerm(lg) == IF Len(lg) > 0 THEN lg[Len(lg)].term ELSE 0

LogUpToDate_Always(lg, lastTerm, lastIndex) == lastIndex >= 0

\* Section 5.4.1: the later last term wins, then the longer log.
LogUpToDate(lg, lastTerm, lastIndex) ==
    IF lastTerm # LastLogTerm(lg)
    THEN lastTerm > LastLogTerm(lg)
    ELSE lastIndex >= Len(lg)

\* The offsets at which the entries of a request contradict the log.
Conflicts(lg, prev, entries) ==
    {k \in 1..Len(entries) : /\ prev + k <= Len(lg)
                             /\ lg[prev + k].term # entries[k].term}

\* How much of the log survives the insertion loop: everything before the
\* first conflict, or all of it.
Kept(lg, prev, entries) ==
    LET C == Conflicts(lg, prev, entries)
    IN  IF C = {} THEN Len(lg)
        ELSE prev + (CHOOSE k \in C : \A j \in C : k <= j) - 1

Merge_KeepsConflict(lg, prev, entries) ==
    lg \o SubSeq(entries, Len(lg) - prev + 1, Len(entries))

\* The insertion loop: entries already present are kept, the first conflict
\* truncates, everything after it is appended.
Merge(lg, prev, entries) ==
    LET kept == Kept(lg, prev, entries)
    IN  SubSeq(lg, 1, kept) \o SubSeq(entries, kept - prev + 1, Len(entries))

VoteAfter_EqualTerm(n, t) ==
    IF t >= current_term[n] THEN None ELSE voted_for[n]
RoleAfter_EqualTerm(n, t) ==
    IF t >= current_term[n] THEN "follower" ELSE role[n]

\* _step_down_if_stale: what a message of term t leaves of the election state.
TermAfter(n, t)  == IF t > current_term[n] THEN t ELSE current_term[n]
VoteAfter(n, t)  == IF t > current_term[n] THEN None ELSE voted_for[n]
RoleAfter(n, t)  == IF t > current_term[n] THEN "follower" ELSE role[n]
VotesAfter(n, t) == IF t > current_term[n] THEN {} ELSE votes_received[n]

StepDownIfStale(n, t) ==
    /\ current_term'   = [current_term EXCEPT ![n] = TermAfter(n, t)]
    /\ votes_received' = [votes_received EXCEPT ![n] = VotesAfter(n, t)]

\* take_newly_committed with the driver's _apply_committed_locked.
ApplyCommitted(n, lg, commit) ==
    applied' = [applied EXCEPT ![n] =
        IF commit <= Len(@) THEN @
        ELSE [k \in 1..commit |->
                IF k <= Len(applied[n]) THEN applied[n][k] ELSE lg[k].command]]

-----------------------------------------------------------------------------
(* Sending *)

\* _send_outbox: a thread per message, each of which may fail to connect.
Post(net, outbox) == {net \cup sent : sent \in SUBSET outbox}

AppendEntriesFor_ZeroBased(n, p, term, lg, nextIdx) ==
    [term           |-> term,
     leader_id      |-> n,
     dst            |-> p,
     prev_log_index |-> nextIdx - 1,
     prev_log_term  |-> IF nextIdx \in 1..Len(lg) THEN lg[nextIdx].term ELSE 0,
     entries        |-> SubSeq(lg, nextIdx + 1, Len(lg)),
     leader_commit  |-> commit_index[n]]

AppendEntriesFor(n, p, term, lg, nextIdx) ==
    [term           |-> term,
     leader_id      |-> n,
     dst            |-> p,
     prev_log_index |-> nextIdx,
     prev_log_term  |-> IF nextIdx \in 1..Len(lg) THEN lg[nextIdx].term ELSE 0,
     entries        |-> SubSeq(lg, nextIdx + 1, Len(lg)),
     leader_commit  |-> commit_index[n]]

\* on_heartbeat_due, for a leader whose log is lg and whose next_index is nx.
Heartbeats(n, lg, nx) ==
    {AppendEntriesFor(n, p, current_term[n], lg, nx[p]) : p \in Peers(n)}

AdvancedCommit_Alone(n, match) ==
    IF Len(log[n]) > commit_index[n] THEN Len(log[n]) ELSE commit_index[n]

\* _advance_commit_index: the highest index of the current term a majority
\* is believed to hold.
AdvancedCommit(n, match) ==
    LET Replicas(i) == {n} \cup {p \in Peers(n) : match[p] >= i}
        Safe == {i \in commit_index[n] + 1 .. Len(log[n]) :
                    /\ log[n][i].term = current_term[n]
                    /\ Cardinality(Replicas(i)) >= Majority}
    IN  IF Safe = {} THEN commit_index[n]
        ELSE CHOOSE i \in Safe : \A j \in Safe : j <= i

-----------------------------------------------------------------------------
Init ==
    /\ current_term   = [n \in Node |-> 0]
    /\ voted_for      = [n \in Node |-> None]
    /\ log            = [n \in Node |-> <<>>]
    /\ commit_index   = [n \in Node |-> 0]
    /\ role           = [n \in Node |-> "follower"]
    /\ leader_id      = [n \in Node |-> None]
    /\ votes_received = [n \in Node |-> {}]
    /\ next_index     = [n \in Node |-> [p \in Node |-> 0]]
    /\ match_index    = [n \in Node |-> [p \in Node |-> 0]]
    /\ applied        = [n \in Node |-> <<>>]
    /\ request_votes  = {} /\ vote_replies   = {}
    /\ append_entries = {} /\ append_replies = {}

\* The election loop's timer fires on a node that does not lead.
OnElectionTimeout(n) ==
    /\ n \in Contender
    /\ role[n] # "leader"
    /\ current_term[n] < MaxTerm
    /\ role'           = [role EXCEPT ![n] = "candidate"]
    /\ current_term'   = [current_term EXCEPT ![n] = @ + 1]
    /\ voted_for'      = [voted_for EXCEPT ![n] = n]
    /\ votes_received' = [votes_received EXCEPT ![n] = {n}]
    /\ leader_id'      = [leader_id EXCEPT ![n] = None]
    /\ request_votes' \in Post(request_votes,
           {[term |-> current_term[n] + 1, candidate_id |-> n, dst |-> p,
             last_log_index |-> Len(log[n]),
             last_log_term  |-> LastLogTerm(log[n])] : p \in Peers(n)})
    /\ UNCHANGED <<logVars, leaderVars, vote_replies, append_entries,
                   append_replies>>

\* A peer answers a vote request.
HandleRequestVote(m) ==
    LET n     == m.dst
        grant == /\ m.term >= current_term[n]
                 /\ VoteAfter(n, m.term) \in {None, m.candidate_id}
                 /\ LogUpToDate(log[n], m.last_log_term, m.last_log_index)
    IN  /\ StepDownIfStale(n, m.term)
        /\ role'      = [role EXCEPT ![n] = RoleAfter(n, m.term)]
        /\ voted_for' = [voted_for EXCEPT ![n] =
                            IF grant THEN m.candidate_id
                            ELSE VoteAfter(n, m.term)]
        /\ vote_replies' = vote_replies \cup
               {[term |-> TermAfter(n, m.term), vote_granted |-> grant,
                 voter_id |-> n, dst |-> m.candidate_id]}
        /\ UNCHANGED <<leader_id, logVars, leaderVars, request_votes,
                       append_entries, append_replies>>

\* _become_leader runs inside the reply handler that completes the majority.
BecomeLeader(n) ==
    LET nx == [p \in Node |-> Len(log[n])]
    IN  /\ role'        = [role EXCEPT ![n] = "leader"]
        /\ leader_id'   = [leader_id EXCEPT ![n] = n]
        /\ next_index'  = [next_index EXCEPT ![n] = nx]
        /\ match_index' = [match_index EXCEPT ![n] = [p \in Node |-> 0]]
        /\ append_entries' \in Post(append_entries, Heartbeats(n, log[n], nx))

\* A vote reply reaches the node that asked for it.
HandleRequestVoteResponse(m) ==
    LET n     == m.dst
        live  == role[n] = "candidate" /\ m.term = current_term[n]
        votes == votes_received[n] \cup {m.voter_id}
    IN  /\ voted_for' = [voted_for EXCEPT ![n] = VoteAfter(n, m.term)]
        /\ current_term' = [current_term EXCEPT ![n] = TermAfter(n, m.term)]
        /\ votes_received' = [votes_received EXCEPT ![n] =
               IF live /\ m.vote_granted THEN votes ELSE VotesAfter(n, m.term)]
        /\ IF live /\ m.vote_granted /\ Cardinality(votes) >= Majority
           THEN BecomeLeader(n)
           ELSE /\ role' = [role EXCEPT ![n] = RoleAfter(n, m.term)]
                /\ UNCHANGED <<leader_id, leaderVars, append_entries>>
        /\ UNCHANGED <<logVars, request_votes, vote_replies, append_replies>>

\* The heartbeat loop of a leader.
OnHeartbeatDue(n) ==
    /\ role[n] = "leader"
    /\ append_entries' \in Post(append_entries,
                                Heartbeats(n, log[n], next_index[n]))
    /\ UNCHANGED <<electionVars, logVars, leaderVars, request_votes,
                   vote_replies, append_replies>>

\* propose_put: append to the leader's own log and send it out at once.
Propose(n, c) ==
    /\ role[n] = "leader"
    /\ Len(log[n]) < MaxLog
    /\ LET lg == Append(log[n], [term |-> current_term[n], command |-> c])
       IN  /\ log' = [log EXCEPT ![n] = lg]
           /\ append_entries' \in Post(append_entries,
                                       Heartbeats(n, lg, next_index[n]))
    /\ UNCHANGED <<electionVars, commit_index, applied, leaderVars,
                   request_votes, vote_replies, append_replies>>

AppendReply(n, m, success, hint) ==
    append_replies' = append_replies \cup
        {[term |-> TermAfter(n, m.term), success |-> success,
          follower_id |-> n, dst |-> m.leader_id, match_length_hint |-> hint]}

\* A replica answers an AppendEntries request of an earlier term.
RejectStaleAppend(m) ==
    /\ m.term < current_term[m.dst]
    /\ AppendReply(m.dst, m, FALSE, Len(log[m.dst]))
    /\ UNCHANGED <<electionVars, logVars, leaderVars, request_votes,
                   vote_replies, append_entries>>

\* What an AppendEntries of a current term does before the log is looked at.
AcceptLeader(n, m) ==
    /\ m.term >= current_term[n]
    /\ StepDownIfStale(n, m.term)
    /\ voted_for' = [voted_for EXCEPT ![n] = VoteAfter(n, m.term)]
    /\ role'      = [role EXCEPT ![n] = "follower"]
    /\ leader_id' = [leader_id EXCEPT ![n] = m.leader_id]
    /\ UNCHANGED <<leaderVars, request_votes, vote_replies, append_entries>>

PrevMatches(lg, m) ==
    \/ m.prev_log_index = 0
    \/ /\ m.prev_log_index \in 1..Len(lg)
       /\ lg[m.prev_log_index].term = m.prev_log_term

\* prev_log_index is beyond the log, or holds another term: the log is cut
\* at the conflict and the request refused.
RejectMismatch(m) ==
    LET n == m.dst
        lg == IF m.prev_log_index > Len(log[n]) THEN log[n]
              ELSE SubSeq(log[n], 1, m.prev_log_index - 1)
    IN  /\ AcceptLeader(n, m)
        /\ ~PrevMatches(log[n], m)
        /\ log' = [log EXCEPT ![n] = lg]
        /\ ApplyCommitted(n, lg, commit_index[n])
        /\ AppendReply(n, m, FALSE, Len(lg))
        /\ UNCHANGED commit_index

\* The consistency check passes: merge the entries, follow leader_commit and
\* report the length of the whole log.
AcceptEntries(m) ==
    LET n  == m.dst
        lg == Merge(log[n], m.prev_log_index, m.entries)
        commit == IF m.leader_commit > commit_index[n]
                  THEN IF m.leader_commit <= Len(lg) THEN m.leader_commit
                       ELSE Len(lg)
                  ELSE commit_index[n]
    IN  /\ AcceptLeader(n, m)
        /\ PrevMatches(log[n], m)
        /\ log' = [log EXCEPT ![n] = lg]
        /\ commit_index' = [commit_index EXCEPT ![n] = commit]
        /\ ApplyCommitted(n, lg, commit)
        /\ AppendReply(n, m, TRUE, Len(lg))

\* An AppendEntries reply reaches its leader: success moves match_index and
\* may commit, refusal backs next_index off to the hint and retries at once.
HandleAppendEntriesResponse(m) ==
    LET n == m.dst
        p == m.follower_id
        live == role[n] = "leader" /\ m.term = current_term[n]
        match == [match_index[n] EXCEPT ![p] = m.match_length_hint]
        commit == IF live /\ m.success THEN AdvancedCommit(n, match)
                  ELSE commit_index[n]
    IN  /\ StepDownIfStale(n, m.term)
        /\ voted_for' = [voted_for EXCEPT ![n] = VoteAfter(n, m.term)]
        /\ role'      = [role EXCEPT ![n] = RoleAfter(n, m.term)]
        /\ match_index' = IF live /\ m.success
                          THEN [match_index EXCEPT ![n] = match]
                          ELSE match_index
        /\ next_index'  = IF live
                          THEN [next_index EXCEPT ![n][p] = m.match_length_hint]
                          ELSE next_index
        /\ append_entries' \in Post(append_entries, IF live /\ ~m.success
               THEN {AppendEntriesFor(n, p, current_term[n], log[n],
                                      m.match_length_hint)}
               ELSE {})
        /\ commit_index' = [commit_index EXCEPT ![n] = commit]
        /\ ApplyCommitted(n, log[n], commit)
        /\ UNCHANGED <<leader_id, log, request_votes, vote_replies,
                       append_replies>>

\* post_json gives up on a request, or the response to it is lost.
PostFails ==
    /\ \/ \E m \in request_votes :
             /\ request_votes' = request_votes \ {m}
             /\ UNCHANGED <<vote_replies, append_entries, append_replies>>
       \/ \E m \in vote_replies :
             /\ vote_replies' = vote_replies \ {m}
             /\ UNCHANGED <<request_votes, append_entries, append_replies>>
       \/ \E m \in append_entries :
             /\ append_entries' = append_entries \ {m}
             /\ UNCHANGED <<request_votes, vote_replies, append_replies>>
       \/ \E m \in append_replies :
             /\ append_replies' = append_replies \ {m}
             /\ UNCHANGED <<request_votes, vote_replies, append_entries>>
    /\ UNCHANGED <<electionVars, logVars, leaderVars>>

InFlight == Cardinality(request_votes) + Cardinality(vote_replies)
            + Cardinality(append_entries) + Cardinality(append_replies)

Room == InFlight' <= MaxInFlight

Next ==
    \/ \E n \in Node : OnElectionTimeout(n) /\ Room
    \/ \E n \in Node : OnHeartbeatDue(n) /\ Room
    \/ \E n \in Node, c \in Command : Propose(n, c) /\ Room
    \/ \E m \in request_votes  : HandleRequestVote(m) /\ Room
    \/ \E m \in vote_replies   : HandleRequestVoteResponse(m) /\ Room
    \/ \E m \in append_entries : RejectStaleAppend(m) /\ Room
    \/ \E m \in append_entries : RejectMismatch(m) /\ Room
    \/ \E m \in append_entries : AcceptEntries(m) /\ Room
    \/ \E m \in append_replies : HandleAppendEntriesResponse(m) /\ Room
    \/ PostFails

Spec == Init /\ [][Next]_vars

-----------------------------------------------------------------------------
(* Properties *)

\* Type correctness of a replica's state and of the RPCs in flight.
TypeOK ==
    /\ current_term \in [Node -> Term]
    /\ voted_for \in [Node -> Node \cup {None}]
    /\ log \in [Node -> Seq(Entry)]
    /\ commit_index \in [Node -> Nat]
    /\ role \in [Node -> Role]
    /\ leader_id \in [Node -> Node \cup {None}]
    /\ votes_received \in [Node -> SUBSET Node]
    /\ next_index \in [Node -> [Node -> Nat]]
    /\ match_index \in [Node -> [Node -> Nat]]
    /\ applied \in [Node -> Seq(Command)]
    /\ request_votes  \subseteq RequestVoteRequest
    /\ vote_replies   \subseteq RequestVoteResponse
    /\ append_entries \subseteq AppendEntriesRequest
    /\ append_replies \subseteq AppendEntriesResponse

\* Election safety: no two replicas lead in the same term, whatever order
\* vote requests and replies arrive in and however late.
ElectionSafety ==
    \A n, o \in Node :
        role[n] = "leader" /\ role[o] = "leader"
            /\ current_term[n] = current_term[o] => n = o

\* Log matching: logs that hold an entry of the same term at the same index
\* agree on everything up to it, commands included.
LogMatching ==
    \A n, o \in Node :
        \A i \in 1..Len(log[n]) :
            i <= Len(log[o]) /\ log[n][i].term = log[o][i].term
                => \A j \in 1..i : log[n][j] = log[o][j]

\* State machine safety: any two replicas have applied the same commands in
\* the same order, one possibly fewer than the other.
StateMachineSafety ==
    \A n, o \in Node :
        \A k \in 1..Len(applied[n]) :
            k <= Len(applied[o]) => applied[n][k] = applied[o][k]

\* What a replica has applied is on a majority of the logs, so that whoever
\* is elected next must hold it.
AppliedOnMajority ==
    \A n \in Node : \A k \in 1..Len(applied[n]) :
        Cardinality({o \in Node : /\ k <= Len(log[o])
                                  /\ log[o][k].command = applied[n][k]})
            >= Majority

\* A leader keeps leading for as long as its term lasts, and its log only
\* grows meanwhile: no AppendEntries of its own term can reach it.
LeaderLogGrows ==
    \A n \in Node :
        role[n] = "leader" /\ current_term'[n] = current_term[n]
            => /\ role'[n] = "leader"
               /\ Len(log'[n]) >= Len(log[n])
               /\ \A i \in 1..Len(log[n]) : log'[n][i] = log[n][i]

LeaderKeepsLog == [][LeaderLogGrows]_vars

=============================================================================
