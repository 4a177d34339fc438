------------------------------- MODULE RaftKv -------------------------------
(***************************************************************************)
(* The client side of scripts/fleetqox_raft_node_service.py on top of      *)
(* Raft: a POST to /kv appends the command at the leader and a handler     *)
(* thread then polls last_applied, taking the node's lock for each look,   *)
(* until the entry's index is covered, the node no longer leads, or the    *)
(* five seconds are over.  The thread remembers the index and nothing      *)
(* else of the entry.                                                      *)
(***************************************************************************)
EXTENDS Raft

VARIABLES
    pending,    \* handler threads inside wait_for_commit
    acked       \* requests answered with "committed"

kvVars == <<pending, acked>>

Request == [node : Node, index : Nat, command : Command]

KvInit == Init /\ pending = {} /\ acked = {}

\* do_POST on /kv at a node that leads: propose_put, then wait_for_commit.
PostKv(n, c) ==
    /\ Propose(n, c)
    /\ pending' = pending \cup
           {[node |-> n, index |-> Len(log[n]) + 1, command |-> c]}
    /\ UNCHANGED acked

WaitCommitted_OffByOne(w) ==
    /\ Len(applied[w.node]) >= w.index - 1
    /\ pending' = pending \ {w}
    /\ acked'   = acked \cup {w}
    /\ UNCHANGED vars

\* The poll that finds last_applied at or past the index, whoever leads.
WaitCommitted(w) ==
    /\ Len(applied[w.node]) >= w.index
    /\ pending' = pending \ {w}
    /\ acked'   = acked \cup {w}
    /\ UNCHANGED vars

\* The node was seen not to lead before the index was applied.
WaitDeposed(w) ==
    /\ Len(applied[w.node]) < w.index
    /\ role[w.node] # "leader"
    /\ pending' = pending \ {w}
    /\ UNCHANGED <<vars, acked>>

\* The deadline passes between two polls.
WaitTimesOut(w) ==
    /\ pending' = pending \ {w}
    /\ UNCHANGED <<vars, acked>>

KvNext ==
    \/ \E n \in Node, c \in Command : PostKv(n, c) /\ Room
    \/ \E w \in pending : WaitCommitted(w)
    \/ \E w \in pending : WaitDeposed(w)
    \/ \E w \in pending : WaitTimesOut(w)
    \/ \E n \in Node : OnElectionTimeout(n) /\ Room /\ UNCHANGED kvVars
    \/ \E n \in Node : OnHeartbeatDue(n) /\ Room /\ UNCHANGED kvVars
    \/ \E m \in request_votes :
           HandleRequestVote(m) /\ Room /\ UNCHANGED kvVars
    \/ \E m \in vote_replies :
           HandleRequestVoteResponse(m) /\ Room /\ UNCHANGED kvVars
    \/ \E m \in append_entries :
           RejectStaleAppend(m) /\ Room /\ UNCHANGED kvVars
    \/ \E m \in append_entries :
           RejectMismatch(m) /\ Room /\ UNCHANGED kvVars
    \/ \E m \in append_entries :
           AcceptEntries(m) /\ Room /\ UNCHANGED kvVars
    \/ \E m \in append_replies :
           HandleAppendEntriesResponse(m) /\ Room /\ UNCHANGED kvVars
    \/ PostFails /\ UNCHANGED kvVars

KvSpec == KvInit /\ [][KvNext]_<<vars, kvVars>>

-----------------------------------------------------------------------------
(* Properties *)

\* A client told "committed" finds its own command in the state machine of
\* the node that told it, at the index the node gave the command, although
\* leaders change and logs are cut between the append and the poll.
AckedIsApplied ==
    \A w \in acked : /\ w.index <= Len(applied[w.node])
                     /\ applied[w.node][w.index] = w.command

=============================================================================
