---------------------------- MODULE RaftProofs ------------------------------
(***************************************************************************)
(* Proofs about Raft, for every finite set of nodes and every bound:       *)
(* type correctness, election safety, leader append-only and log matching. *)
(*                                                                         *)
(* Election safety needs more than votes_received: a voter moves on to     *)
(* later terms and forgets whom it voted for, and replies are lost.  The   *)
(* invariant therefore speaks of bindings.  Bound(v, l, t) says that       *)
(* whatever v still does in term t can only help l; Elected(l, t) says     *)
(* that a majority is bound to l in term t.  Both survive every step, and  *)
(* every AppendEntries request comes from an elected node.                 *)
(*                                                                         *)
(* Log matching is proved of points: an entry with its index and the term  *)
(* of the entry before it.  Requests carry points on their way, so the     *)
(* invariant is about everything in a log or in flight.  Only propose_put  *)
(* makes a point; the insertion loop copies points, truncations included.  *)
(***************************************************************************)
EXTENDS Raft, NatFacts, TLAPS, FiniteSetTheorems, SequenceTheorems,
        NaturalsInduction, WellFoundedInduction

\* What SubSeq returns, the empty slice of a Python list included.
LEMMA SubSeqType ==
    ASSUME NEW S, NEW s \in Seq(S), NEW a \in Nat \ {0}, NEW b \in Nat,
           b <= Len(s)
    PROVE  /\ SubSeq(s, a, b) \in Seq(S)
           /\ Len(SubSeq(s, a, b)) = IF a <= b THEN b - a + 1 ELSE 0
           /\ \A i \in 1..(b - a + 1) : SubSeq(s, a, b)[i] = s[a + i - 1]
  OBVIOUS

\* Whatever part of an outbox is lost, nothing is in flight that was not sent.
LEMMA PostSubset ==
    ASSUME NEW net, NEW outbox, NEW x \in Post(net, outbox)
    PROVE  x \subseteq net \cup outbox
  BY DEF Post

\* The insertion loop of handle_append_entries keeps at least the entries up
\* to prev_log_index and never more than there are.
LEMMA KeptRange ==
    ASSUME NEW lg \in Seq(Entry), NEW es \in Seq(Entry), NEW prev \in Nat,
           prev <= Len(lg)
    PROVE  Kept(lg, prev, es) \in prev..Len(lg)
<1> DEFINE C == Conflicts(lg, prev, es)
<1>1. CASE C = {}
  BY <1>1 DEF Kept
<1>2. CASE C # {}
  <2>1. C \in SUBSET Nat
    BY DEF Conflicts
  <2>2. \E k \in C : \A j \in C : k <= j
    BY <1>2, <2>1, NatMin
  <2> DEFINE k == CHOOSE x \in C : \A j \in C : x <= j
  <2>3. k \in C
    BY <2>2
  <2>4. k \in 1..Len(es) /\ prev + k <= Len(lg)
    BY <2>3 DEF Conflicts
  <2>5. Kept(lg, prev, es) = prev + k - 1
    BY <1>2 DEF Kept
  <2> HIDE DEF k
  <2> QED BY <2>4, <2>5
<1> QED BY <1>1, <1>2

\* The insertion loop leaves a log.
LEMMA MergeType ==
    ASSUME NEW lg \in Seq(Entry), NEW es \in Seq(Entry), NEW prev \in Nat,
           prev <= Len(lg)
    PROVE  Merge(lg, prev, es) \in Seq(Entry)
<1> DEFINE kept == Kept(lg, prev, es)
<1>1. kept \in prev..Len(lg)
  BY KeptRange
<1>2. SubSeq(lg, 1, kept) \in Seq(Entry)
  BY <1>1, SubSeqType
<1>3. SubSeq(es, kept - prev + 1, Len(es)) \in Seq(Entry)
  <2>1. kept - prev + 1 \in Nat \ {0} /\ Len(es) \in Nat
    BY <1>1
  <2> HIDE DEF kept
  <2> QED BY <2>1, SubSeqType
<1> QED BY <1>2, <1>3 DEF Merge

\* _append_entries_for builds a request even where next_index lies past the
\* end of the log.
LEMMA AppendEntriesForType ==
    ASSUME TypeOK, NEW n \in Node, NEW p \in Node, NEW t \in Term,
           NEW lg \in Seq(Entry), NEW nx \in Nat
    PROVE  AppendEntriesFor(n, p, t, lg, nx) \in AppendEntriesRequest
<1>1. SubSeq(lg, nx + 1, Len(lg)) \in Seq(Entry)
  BY SubSeqType
<1>2. (IF nx \in 1..Len(lg) THEN lg[nx].term ELSE 0) \in Term
  <2>1. CASE nx \in 1..Len(lg)
    <3>1. lg[nx] \in Entry
      BY <2>1
    <3> QED BY <2>1, <3>1 DEF Entry, Term
  <2>2. CASE ~(nx \in 1..Len(lg))
    BY <2>2 DEF Term
  <2> QED BY <2>1, <2>2
<1>3. commit_index[n] \in Nat
  BY DEF TypeOK
<1> QED BY <1>1, <1>2, <1>3 DEF AppendEntriesFor, AppendEntriesRequest

\* on_heartbeat_due builds requests.
LEMMA HeartbeatsType ==
    ASSUME TypeOK, NEW n \in Node, NEW lg \in Seq(Entry), NEW nx \in [Node -> Nat]
    PROVE  Heartbeats(n, lg, nx) \subseteq AppendEntriesRequest
<1>1. current_term[n] \in Term
  BY DEF TypeOK
<1> QED BY <1>1, AppendEntriesForType DEF Heartbeats, Peers

\* _advance_commit_index leaves commit_index alone or moves it to an index
\* inside the leader's log that a majority is believed to hold.
LEMMA AdvancedCommitType ==
    ASSUME TypeOK, NEW n \in Node, NEW match
    PROVE  /\ AdvancedCommit(n, match) \in Nat
           /\ \/ AdvancedCommit(n, match) = commit_index[n]
              \/ /\ AdvancedCommit(n, match) <= Len(log[n])
                 /\ Cardinality({n} \cup {p \in Peers(n) :
                        match[p] >= AdvancedCommit(n, match)}) >= Majority
<1> DEFINE Replicas(i) == {n} \cup {p \in Peers(n) : match[p] >= i}
           Safe == {i \in commit_index[n] + 1 .. Len(log[n]) :
                       /\ log[n][i].term = current_term[n]
                       /\ Cardinality(Replicas(i)) >= Majority}
<1>1. commit_index[n] \in Nat /\ Len(log[n]) \in Nat
  BY DEF TypeOK
<1>2. CASE Safe = {}
  <2>1. AdvancedCommit(n, match) = commit_index[n]
    BY <1>2 DEF AdvancedCommit
  <2> QED BY <2>1, <1>1
<1>3. CASE Safe # {}
  <2>1. Safe \in SUBSET Nat /\ \A i \in Safe : i <= Len(log[n])
    BY <1>1
  <2>2. \A i \in Safe : Cardinality(Replicas(i)) >= Majority
    OBVIOUS
  <2>3. AdvancedCommit(n, match) = CHOOSE i \in Safe : \A j \in Safe : j <= i
    BY <1>3 DEF AdvancedCommit
  <2> HIDE DEF Safe
  <2>4. \E i \in Safe : \A j \in Safe : j <= i
    BY <1>1, <1>3, <2>1, NatBoundedMax
  <2>5. AdvancedCommit(n, match) \in Safe
    BY <2>3, <2>4
  <2> QED BY <2>1, <2>2, <2>5
<1> QED BY <1>2, <1>3

-----------------------------------------------------------------------------
\* The driver applies what is committed before it releases the lock, so
\* commit_index is never ahead of what was applied.
CommitApplied == \A n \in Node : commit_index[n] <= Len(applied[n])

\* The type invariant, strengthened to be inductive.
TypeInv == TypeOK /\ CommitApplied

\* take_newly_committed never slices past the end of the log: it applies
\* nothing new, or commit_index lies inside the log it reads.
LEMMA ApplyCommittedType ==
    ASSUME TypeInv, NEW n \in Node, NEW lg \in Seq(Entry), NEW commit \in Nat,
           commit = commit_index[n] \/ commit <= Len(lg),
           ApplyCommitted(n, lg, commit)
    PROVE  /\ applied' \in [Node -> Seq(Command)]
           /\ commit <= Len(applied'[n])
           /\ \A o \in Node \ {n} : applied'[o] = applied[o]
<1> DEFINE new == [k \in 1..commit |->
                     IF k <= Len(applied[n]) THEN applied[n][k]
                     ELSE lg[k].command]
<1>0. applied \in [Node -> Seq(Command)] /\ commit_index[n] <= Len(applied[n])
  BY DEF TypeInv, TypeOK, CommitApplied
<1>1. CASE commit <= Len(applied[n])
  <2>1. applied' = [applied EXCEPT ![n] = applied[n]]
    BY <1>1, <1>0 DEF ApplyCommitted
  <2> QED BY <2>1, <1>0, <1>1
<1>2. CASE ~(commit <= Len(applied[n]))
  <2>0. commit_index[n] \in Nat /\ Len(applied[n]) \in Nat
    BY <1>0 DEF TypeInv, TypeOK
  <2>1. commit <= Len(lg)
    BY <1>0, <1>2, <2>0
  <2>2. \A k \in 1..commit :
           (IF k <= Len(applied[n]) THEN applied[n][k] ELSE lg[k].command)
               \in Command
    <3> SUFFICES ASSUME NEW k \in 1..commit
                 PROVE  (IF k <= Len(applied[n]) THEN applied[n][k]
                         ELSE lg[k].command) \in Command
      OBVIOUS
    <3>1. CASE k <= Len(applied[n])
      <4>1. applied[n] \in Seq(Command) /\ k \in 1..Len(applied[n])
        BY <1>0, <2>0, <3>1
      <4>2. applied[n][k] \in Command
        BY <4>1
      <4> QED BY <3>1, <4>2
    <3>2. CASE ~(k <= Len(applied[n]))
      <4>1. lg[k] \in Entry
        BY <2>1
      <4> QED BY <3>2, <4>1 DEF Entry
    <3> QED BY <3>1, <3>2
  <2>3. new \in Seq(Command) /\ Len(new) = commit
    BY <2>2
  <2>4. applied' = [applied EXCEPT ![n] = new]
    BY <1>2, <1>0 DEF ApplyCommitted
  <2> HIDE DEF new
  <2> QED BY <2>3, <2>4, <1>0
<1> QED BY <1>1, <1>2

\* Blank nodes satisfy the type invariant.
LEMMA TypeInit == Init => TypeInv
  BY NodeAssumption DEF Init, TypeInv, TypeOK, CommitApplied, Role, Term

\* A vote reply is a RequestVoteResponse.
LEMMA VoteReplyType ==
    ASSUME NEW t \in Term, NEW g \in BOOLEAN, NEW v \in Node, NEW c \in Node
    PROVE  [term |-> t, vote_granted |-> g, voter_id |-> v, dst |-> c]
               \in RequestVoteResponse
  BY Zenon DEF RequestVoteResponse

\* The reply of handle_append_entries is an AppendEntriesResponse.
LEMMA AppendReplyType ==
    ASSUME TypeOK, NEW n \in Node, NEW m \in AppendEntriesRequest,
           NEW s \in BOOLEAN, NEW h \in Nat, AppendReply(n, m, s, h)
    PROVE  append_replies' \subseteq AppendEntriesResponse
<1>1. m.term \in Term /\ m.leader_id \in Node /\ TermAfter(n, m.term) \in Term
  BY DEF AppendEntriesRequest, TypeOK, TermAfter
<1>2. \A t \in Term, l \in Node :
         [term |-> t, success |-> s, follower_id |-> n, dst |-> l,
          match_length_hint |-> h] \in AppendEntriesResponse
  BY Zenon DEF AppendEntriesResponse
<1>3. append_replies \subseteq AppendEntriesResponse
  BY DEF TypeOK
<1> QED BY <1>1, <1>2, <1>3 DEF AppendReply

\* _step_down_if_stale leaves well-typed election state.
LEMMA StepDownType ==
    ASSUME TypeOK, NEW n \in Node, NEW t \in Term
    PROVE  /\ TermAfter(n, t) \in Term
           /\ VoteAfter(n, t) \in Node \cup {None}
           /\ RoleAfter(n, t) \in Role
           /\ VotesAfter(n, t) \in SUBSET Node
  BY DEF TypeOK, TermAfter, VoteAfter, RoleAfter, VotesAfter, Role, Term

\* Every handler and timer preserves the type invariant.
LEMMA TypeStep == TypeInv /\ [Next]_vars => TypeInv'
<1> SUFFICES ASSUME TypeInv, [Next]_vars PROVE TypeInv'
  OBVIOUS
<1>0. TypeOK
  BY DEF TypeInv
<1>1. ASSUME NEW n \in Node, OnElectionTimeout(n) PROVE TypeInv'
  <2>1. request_votes' \subseteq RequestVoteRequest
    <3>1. Len(log[n]) \in Nat /\ LastLogTerm(log[n]) \in Term
             /\ current_term[n] + 1 \in Term
      <4>1. log[n] \in Seq(Entry) /\ current_term[n] \in Nat
        BY <1>0 DEF TypeOK, Term
      <4>2. CASE Len(log[n]) > 0
        <5>1. log[n][Len(log[n])] \in Entry
          BY <4>1, <4>2
        <5> QED BY <4>1, <4>2, <5>1 DEF LastLogTerm, Entry, Term
      <4>3. CASE ~(Len(log[n]) > 0)
        BY <4>1, <4>3 DEF LastLogTerm, Term
      <4> QED BY <4>2, <4>3
    <3> DEFINE S == {[term |-> current_term[n] + 1, candidate_id |-> n,
                      dst |-> p, last_log_index |-> Len(log[n]),
                      last_log_term  |-> LastLogTerm(log[n])] : p \in Peers(n)}
    <3>2. S \subseteq RequestVoteRequest
      BY <3>1 DEF RequestVoteRequest, Peers
    <3>3. request_votes' \in Post(request_votes, S)
      BY <1>1 DEF OnElectionTimeout
    <3> HIDE DEF S
    <3> QED BY <1>0, <3>2, <3>3, PostSubset DEF TypeOK
  <2>2. /\ current_term' \in [Node -> Term]
        /\ voted_for' \in [Node -> Node \cup {None}]
        /\ role' \in [Node -> Role]
        /\ leader_id' \in [Node -> Node \cup {None}]
        /\ votes_received' \in [Node -> SUBSET Node]
    BY <1>0, <1>1 DEF OnElectionTimeout, TypeOK, Term, Role
  <2> QED BY <1>0, <1>1, <2>1, <2>2
          DEF OnElectionTimeout, TypeInv, TypeOK, CommitApplied, logVars, leaderVars
<1>2. ASSUME NEW m \in request_votes, HandleRequestVote(m) PROVE TypeInv'
  <2> DEFINE n == m.dst
             grant == /\ m.term >= current_term[n]
                      /\ VoteAfter(n, m.term) \in {None, m.candidate_id}
                      /\ LogUpToDate(log[n], m.last_log_term, m.last_log_index)
  <2>1. n \in Node /\ m.candidate_id \in Node /\ m.term \in Term
    BY <1>0 DEF TypeOK, RequestVoteRequest
  <2>2. /\ TermAfter(n, m.term) \in Term
        /\ VoteAfter(n, m.term) \in Node \cup {None}
        /\ RoleAfter(n, m.term) \in Role
        /\ VotesAfter(n, m.term) \in SUBSET Node
    BY <1>0, <2>1, StepDownType
  <2>3. grant \in BOOLEAN
    OBVIOUS
  <2>4. vote_replies' \subseteq RequestVoteResponse
    <3>1. vote_replies' = vote_replies \cup
               {[term |-> TermAfter(n, m.term), vote_granted |-> grant,
                 voter_id |-> n, dst |-> m.candidate_id]}
      BY <1>2 DEF HandleRequestVote
    <3> HIDE DEF grant
    <3>2. [term |-> TermAfter(n, m.term), vote_granted |-> grant,
           voter_id |-> n, dst |-> m.candidate_id] \in RequestVoteResponse
      BY <2>1, <2>2, <2>3, VoteReplyType
    <3>3. vote_replies \subseteq RequestVoteResponse
      BY <1>0 DEF TypeOK
    <3> QED BY <3>1, <3>2, <3>3
  <2>5. /\ current_term' \in [Node -> Term]
        /\ votes_received' \in [Node -> SUBSET Node]
        /\ role' \in [Node -> Role]
    BY <1>0, <1>2, <2>1, <2>2 DEF HandleRequestVote, StepDownIfStale, TypeOK
  <2>6. voted_for' \in [Node -> Node \cup {None}]
    BY <1>0, <1>2, <2>1, <2>2 DEF HandleRequestVote, TypeOK
  <2> QED BY <1>0, <1>2, <2>4, <2>5, <2>6
          DEF HandleRequestVote, TypeInv, TypeOK, CommitApplied, logVars, leaderVars
<1>3. ASSUME NEW m \in vote_replies, HandleRequestVoteResponse(m)
      PROVE  TypeInv'
  <2> DEFINE n == m.dst
             votes == votes_received[n] \cup {m.voter_id}
             nx == [p \in Node |-> Len(log[n])]
  <2>1. n \in Node /\ m.voter_id \in Node /\ m.term \in Term
    BY <1>0 DEF TypeOK, RequestVoteResponse
  <2>2. /\ TermAfter(n, m.term) \in Term
        /\ VoteAfter(n, m.term) \in Node \cup {None}
        /\ RoleAfter(n, m.term) \in Role
        /\ VotesAfter(n, m.term) \in SUBSET Node
    BY <1>0, <2>1, StepDownType
  <2>3. /\ current_term' \in [Node -> Term]
        /\ voted_for' \in [Node -> Node \cup {None}]
    BY <1>0, <1>3, <2>1, <2>2 DEF HandleRequestVoteResponse, TypeOK
  <2>4. votes_received' \in [Node -> SUBSET Node]
    <3>1. votes \in SUBSET Node /\ votes_received \in [Node -> SUBSET Node]
      BY <1>0, <2>1 DEF TypeOK
    <3> QED BY <1>3, <2>1, <2>2, <3>1 DEF HandleRequestVoteResponse
  <2>5. /\ role' \in [Node -> Role]
        /\ leader_id' \in [Node -> Node \cup {None}]
        /\ next_index' \in [Node -> [Node -> Nat]]
        /\ match_index' \in [Node -> [Node -> Nat]]
        /\ append_entries' \subseteq AppendEntriesRequest
    <3>1. CASE BecomeLeader(n)
      <4>1. log[n] \in Seq(Entry) /\ nx \in [Node -> Nat]
        BY <1>0, <2>1 DEF TypeOK
      <4>2. Heartbeats(n, log[n], nx) \subseteq AppendEntriesRequest
        BY <1>0, <2>1, <4>1, HeartbeatsType
      <4>3. append_entries' \in Post(append_entries,
                                     Heartbeats(n, log[n], nx))
        BY <3>1 DEF BecomeLeader
      <4>4. append_entries' \subseteq AppendEntriesRequest
        BY <1>0, <4>2, <4>3, PostSubset DEF TypeOK
      <4> QED BY <1>0, <2>1, <3>1, <4>1, <4>4
              DEF BecomeLeader, TypeOK, Role
    <3>2. CASE /\ role' = [role EXCEPT ![n] = RoleAfter(n, m.term)]
               /\ UNCHANGED <<leader_id, leaderVars, append_entries>>
      BY <1>0, <2>1, <2>2, <3>2 DEF TypeOK, leaderVars
    <3> QED BY <1>3, <3>1, <3>2 DEF HandleRequestVoteResponse
  <2> QED BY <1>0, <1>3, <2>3, <2>4, <2>5
          DEF HandleRequestVoteResponse, TypeInv, TypeOK, CommitApplied, logVars
<1>4. ASSUME NEW n \in Node, OnHeartbeatDue(n) PROVE TypeInv'
  <2>1. append_entries' \subseteq AppendEntriesRequest
    <3>1. log[n] \in Seq(Entry) /\ next_index[n] \in [Node -> Nat]
      BY <1>0 DEF TypeOK
    <3>2. Heartbeats(n, log[n], next_index[n]) \subseteq AppendEntriesRequest
      BY <1>0, <3>1, HeartbeatsType
    <3>3. append_entries' \in Post(append_entries,
                                   Heartbeats(n, log[n], next_index[n]))
      BY <1>4 DEF OnHeartbeatDue
    <3> QED BY <1>0, <3>2, <3>3, PostSubset DEF TypeOK
  <2> QED BY <1>0, <1>4, <2>1
          DEF OnHeartbeatDue, TypeInv, TypeOK, CommitApplied,
              electionVars, logVars, leaderVars
<1>5. ASSUME NEW n \in Node, NEW c \in Command, Propose(n, c) PROVE TypeInv'
  <2> DEFINE e == [term |-> current_term[n], command |-> c]
             lg == Append(log[n], e)
  <2>1. e \in Entry
    BY <1>0 DEF TypeOK, Entry
  <2>2. log[n] \in Seq(Entry) /\ next_index[n] \in [Node -> Nat]
    BY <1>0 DEF TypeOK
  <2>3. lg \in Seq(Entry)
    <3> HIDE DEF e
    <3> QED BY <2>1, <2>2
  <2>4. log' = [log EXCEPT ![n] = lg]
    BY <1>5 DEF Propose
  <2>5. append_entries' \in Post(append_entries,
                                 Heartbeats(n, lg, next_index[n]))
    BY <1>5 DEF Propose
  <2> HIDE DEF lg
  <2>6. Heartbeats(n, lg, next_index[n]) \subseteq AppendEntriesRequest
    BY <1>0, <2>2, <2>3, HeartbeatsType
  <2>7. log' \in [Node -> Seq(Entry)]
    BY <1>0, <2>3, <2>4 DEF TypeOK
  <2>8. append_entries' \subseteq AppendEntriesRequest
    BY <1>0, <2>5, <2>6, PostSubset DEF TypeOK
  <2> QED BY <1>0, <1>5, <2>7, <2>8
          DEF Propose, TypeInv, TypeOK, CommitApplied, electionVars, leaderVars
<1>6. ASSUME NEW m \in append_entries, RejectStaleAppend(m) PROVE TypeInv'
  <2>1. m \in AppendEntriesRequest /\ m.dst \in Node
    BY <1>0 DEF TypeOK, AppendEntriesRequest
  <2>2. Len(log[m.dst]) \in Nat
    BY <1>0, <2>1 DEF TypeOK
  <2>3. append_replies' \subseteq AppendEntriesResponse
    BY <1>0, <1>6, <2>1, <2>2, AppendReplyType DEF RejectStaleAppend
  <2> QED BY <1>0, <1>6, <2>3
          DEF RejectStaleAppend, TypeInv, TypeOK, CommitApplied,
              electionVars, logVars, leaderVars
<1>7. ASSUME NEW m \in append_entries, AcceptLeader(m.dst, m)
      PROVE  /\ current_term' \in [Node -> Term]
             /\ voted_for' \in [Node -> Node \cup {None}]
             /\ role' \in [Node -> Role]
             /\ leader_id' \in [Node -> Node \cup {None}]
             /\ votes_received' \in [Node -> SUBSET Node]
             /\ UNCHANGED <<next_index, match_index, request_votes,
                            vote_replies, append_entries>>
  <2>1. m.dst \in Node /\ m.leader_id \in Node /\ m.term \in Term
    BY <1>0 DEF TypeOK, AppendEntriesRequest
  <2>2. /\ TermAfter(m.dst, m.term) \in Term
        /\ VoteAfter(m.dst, m.term) \in Node \cup {None}
        /\ VotesAfter(m.dst, m.term) \in SUBSET Node
    BY <1>0, <2>1, StepDownType
  <2> QED BY <1>0, <1>7, <2>1, <2>2
          DEF AcceptLeader, StepDownIfStale, TypeOK, Role, leaderVars
<1>8. ASSUME NEW m \in append_entries, RejectMismatch(m) PROVE TypeInv'
  <2> DEFINE n == m.dst
             lg == IF m.prev_log_index > Len(log[n]) THEN log[n]
                   ELSE SubSeq(log[n], 1, m.prev_log_index - 1)
  <2>1. /\ m \in AppendEntriesRequest /\ n \in Node
        /\ m.prev_log_index \in Nat /\ log[n] \in Seq(Entry)
    BY <1>0 DEF TypeOK, AppendEntriesRequest
  <2>2. lg \in Seq(Entry) /\ Len(lg) \in Nat
    <3>1. m.prev_log_index # 0
      BY <1>8 DEF RejectMismatch, PrevMatches
    <3>2. CASE m.prev_log_index > Len(log[n])
      BY <2>1, <3>2
    <3>3. CASE ~(m.prev_log_index > Len(log[n]))
      <4>1. m.prev_log_index - 1 \in Nat /\ m.prev_log_index - 1 <= Len(log[n])
        BY <2>1, <3>1, <3>3
      <4>2. SubSeq(log[n], 1, m.prev_log_index - 1) \in Seq(Entry)
        BY <2>1, <4>1, SubSeqType
      <4> QED BY <3>3, <4>2
    <3> QED BY <3>2, <3>3
  <2>3. /\ AcceptLeader(n, m)
        /\ log' = [log EXCEPT ![n] = lg]
        /\ ApplyCommitted(n, lg, commit_index[n])
        /\ AppendReply(n, m, FALSE, Len(lg))
        /\ UNCHANGED commit_index
    BY <1>8 DEF RejectMismatch
  <2> HIDE DEF lg
  <2>4. /\ applied' \in [Node -> Seq(Command)]
        /\ commit_index[n] <= Len(applied'[n])
        /\ \A o \in Node \ {n} : applied'[o] = applied[o]
    <3>1. commit_index[n] \in Nat
      BY <1>0, <2>1 DEF TypeOK
    <3> QED BY <2>1, <2>2, <2>3, <3>1, ApplyCommittedType
  <2>5. append_replies' \subseteq AppendEntriesResponse
    BY <1>0, <2>1, <2>2, <2>3, AppendReplyType
  <2>6. CommitApplied'
    BY <2>3, <2>4 DEF TypeInv, CommitApplied
  <2>7. log' \in [Node -> Seq(Entry)] /\ commit_index' \in [Node -> Nat]
    BY <1>0, <2>2, <2>3 DEF TypeOK
  <2> QED BY <1>0, <1>7, <2>3, <2>4, <2>5, <2>6, <2>7 DEF TypeInv, TypeOK
<1>9. ASSUME NEW m \in append_entries, AcceptEntries(m) PROVE TypeInv'
  <2> DEFINE n == m.dst
             lg == Merge(log[n], m.prev_log_index, m.entries)
             commit == IF m.leader_commit > commit_index[n]
                       THEN IF m.leader_commit <= Len(lg) THEN m.leader_commit
                            ELSE Len(lg)
                       ELSE commit_index[n]
  <2>1. /\ m \in AppendEntriesRequest /\ n \in Node
        /\ m.prev_log_index \in Nat /\ log[n] \in Seq(Entry)
        /\ m.entries \in Seq(Entry) /\ m.leader_commit \in Nat
        /\ commit_index[n] \in Nat
    BY <1>0 DEF TypeOK, AppendEntriesRequest
  <2>2. lg \in Seq(Entry) /\ Len(lg) \in Nat
    <3>1. m.prev_log_index <= Len(log[n])
      BY <1>9, <2>1 DEF AcceptEntries, PrevMatches
    <3>2. lg \in Seq(Entry)
      BY <2>1, <3>1, MergeType
    <3> HIDE DEF lg
    <3> QED BY <3>2
  <2>3. /\ AcceptLeader(n, m)
        /\ log' = [log EXCEPT ![n] = lg]
        /\ commit_index' = [commit_index EXCEPT ![n] = commit]
        /\ ApplyCommitted(n, lg, commit)
        /\ AppendReply(n, m, TRUE, Len(lg))
    BY <1>9 DEF AcceptEntries
  <2> HIDE DEF lg
  <2>4. commit \in Nat /\ (commit = commit_index[n] \/ commit <= Len(lg))
    BY <2>1, <2>2
  <2> HIDE DEF commit
  <2>5. /\ applied' \in [Node -> Seq(Command)]
        /\ commit <= Len(applied'[n])
        /\ \A o \in Node \ {n} : applied'[o] = applied[o]
    BY <2>1, <2>2, <2>3, <2>4, ApplyCommittedType
  <2>6. append_replies' \subseteq AppendEntriesResponse
    BY <1>0, <2>1, <2>2, <2>3, AppendReplyType
  <2>7. log' \in [Node -> Seq(Entry)] /\ commit_index' \in [Node -> Nat]
    BY <1>0, <2>2, <2>3, <2>4 DEF TypeOK
  <2>8. CommitApplied'
    BY <1>0, <2>1, <2>3, <2>5 DEF TypeInv, TypeOK, CommitApplied
  <2> QED BY <1>0, <1>7, <2>3, <2>5, <2>6, <2>7, <2>8 DEF TypeInv, TypeOK
<1>10. ASSUME NEW m \in append_replies, HandleAppendEntriesResponse(m)
       PROVE  TypeInv'
  <2> DEFINE n == m.dst
             p == m.follower_id
             live == role[n] = "leader" /\ m.term = current_term[n]
             match == [match_index[n] EXCEPT ![p] = m.match_length_hint]
             commit == IF live /\ m.success THEN AdvancedCommit(n, match)
                       ELSE commit_index[n]
             retry == AppendEntriesFor(n, p, current_term[n], log[n],
                                       m.match_length_hint)
  <2>1. /\ n \in Node /\ p \in Node /\ m.term \in Term
        /\ m.match_length_hint \in Nat /\ log[n] \in Seq(Entry)
        /\ commit_index[n] \in Nat /\ current_term[n] \in Term
    BY <1>0 DEF TypeOK, AppendEntriesResponse
  <2>2. /\ TermAfter(n, m.term) \in Term
        /\ VoteAfter(n, m.term) \in Node \cup {None}
        /\ RoleAfter(n, m.term) \in Role
        /\ VotesAfter(n, m.term) \in SUBSET Node
    BY <1>0, <2>1, StepDownType
  <2>3. /\ current_term' \in [Node -> Term]
        /\ voted_for' \in [Node -> Node \cup {None}]
        /\ role' \in [Node -> Role]
        /\ votes_received' \in [Node -> SUBSET Node]
    BY <1>0, <1>10, <2>1, <2>2
       DEF HandleAppendEntriesResponse, StepDownIfStale, TypeOK
  <2>4. /\ match_index' \in [Node -> [Node -> Nat]]
        /\ next_index' \in [Node -> [Node -> Nat]]
    <3>1. match \in [Node -> Nat]
      BY <1>0, <2>1 DEF TypeOK
    <3> QED BY <1>0, <1>10, <2>1, <3>1 DEF HandleAppendEntriesResponse, TypeOK
  <2>5. append_entries' \subseteq AppendEntriesRequest
    <3>1. retry \in AppendEntriesRequest
      BY <1>0, <2>1, AppendEntriesForType
    <3> DEFINE S == IF live /\ ~m.success THEN {retry} ELSE {}
    <3>2. S \subseteq AppendEntriesRequest
      BY <3>1
    <3>3. append_entries' \in Post(append_entries, S)
      BY <1>10 DEF HandleAppendEntriesResponse
    <3> HIDE DEF S
    <3> QED BY <1>0, <3>2, <3>3, PostSubset DEF TypeOK
  <2>6. /\ commit_index' = [commit_index EXCEPT ![n] = commit]
        /\ ApplyCommitted(n, log[n], commit)
    BY <1>10 DEF HandleAppendEntriesResponse
  <2>7. commit \in Nat /\ (commit = commit_index[n] \/ commit <= Len(log[n]))
    <3> HIDE DEF match, live
    <3> QED BY <1>0, <2>1, AdvancedCommitType
  <2> HIDE DEF commit
  <2>8. /\ applied' \in [Node -> Seq(Command)]
        /\ commit <= Len(applied'[n])
        /\ \A o \in Node \ {n} : applied'[o] = applied[o]
    BY <2>1, <2>6, <2>7, ApplyCommittedType
  <2>9. commit_index' \in [Node -> Nat] /\ CommitApplied'
    BY <1>0, <2>1, <2>6, <2>7, <2>8 DEF TypeInv, TypeOK, CommitApplied
  <2> QED BY <1>0, <1>10, <2>3, <2>4, <2>5, <2>8, <2>9
          DEF HandleAppendEntriesResponse, TypeInv, TypeOK
<1>11. ASSUME PostFails PROVE TypeInv'
  BY <1>0, <1>11 DEF PostFails, TypeInv, TypeOK, CommitApplied,
                     electionVars, logVars, leaderVars
<1>12. ASSUME UNCHANGED vars PROVE TypeInv'
  BY <1>0, <1>12 DEF vars, TypeInv, TypeOK, CommitApplied,
                     electionVars, logVars, leaderVars, netVars
<1> QED BY <1>1, <1>2, <1>3, <1>4, <1>5, <1>6, <1>8, <1>9, <1>10, <1>11, <1>12
        DEF Next

\* Type correctness of raft.py under its driver, for any number of nodes:
\* handlers never read a log position that is not there, whatever next_index
\* and match_length_hint have become.
THEOREM TypeCorrect == Spec => []TypeOK
<1>1. Init => TypeInv
  BY TypeInit
<1>2. TypeInv /\ [Next]_vars => TypeInv'
  BY TypeStep
<1>3. TypeInv => TypeOK
  BY DEF TypeInv
<1> QED BY <1>1, <1>2, <1>3, PTL DEF Spec

-----------------------------------------------------------------------------
\* Two sets of cluster_size // 2 + 1 nodes share a node.
LEMMA MajoritiesMeet ==
    ASSUME NEW A \in SUBSET Node, NEW B \in SUBSET Node,
           Cardinality(A) >= Majority, Cardinality(B) >= Majority
    PROVE  A \cap B # {}
<1>1. IsFiniteSet(Node) /\ IsFiniteSet(A) /\ IsFiniteSet(B)
  BY NodeAssumption, FS_Subset
<1>2. /\ Cardinality(A) \in Nat /\ Cardinality(B) \in Nat
      /\ Cardinality(Node) \in Nat
  BY <1>1, FS_CardinalityType
<1>3. Cardinality(A) + Cardinality(B) > Cardinality(Node)
  BY <1>2 DEF Majority
<1> QED BY <1>1, <1>3, FS_MajoritiesIntersect

\* v's vote for c in term t is on its way to c or counted by c.
Granted(v, c, t) ==
    \/ \E r \in vote_replies : /\ r.vote_granted
                               /\ r.voter_id = v
                               /\ r.dst = c
                               /\ r.term = t
    \/ current_term[c] = t /\ v \in votes_received[c]

\* In term t the vote of v is l's or can no longer be given.
Bound(v, l, t) ==
    /\ current_term[v] >= t
    /\ current_term[v] = t => voted_for[v] = l
    /\ \A c \in Node : Granted(v, c, t) => c = l

\* A majority is bound to l in term t.
Elected(l, t) ==
    \E Q \in SUBSET Node : /\ Cardinality(Q) >= Majority
                           /\ \A v \in Q : Bound(v, l, t)

\* A vote granted binds its voter.
GrantsBind ==
    \A v, c \in Node, t \in Term : Granted(v, c, t) => Bound(v, c, t)

\* A leader still holds the votes it was elected by.
LeadersHaveMajority ==
    \A n \in Node : role[n] = "leader" =>
        Cardinality(votes_received[n]) >= Majority

\* Whoever sends AppendEntries was elected in the term it names.
SendersElected ==
    \A m \in append_entries : m.dst # m.leader_id /\ Elected(m.leader_id, m.term)

\* No node answers itself.
RepliesToOthers == \A r \in append_replies : r.follower_id # r.dst

\* The inductive invariant behind election safety and leader append-only.
ElectionInv == /\ TypeOK
               /\ GrantsBind
               /\ LeadersHaveMajority
               /\ SendersElected
               /\ RepliesToOthers

\* A majority of granted votes elects.
LEMMA VotersElect ==
    ASSUME TypeOK, GrantsBind, NEW n \in Node, NEW Q \in SUBSET Node,
           Cardinality(Q) >= Majority,
           \A v \in Q : Granted(v, n, current_term[n])
    PROVE  Elected(n, current_term[n])
<1>1. current_term[n] \in Term
  BY DEF TypeOK
<1>2. \A v \in Q : Bound(v, n, current_term[n])
  BY <1>1 DEF GrantsBind
<1> QED BY <1>2 DEF Elected

\* A node in the leader role was elected in its current term.
LEMMA LeaderElected ==
    ASSUME ElectionInv, NEW n \in Node, role[n] = "leader"
    PROVE  Elected(n, current_term[n])
<1>1. votes_received[n] \in SUBSET Node
  BY DEF ElectionInv, TypeOK
<1>2. \A v \in votes_received[n] : Granted(v, n, current_term[n])
  BY DEF Granted
<1>3. Cardinality(votes_received[n]) >= Majority
  BY DEF ElectionInv, LeadersHaveMajority
<1> QED BY <1>1, <1>2, <1>3, VotersElect DEF ElectionInv

\* Nobody else was elected in the term of a node that holds a majority.
LEMMA ElectedUnique ==
    ASSUME TypeOK, NEW l \in Node, NEW n \in Node,
           Cardinality(votes_received[n]) >= Majority,
           Elected(l, current_term[n])
    PROVE  n = l
<1>1. PICK Q \in SUBSET Node : /\ Cardinality(Q) >= Majority
                               /\ \A v \in Q : Bound(v, l, current_term[n])
  BY DEF Elected
<1>2. votes_received[n] \in SUBSET Node
  BY DEF TypeOK
<1>3. PICK v \in Q : v \in votes_received[n]
  BY <1>1, <1>2, MajoritiesMeet
<1>4. Granted(v, n, current_term[n])
  BY <1>3 DEF Granted
<1> QED BY <1>1, <1>3, <1>4 DEF Bound

\* A step that only grants votes the way handle_request_vote does keeps
\* every binding: terms do not fall, within a term a vote is not changed, and
\* a new grant is the vote itself.
Orderly(v) ==
    /\ current_term'[v] >= current_term[v]
    /\ current_term'[v] = current_term[v] /\ voted_for[v] # None
           => voted_for'[v] = voted_for[v]
    /\ \A c \in Node, t \in Term : Granted(v, c, t)' =>
           \/ Granted(v, c, t)
           \/ t = current_term'[v] /\ voted_for'[v] = c

\* A voter's binding survives every orderly step.
LEMMA BoundStable ==
    ASSUME TypeOK, TypeOK', NEW v \in Node, NEW l \in Node, NEW t \in Term,
           Orderly(v), Bound(v, l, t)
    PROVE  Bound(v, l, t)'
<1>1. /\ current_term[v] \in Nat /\ current_term'[v] \in Nat /\ t \in Nat
      /\ l # None
  BY NodeAssumption DEF TypeOK, Term
<1>2. current_term'[v] >= t
  BY <1>1 DEF Orderly, Bound
<1>3. current_term'[v] = t => voted_for'[v] = l
  BY <1>1 DEF Orderly, Bound
<1>4. ASSUME NEW c \in Node, Granted(v, c, t)' PROVE c = l
  <2>1. CASE Granted(v, c, t)
    BY <2>1 DEF Bound
  <2>2. CASE t = current_term'[v] /\ voted_for'[v] = c
    BY <1>3, <2>2
  <2> QED BY <1>4, <2>1, <2>2 DEF Orderly
<1> QED BY <1>2, <1>3, <1>4 DEF Bound

\* An election result survives every orderly step, even once the voters have
\* moved to later terms and their replies are gone.
LEMMA ElectedStable ==
    ASSUME TypeOK, TypeOK', NEW l \in Node, NEW t \in Term,
           \A v \in Node : Orderly(v), Elected(l, t)
    PROVE  Elected(l, t)'
<1>1. PICK Q \in SUBSET Node : /\ Cardinality(Q) >= Majority
                               /\ \A v \in Q : Bound(v, l, t)
  BY DEF Elected
<1>2. \A v \in Q : Bound(v, l, t)'
  BY <1>1, BoundStable
<1>3. (Cardinality(Q) >= Majority)'
  BY <1>1 DEF Majority
<1> QED BY <1>2, <1>3 DEF Elected

\* Orderly steps grant at most one vote per voter and term.
LEMMA GrantsStable ==
    ASSUME TypeOK, TypeOK', GrantsBind, \A v \in Node : Orderly(v)
    PROVE  GrantsBind'
<1> SUFFICES ASSUME NEW v \in Node, NEW c \in Node, NEW t \in Term,
                    Granted(v, c, t)'
             PROVE  Bound(v, c, t)'
  BY DEF GrantsBind
<1>1. CASE Granted(v, c, t)
  BY <1>1, BoundStable DEF GrantsBind
<1>2. CASE ~Granted(v, c, t)
  <2>1. t = current_term'[v] /\ voted_for'[v] = c
    BY <1>2 DEF Orderly
  <2>2. t \in Nat /\ current_term[v] \in Nat /\ voted_for[v] \in Node \cup {None}
    BY DEF TypeOK, Term
  <2>3. ASSUME NEW d \in Node, Granted(v, d, t)' PROVE d = c
    <3>1. CASE Granted(v, d, t)
      <4>1. Bound(v, d, t)
        BY <3>1 DEF GrantsBind
      <4>2. current_term[v] = current_term'[v] /\ voted_for[v] = d /\ d # None
        BY <2>1, <2>2, <4>1, NodeAssumption DEF Bound, Orderly
      <4> QED BY <2>1, <4>2 DEF Orderly
    <3>2. CASE t = current_term'[v] /\ voted_for'[v] = d
      BY <2>1, <3>2
    <3> QED BY <2>3, <3>1, <3>2 DEF Orderly
  <2>4. current_term'[v] >= t
    BY <2>1, <2>2
  <2> QED BY <2>1, <2>3, <2>4 DEF Bound
<1> QED BY <1>1, <1>2

\* Steps that touch no term, vote or vote reply are orderly.
LEMMA QuietIsOrderly ==
    ASSUME UNCHANGED <<current_term, voted_for, votes_received>>,
           vote_replies' \subseteq vote_replies, TypeOK
    PROVE  \A v \in Node : Orderly(v)
<1>1. \A v \in Node : current_term[v] \in Nat
  BY DEF TypeOK, Term
<1>2. \A v, c \in Node, t \in Term : Granted(v, c, t)' => Granted(v, c, t)
  BY DEF Granted
<1> QED BY <1>1, <1>2 DEF Orderly

\* What _step_down_if_stale does to a replica that then changes no vote.
LEMMA StepDownIsOrderly ==
    ASSUME TypeOK, NEW n \in Node, NEW t \in Term,
           current_term' = [current_term EXCEPT ![n] = TermAfter(n, t)],
           voted_for' = [voted_for EXCEPT ![n] = VoteAfter(n, t)],
           votes_received' = [votes_received EXCEPT ![n] = VotesAfter(n, t)],
           UNCHANGED vote_replies
    PROVE  \A v \in Node : Orderly(v)
<1>1. /\ current_term \in [Node -> Nat] /\ t \in Nat
      /\ voted_for \in [Node -> Node \cup {None}]
      /\ votes_received \in [Node -> SUBSET Node]
  BY DEF TypeOK, Term
<1>2. \A v \in Node : /\ current_term'[v] >= current_term[v]
                      /\ current_term'[v] = current_term[v]
                             => voted_for'[v] = voted_for[v]
  BY <1>1 DEF TermAfter, VoteAfter
<1>3. ASSUME NEW v \in Node, NEW c \in Node, NEW s \in Term, Granted(v, c, s)'
      PROVE  Granted(v, c, s)
  <2>1. CASE \E r \in vote_replies : /\ r.vote_granted /\ r.voter_id = v
                                     /\ r.dst = c /\ r.term = s
    BY <2>1 DEF Granted
  <2>2. CASE current_term'[c] = s /\ v \in votes_received'[c]
    BY <1>1, <2>2 DEF Granted, TermAfter, VotesAfter
  <2> QED BY <1>3, <2>1, <2>2 DEF Granted
<1> QED BY <1>2, <1>3 DEF Orderly

\* Every handler and timer is orderly: the heart of election safety.
LEMMA OrderlyStep == TypeOK /\ [Next]_vars => \A v \in Node : Orderly(v)
<1> SUFFICES ASSUME TypeOK, [Next]_vars PROVE \A v \in Node : Orderly(v)
  OBVIOUS
<1>0. /\ current_term \in [Node -> Nat]
      /\ voted_for \in [Node -> Node \cup {None}]
      /\ votes_received \in [Node -> SUBSET Node]
  BY DEF TypeOK, Term
<1>1. ASSUME NEW n \in Node, OnElectionTimeout(n)
      PROVE  \A v \in Node : Orderly(v)
  <2>1. \A v \in Node : /\ current_term'[v] >= current_term[v]
                        /\ current_term'[v] = current_term[v]
                               => voted_for'[v] = voted_for[v]
    BY <1>0, <1>1 DEF OnElectionTimeout
  <2>2. ASSUME NEW v \in Node, NEW c \in Node, NEW t \in Term,
               Granted(v, c, t)'
        PROVE  Granted(v, c, t) \/ (t = current_term'[v] /\ voted_for'[v] = c)
    <3>1. UNCHANGED vote_replies
      BY <1>1 DEF OnElectionTimeout
    <3>2. CASE \E r \in vote_replies : /\ r.vote_granted /\ r.voter_id = v
                                       /\ r.dst = c /\ r.term = t
      BY <3>2 DEF Granted
    <3>3. CASE current_term'[c] = t /\ v \in votes_received'[c]
      BY <1>0, <1>1, <3>3 DEF Granted, OnElectionTimeout
    <3> QED BY <2>2, <3>1, <3>2, <3>3 DEF Granted
  <2> QED BY <2>1, <2>2 DEF Orderly
<1>2. ASSUME NEW m \in request_votes, HandleRequestVote(m)
      PROVE  \A v \in Node : Orderly(v)
  <2> DEFINE n == m.dst
             grant == /\ m.term >= current_term[n]
                      /\ VoteAfter(n, m.term) \in {None, m.candidate_id}
                      /\ LogUpToDate(log[n], m.last_log_term, m.last_log_index)
             reply == [term |-> TermAfter(n, m.term), vote_granted |-> grant,
                       voter_id |-> n, dst |-> m.candidate_id]
  <2>1. n \in Node /\ m.candidate_id \in Node /\ m.term \in Nat
    BY DEF TypeOK, RequestVoteRequest, Term
  <2>2. /\ current_term' = [current_term EXCEPT ![n] = TermAfter(n, m.term)]
        /\ votes_received' = [votes_received EXCEPT ![n] = VotesAfter(n, m.term)]
        /\ voted_for' = [voted_for EXCEPT ![n] =
                            IF grant THEN m.candidate_id
                            ELSE VoteAfter(n, m.term)]
        /\ vote_replies' = vote_replies \cup {reply}
    BY <1>2 DEF HandleRequestVote, StepDownIfStale
  <2>3. \A v \in Node : /\ current_term'[v] >= current_term[v]
                        /\ current_term'[v] = current_term[v] /\ voted_for[v] # None
                               => voted_for'[v] = voted_for[v]
    BY <1>0, <2>1, <2>2 DEF TermAfter, VoteAfter
  <2>4. ASSUME NEW v \in Node, NEW c \in Node, NEW t \in Term,
               Granted(v, c, t)'
        PROVE  Granted(v, c, t) \/ (t = current_term'[v] /\ voted_for'[v] = c)
    <3>1. CASE \E r \in vote_replies : /\ r.vote_granted /\ r.voter_id = v
                                       /\ r.dst = c /\ r.term = t
      BY <3>1 DEF Granted
    <3>2. CASE /\ reply.vote_granted /\ reply.voter_id = v
               /\ reply.dst = c /\ reply.term = t
      <4>1. grant /\ v = n /\ c = m.candidate_id /\ t = TermAfter(n, m.term)
        BY <3>2
      <4> HIDE DEF grant
      <4> QED BY <1>0, <2>1, <2>2, <4>1
    <3>3. CASE current_term'[c] = t /\ v \in votes_received'[c]
      BY <1>0, <2>1, <2>2, <3>3 DEF Granted, TermAfter, VotesAfter
    <3> HIDE DEF reply
    <3> QED BY <2>2, <2>4, <3>1, <3>2, <3>3 DEF Granted
  <2> QED BY <2>3, <2>4 DEF Orderly
<1>3. ASSUME NEW m \in vote_replies, HandleRequestVoteResponse(m)
      PROVE  \A v \in Node : Orderly(v)
  <2> DEFINE n == m.dst
             live == role[n] = "candidate" /\ m.term = current_term[n]
             votes == votes_received[n] \cup {m.voter_id}
  <2>1. n \in Node /\ m.voter_id \in Node /\ m.term \in Nat
    BY DEF TypeOK, RequestVoteResponse, Term
  <2>2. /\ current_term' = [current_term EXCEPT ![n] = TermAfter(n, m.term)]
        /\ votes_received' = [votes_received EXCEPT ![n] =
               IF live /\ m.vote_granted THEN votes ELSE VotesAfter(n, m.term)]
        /\ voted_for' = [voted_for EXCEPT ![n] = VoteAfter(n, m.term)]
        /\ vote_replies' = vote_replies
    BY <1>3 DEF HandleRequestVoteResponse
  <2>3. CASE live /\ m.vote_granted
    <3>1. /\ UNCHANGED <<current_term, voted_for>>
          /\ votes_received' = [votes_received EXCEPT ![n] = votes]
      BY <1>0, <2>1, <2>2, <2>3 DEF TermAfter, VoteAfter
    <3>2. ASSUME NEW v \in Node, NEW c \in Node, NEW t \in Term,
                 Granted(v, c, t)'
          PROVE  Granted(v, c, t)
      <4>1. CASE \E r \in vote_replies : /\ r.vote_granted /\ r.voter_id = v
                                         /\ r.dst = c /\ r.term = t
        BY <4>1 DEF Granted
      <4>2. CASE current_term'[c] = t /\ v \in votes_received'[c]
        BY <1>0, <2>1, <2>3, <3>1, <4>2 DEF Granted
      <4> QED BY <2>2, <3>2, <4>1, <4>2 DEF Granted
    <3> QED BY <1>0, <3>1, <3>2 DEF Orderly
  <2>4. CASE ~(live /\ m.vote_granted)
    <3>1. votes_received' = [votes_received EXCEPT ![n] = VotesAfter(n, m.term)]
      BY <2>2, <2>4
    <3>2. m.term \in Term
      BY <2>1 DEF Term
    <3> QED BY <2>1, <2>2, <3>1, <3>2, StepDownIsOrderly
  <2> QED BY <2>3, <2>4
<1>4. ASSUME NEW m \in append_entries, AcceptLeader(m.dst, m)
      PROVE  \A v \in Node : Orderly(v)
  <2>1. m.dst \in Node /\ m.term \in Term
    BY DEF TypeOK, AppendEntriesRequest
  <2> QED BY <1>4, <2>1, StepDownIsOrderly DEF AcceptLeader, StepDownIfStale
<1>5. ASSUME NEW m \in append_replies, HandleAppendEntriesResponse(m)
      PROVE  \A v \in Node : Orderly(v)
  <2>1. m.dst \in Node /\ m.term \in Term
    BY DEF TypeOK, AppendEntriesResponse
  <2> QED BY <1>5, <2>1, StepDownIsOrderly
          DEF HandleAppendEntriesResponse, StepDownIfStale
<1>6. ASSUME \/ \E n \in Node : OnHeartbeatDue(n)
             \/ \E n \in Node, c \in Command : Propose(n, c)
             \/ \E m \in append_entries : RejectStaleAppend(m)
             \/ PostFails
             \/ UNCHANGED vars
      PROVE  \A v \in Node : Orderly(v)
  BY <1>6, QuietIsOrderly
     DEF OnHeartbeatDue, Propose, RejectStaleAppend, PostFails, vars,
         electionVars, netVars
<1> QED BY <1>1, <1>2, <1>3, <1>4, <1>5, <1>6
        DEF Next, RejectMismatch, AcceptEntries

\* AppendEntries requests added by an elected node keep SendersElected.
LEMMA NewSenders ==
    ASSUME ElectionInv, TypeOK', \A v \in Node : Orderly(v),
           NEW n \in Node, Elected(n, current_term[n]), NEW S,
           append_entries' \subseteq append_entries \cup S,
           \A m \in S : /\ m.leader_id = n
                        /\ m.term = current_term[n]
                        /\ m.dst # n
    PROVE  SendersElected'
<1> SUFFICES ASSUME NEW m \in append_entries'
             PROVE  m.dst # m.leader_id /\ Elected(m.leader_id, m.term)'
  BY DEF SendersElected
<1>1. TypeOK /\ m.leader_id \in Node /\ m.term \in Term
  BY DEF ElectionInv, TypeOK, AppendEntriesRequest
<1>2. m.dst # m.leader_id /\ Elected(m.leader_id, m.term)
  BY DEF ElectionInv, SendersElected
<1> QED BY <1>1, <1>2, ElectedStable

\* A step that adds no AppendEntries request keeps SendersElected.
LEMMA OldSenders ==
    ASSUME ElectionInv, TypeOK', \A v \in Node : Orderly(v),
           append_entries' \subseteq append_entries
    PROVE  SendersElected'
<1> SUFFICES ASSUME NEW m \in append_entries'
             PROVE  m.dst # m.leader_id /\ Elected(m.leader_id, m.term)'
  BY DEF SendersElected
<1>1. TypeOK /\ m.leader_id \in Node /\ m.term \in Term
  BY DEF ElectionInv, TypeOK, AppendEntriesRequest
<1>2. m.dst # m.leader_id /\ Elected(m.leader_id, m.term)
  BY DEF ElectionInv, SendersElected
<1> QED BY <1>1, <1>2, ElectedStable

\* on_heartbeat_due names its sender and term and never addresses the sender.
LEMMA HeartbeatSenders ==
    ASSUME NEW n \in Node, NEW lg, NEW nx, NEW m \in Heartbeats(n, lg, nx)
    PROVE  m.leader_id = n /\ m.term = current_term[n] /\ m.dst # n
  BY DEF Heartbeats, AppendEntriesFor, Peers

\* Blank nodes satisfy the election invariant.
LEMMA ElectionInit == Init => ElectionInv
<1> SUFFICES ASSUME Init PROVE ElectionInv
  OBVIOUS
<1>1. TypeOK
  BY TypeInit DEF TypeInv
<1>2. GrantsBind
  BY DEF Init, GrantsBind, Granted
<1> QED BY <1>1, <1>2
        DEF Init, ElectionInv, LeadersHaveMajority, SendersElected, RepliesToOthers

\* Every handler and timer preserves the election invariant.
LEMMA ElectionStep == ElectionInv /\ TypeOK' /\ [Next]_vars => ElectionInv'
<1> SUFFICES ASSUME ElectionInv, TypeOK', [Next]_vars PROVE ElectionInv'
  OBVIOUS
<1>0. /\ TypeOK /\ GrantsBind /\ LeadersHaveMajority /\ RepliesToOthers
      /\ current_term \in [Node -> Nat]
      /\ role \in [Node -> Role]
      /\ votes_received \in [Node -> SUBSET Node]
  BY DEF ElectionInv, TypeOK, Term
<1>1. \A v \in Node : Orderly(v)
  BY <1>0, OrderlyStep
<1>2. GrantsBind'
  BY <1>0, <1>1, GrantsStable
<1>3. SUFFICES LeadersHaveMajority' /\ SendersElected' /\ RepliesToOthers'
  BY <1>2 DEF ElectionInv
<1>4. ASSUME NEW n \in Node, OnElectionTimeout(n)
      PROVE  LeadersHaveMajority' /\ SendersElected' /\ RepliesToOthers'
  <2>1. LeadersHaveMajority'
    BY <1>0, <1>4 DEF OnElectionTimeout, LeadersHaveMajority, Majority
  <2>2. UNCHANGED <<append_entries, append_replies>>
    BY <1>4 DEF OnElectionTimeout
  <2> QED BY <1>0, <1>1, <2>1, <2>2, OldSenders DEF RepliesToOthers
<1>5. ASSUME NEW m \in request_votes, HandleRequestVote(m)
      PROVE  LeadersHaveMajority' /\ SendersElected' /\ RepliesToOthers'
  <2>1. m.dst \in Node /\ m.term \in Nat
    BY <1>0 DEF TypeOK, RequestVoteRequest, Term
  <2>2. LeadersHaveMajority'
    BY <1>0, <1>5, <2>1 DEF HandleRequestVote, StepDownIfStale,
       LeadersHaveMajority, Majority, RoleAfter, VotesAfter
  <2>3. UNCHANGED <<append_entries, append_replies>>
    BY <1>5 DEF HandleRequestVote
  <2> QED BY <1>0, <1>1, <2>2, <2>3, OldSenders DEF RepliesToOthers
<1>6. ASSUME NEW m \in vote_replies, HandleRequestVoteResponse(m)
      PROVE  LeadersHaveMajority' /\ SendersElected' /\ RepliesToOthers'
  <2> DEFINE n == m.dst
             live == role[n] = "candidate" /\ m.term = current_term[n]
             votes == votes_received[n] \cup {m.voter_id}
             nx == [p \in Node |-> Len(log[n])]
  <2>1. n \in Node /\ m.voter_id \in Node /\ m.term \in Nat
    BY <1>0 DEF TypeOK, RequestVoteResponse, Term
  <2>2. UNCHANGED append_replies
    BY <1>6 DEF HandleRequestVoteResponse
  <2>3. CASE live /\ m.vote_granted /\ Cardinality(votes) >= Majority
    <3>1. /\ BecomeLeader(n)
          /\ votes_received' = [votes_received EXCEPT ![n] = votes]
      BY <1>6, <2>3 DEF HandleRequestVoteResponse
    <3>2. LeadersHaveMajority'
      BY <1>0, <2>1, <2>3, <3>1 DEF BecomeLeader, LeadersHaveMajority, Majority
    <3>3. \A v \in votes : Granted(v, n, current_term[n])
      BY <2>3 DEF Granted
    <3>4. Elected(n, current_term[n])
      <4>1. votes \in SUBSET Node
        BY <1>0, <2>1
      <4> QED BY <1>0, <2>1, <2>3, <3>3, <4>1, VotersElect
    <3>5. append_entries' \subseteq append_entries \cup Heartbeats(n, log[n], nx)
      BY <3>1, PostSubset DEF BecomeLeader
    <3>6. \A q \in Heartbeats(n, log[n], nx) :
              q.leader_id = n /\ q.term = current_term[n] /\ q.dst # n
      BY <2>1, HeartbeatSenders
    <3> HIDE DEF n, nx
    <3>7. SendersElected'
      BY <1>1, <2>1, <3>4, <3>5, <3>6, NewSenders
    <3> QED BY <1>0, <2>2, <3>2, <3>7 DEF RepliesToOthers
  <2>4. CASE ~(live /\ m.vote_granted /\ Cardinality(votes) >= Majority)
    <3>1. /\ role' = [role EXCEPT ![n] = RoleAfter(n, m.term)]
          /\ UNCHANGED append_entries
      BY <1>6, <2>4 DEF HandleRequestVoteResponse
    <3>2. votes_received' = [votes_received EXCEPT ![n] =
               IF live /\ m.vote_granted THEN votes ELSE VotesAfter(n, m.term)]
      BY <1>6 DEF HandleRequestVoteResponse
    <3>3. LeadersHaveMajority'
      <4> SUFFICES ASSUME NEW o \in Node, role'[o] = "leader"
                   PROVE  Cardinality(votes_received'[o]) >= Majority
        BY DEF LeadersHaveMajority, Majority
      <4>1. role[o] = "leader" /\ votes_received'[o] = votes_received[o]
        BY <1>0, <2>1, <3>1, <3>2 DEF RoleAfter, VotesAfter
      <4> QED BY <1>0, <4>1 DEF LeadersHaveMajority
    <3> QED BY <1>0, <1>1, <2>2, <3>1, <3>3, OldSenders DEF RepliesToOthers
  <2> QED BY <2>3, <2>4
<1>7. ASSUME NEW n \in Node, OnHeartbeatDue(n)
      PROVE  LeadersHaveMajority' /\ SendersElected' /\ RepliesToOthers'
  <2>1. LeadersHaveMajority' /\ RepliesToOthers'
    BY <1>0, <1>7 DEF OnHeartbeatDue, electionVars, LeadersHaveMajority,
                      Majority, RepliesToOthers
  <2>2. Elected(n, current_term[n])
    BY <1>7, LeaderElected DEF OnHeartbeatDue
  <2>3. append_entries' \subseteq append_entries \cup
                                      Heartbeats(n, log[n], next_index[n])
    BY <1>7, PostSubset DEF OnHeartbeatDue
  <2> QED BY <1>1, <2>1, <2>2, <2>3, NewSenders, HeartbeatSenders
<1>8. ASSUME NEW n \in Node, NEW c \in Command, Propose(n, c)
      PROVE  LeadersHaveMajority' /\ SendersElected' /\ RepliesToOthers'
  <2>1. LeadersHaveMajority' /\ RepliesToOthers'
    BY <1>0, <1>8 DEF Propose, electionVars, LeadersHaveMajority,
                      Majority, RepliesToOthers
  <2>2. Elected(n, current_term[n])
    BY <1>8, LeaderElected DEF Propose
  <2>3. PICK lg : append_entries' \subseteq append_entries \cup
                                      Heartbeats(n, lg, next_index[n])
    BY <1>8, PostSubset DEF Propose
  <2> QED BY <1>1, <2>1, <2>2, <2>3, NewSenders, HeartbeatSenders
<1>9. ASSUME NEW m \in append_entries,
             NEW s, NEW h, AppendReply(m.dst, m, s, h)
      PROVE  RepliesToOthers'
  BY <1>0, <1>9 DEF AppendReply, RepliesToOthers, ElectionInv, SendersElected
<1>10. ASSUME NEW m \in append_entries, RejectStaleAppend(m)
       PROVE  LeadersHaveMajority' /\ SendersElected' /\ RepliesToOthers'
  <2>1. LeadersHaveMajority' /\ UNCHANGED append_entries
    BY <1>0, <1>10 DEF RejectStaleAppend, electionVars, LeadersHaveMajority, Majority
  <2>2. RepliesToOthers'
    BY <1>9, <1>10 DEF RejectStaleAppend
  <2> QED BY <1>1, <2>1, <2>2, OldSenders
<1>11. ASSUME NEW m \in append_entries, RejectMismatch(m) \/ AcceptEntries(m)
       PROVE  LeadersHaveMajority' /\ SendersElected' /\ RepliesToOthers'
  <2>1. AcceptLeader(m.dst, m)
    BY <1>11 DEF RejectMismatch, AcceptEntries
  <2>2. m.dst \in Node /\ m.term \in Nat
    BY <1>0 DEF TypeOK, AppendEntriesRequest, Term
  <2>3. LeadersHaveMajority' /\ UNCHANGED append_entries
    BY <1>0, <2>1, <2>2 DEF AcceptLeader, StepDownIfStale,
                            LeadersHaveMajority, Majority
  <2>4. RepliesToOthers'
    BY <1>9, <1>11 DEF RejectMismatch, AcceptEntries
  <2> QED BY <1>1, <2>3, <2>4, OldSenders
<1>12. ASSUME NEW m \in append_replies, HandleAppendEntriesResponse(m)
       PROVE  LeadersHaveMajority' /\ SendersElected' /\ RepliesToOthers'
  <2> DEFINE n == m.dst
             live == role[n] = "leader" /\ m.term = current_term[n]
             retry == AppendEntriesFor(n, m.follower_id, current_term[n], log[n],
                                       m.match_length_hint)
  <2>1. n \in Node /\ m.term \in Nat /\ m.follower_id # n
    BY <1>0 DEF TypeOK, AppendEntriesResponse, Term, RepliesToOthers
  <2>2. LeadersHaveMajority' /\ RepliesToOthers'
    BY <1>0, <1>12, <2>1 DEF HandleAppendEntriesResponse, StepDownIfStale,
       LeadersHaveMajority, Majority, RoleAfter, VotesAfter, RepliesToOthers
  <2>3. CASE live /\ ~m.success
    <3>1. append_entries' \subseteq append_entries \cup {retry}
      BY <1>12, <2>3, PostSubset DEF HandleAppendEntriesResponse
    <3>2. /\ retry.leader_id = n
          /\ retry.term = current_term[n]
          /\ retry.dst # n
      BY <2>1 DEF AppendEntriesFor
    <3>3. Elected(n, current_term[n])
      BY <2>1, <2>3, LeaderElected
    <3> DEFINE S == {retry}
    <3> HIDE DEF retry, n
    <3>4. /\ \A q \in S : q.leader_id = n /\ q.term = current_term[n] /\ q.dst # n
          /\ append_entries' \subseteq append_entries \cup S
      BY <3>1, <3>2
    <3> HIDE DEF S
    <3>5. SendersElected'
      BY <1>1, <2>1, <3>3, <3>4, NewSenders
    <3> QED BY <2>2, <3>5
  <2>4. CASE ~(live /\ ~m.success)
    <3>1. append_entries' \subseteq append_entries \cup {}
      BY <1>12, <2>4, PostSubset DEF HandleAppendEntriesResponse
    <3> QED BY <1>1, <2>2, <3>1, OldSenders
  <2> QED BY <2>3, <2>4
<1>13. ASSUME PostFails \/ UNCHANGED vars
       PROVE  LeadersHaveMajority' /\ SendersElected' /\ RepliesToOthers'
  <2>1. /\ UNCHANGED electionVars
        /\ append_entries' \subseteq append_entries
        /\ append_replies' \subseteq append_replies
    BY <1>13 DEF PostFails, vars, netVars
  <2>2. LeadersHaveMajority' /\ RepliesToOthers'
    BY <1>0, <2>1 DEF electionVars, LeadersHaveMajority, Majority, RepliesToOthers
  <2> QED BY <1>1, <2>1, <2>2, OldSenders
<1> QED BY <1>4, <1>5, <1>6, <1>7, <1>8, <1>10, <1>11, <1>12, <1>13 DEF Next

\* The election invariant holds in every reachable state.
LEMMA ElectionInvariant == Spec => [](TypeInv /\ ElectionInv)
<1>1. Init => TypeInv /\ ElectionInv
  BY TypeInit, ElectionInit
<1>2. TypeInv /\ ElectionInv /\ [Next]_vars => (TypeInv /\ ElectionInv)'
  BY TypeStep, ElectionStep DEF TypeInv
<1> QED BY <1>1, <1>2, PTL DEF Spec

\* Election safety of raft.py for any number of nodes, terms and messages:
\* two nodes never hold the leader role in the same term.
THEOREM OneLeaderPerTerm == Spec => []ElectionSafety
<1>1. ElectionInv => ElectionSafety
  <2> SUFFICES ASSUME ElectionInv, NEW n \in Node, NEW o \in Node,
                      role[n] = "leader", role[o] = "leader",
                      current_term[n] = current_term[o]
               PROVE  n = o
    BY DEF ElectionSafety
  <2>1. Elected(o, current_term[n])
    BY LeaderElected
  <2>2. TypeOK /\ Cardinality(votes_received[n]) >= Majority
    BY DEF ElectionInv, LeadersHaveMajority
  <2> QED BY <2>1, <2>2, ElectedUnique
<1> QED BY <1>1, ElectionInvariant, PTL

\* Every handler and timer lets a leader's log only grow within its term.
LEMMA LeaderLogStep ==
    ElectionInv /\ [Next]_vars => [LeaderLogGrows]_vars
<1> SUFFICES ASSUME ElectionInv, Next PROVE LeaderLogGrows
  OBVIOUS
<1> SUFFICES ASSUME NEW n \in Node, role[n] = "leader",
                    current_term'[n] = current_term[n]
             PROVE  /\ role'[n] = "leader"
                    /\ Len(log'[n]) >= Len(log[n])
                    /\ \A i \in 1..Len(log[n]) : log'[n][i] = log[n][i]
  BY DEF LeaderLogGrows
<1> DEFINE Goal == /\ role'[n] = "leader"
                   /\ Len(log'[n]) >= Len(log[n])
                   /\ \A i \in 1..Len(log[n]) : log'[n][i] = log[n][i]
<1>0. /\ TypeOK /\ current_term \in [Node -> Nat] /\ role \in [Node -> Role]
      /\ log \in [Node -> Seq(Entry)] /\ Len(log[n]) \in Nat
  BY DEF ElectionInv, TypeOK, Term
<1>1. ASSUME role'[n] = "leader", log'[n] = log[n] PROVE Goal
  BY <1>0, <1>1
<1>2. ASSUME NEW o \in Node, OnElectionTimeout(o) PROVE Goal
  BY <1>0, <1>1, <1>2 DEF OnElectionTimeout, logVars
<1>3. ASSUME NEW m \in request_votes, HandleRequestVote(m) PROVE Goal
  <2>1. m.dst \in Node /\ m.term \in Nat
    BY <1>0 DEF TypeOK, RequestVoteRequest, Term
  <2> QED BY <1>0, <1>1, <1>3, <2>1
          DEF HandleRequestVote, StepDownIfStale, TermAfter, RoleAfter, logVars
<1>4. ASSUME NEW m \in vote_replies, HandleRequestVoteResponse(m) PROVE Goal
  <2>1. m.dst \in Node /\ m.term \in Nat
    BY <1>0 DEF TypeOK, RequestVoteResponse, Term
  <2>2. \/ role' = [role EXCEPT ![m.dst] = "leader"]
        \/ role' = [role EXCEPT ![m.dst] = RoleAfter(m.dst, m.term)]
    BY <1>4 DEF HandleRequestVoteResponse, BecomeLeader
  <2>3. role'[n] = "leader"
    BY <1>0, <1>4, <2>1, <2>2
       DEF HandleRequestVoteResponse, TermAfter, RoleAfter
  <2> QED BY <1>1, <1>4, <2>3 DEF HandleRequestVoteResponse, logVars
<1>5. ASSUME NEW o \in Node, NEW c \in Command, Propose(o, c) PROVE Goal
  <2>1. role'[n] = "leader"
    BY <1>5 DEF Propose, electionVars
  <2>2. CASE o # n
    BY <1>0, <1>1, <1>5, <2>1, <2>2 DEF Propose
  <2>3. CASE o = n
    <3> DEFINE e == [term |-> current_term[n], command |-> c]
    <3>1. log'[n] = Append(log[n], e)
      BY <1>0, <1>5, <2>3 DEF Propose
    <3>2. e \in Entry
      BY <1>0, <1>5 DEF Entry, Term
    <3> HIDE DEF e
    <3> QED BY <1>0, <2>1, <3>1, <3>2
  <2> QED BY <2>2, <2>3
<1>6. ASSUME NEW m \in append_entries, RejectMismatch(m) \/ AcceptEntries(m)
      PROVE  Goal
  <2>1. /\ m.dst \in Node /\ m.leader_id \in Node /\ m.term \in Nat
        /\ m.dst # m.leader_id /\ Elected(m.leader_id, m.term)
    BY <1>0 DEF TypeOK, AppendEntriesRequest, Term, ElectionInv, SendersElected
  <2>2. AcceptLeader(m.dst, m)
    BY <1>6 DEF RejectMismatch, AcceptEntries
  <2>3. n # m.dst
    <3> SUFFICES ASSUME n = m.dst PROVE FALSE
      OBVIOUS
    <3>1. m.term = current_term[n]
      BY <1>0, <2>1, <2>2 DEF AcceptLeader, StepDownIfStale, TermAfter
    <3>2. Cardinality(votes_received[n]) >= Majority
      BY DEF ElectionInv, LeadersHaveMajority
    <3>3. n = m.leader_id
      BY <1>0, <2>1, <3>1, <3>2, ElectedUnique
    <3> QED BY <2>1, <3>3
  <2>4. role'[n] = "leader"
    BY <1>0, <2>1, <2>2, <2>3 DEF AcceptLeader
  <2>5. log'[n] = log[n]
    BY <1>0, <1>6, <2>1, <2>3 DEF RejectMismatch, AcceptEntries
  <2> QED BY <1>1, <2>4, <2>5
<1>7. ASSUME NEW m \in append_replies, HandleAppendEntriesResponse(m) PROVE Goal
  <2>1. m.dst \in Node /\ m.term \in Nat
    BY <1>0 DEF TypeOK, AppendEntriesResponse, Term
  <2> QED BY <1>0, <1>1, <1>7, <2>1
          DEF HandleAppendEntriesResponse, StepDownIfStale, TermAfter, RoleAfter
<1>8. ASSUME \/ \E o \in Node : OnHeartbeatDue(o)
             \/ \E m \in append_entries : RejectStaleAppend(m)
             \/ PostFails
      PROVE  Goal
  BY <1>1, <1>8 DEF OnHeartbeatDue, RejectStaleAppend, PostFails,
                    electionVars, logVars
<1> QED BY <1>2, <1>3, <1>4, <1>5, <1>6, <1>7, <1>8 DEF Next

\* Leader append-only: while its term lasts a leader of raft.py keeps its role
\* and never loses or rewrites an entry, because handle_append_entries can
\* not be reached at a leader by a request of its own term.
THEOREM LeaderAppendOnly == Spec => LeaderKeepsLog
<1>1. ElectionInv /\ [Next]_vars => [LeaderLogGrows]_vars
  BY LeaderLogStep
<1> QED BY ElectionInvariant, <1>1, PTL DEF Spec, LeaderKeepsLog

-----------------------------------------------------------------------------
\* An entry in its place: its index and the term of the entry before it.
LogPoint(lg, i) ==
    [index |-> i, entry |-> lg[i],
     before |-> IF i = 1 THEN 0 ELSE lg[i - 1].term]
LogPoints(lg) == {LogPoint(lg, i) : i \in 1..Len(lg)}

\* The entries a request carries, in the places its sender had them.
RequestPoint(m, k) ==
    [index |-> m.prev_log_index + k, entry |-> m.entries[k],
     before |-> IF k = 1 THEN m.prev_log_term ELSE m.entries[k - 1].term]
RequestPoints(m) == {RequestPoint(m, k) : k \in 1..Len(m.entries)}

\* Everything that is in a log or on its way to one.
Points == (UNION {LogPoints(log[n]) : n \in Node})
          \cup (UNION {RequestPoints(m) : m \in append_entries})

\* Index and term identify an entry, and the term before it.
PointsMatch ==
    \A x, y \in Points :
        x.index = y.index /\ x.entry.term = y.entry.term => x = y

\* No entry of a leader's term lies beyond the end of the leader's log.
LeadersCover ==
    \A l \in Node : role[l] = "leader" =>
        \A x \in Points : x.entry.term = current_term[l]
                              => x.index <= Len(log[l])

\* Whoever made an entry was elected in its term and leads it still, or has
\* left the term for good.
Authored ==
    \A x \in Points : \E l \in Node :
        /\ Elected(l, x.entry.term)
        /\ \/ current_term[l] > x.entry.term
           \/ current_term[l] = x.entry.term /\ role[l] = "leader"

\* A request from the beginning of the log has no term before its entries.
FirstBefore ==
    \A m \in append_entries : m.prev_log_index = 0 => m.prev_log_term = 0

\* The inductive invariant behind log matching.
LogInv == PointsMatch /\ LeadersCover /\ Authored /\ FirstBefore

\* Cutting a log leaves entries in their places.
LEMMA PrefixPoints ==
    ASSUME NEW lg \in Seq(Entry), NEW b \in 0..Len(lg)
    PROVE  LogPoints(SubSeq(lg, 1, b)) \subseteq LogPoints(lg)
<1> DEFINE t == SubSeq(lg, 1, b)
<1>1. /\ t \in Seq(Entry) /\ Len(t) = b
      /\ \A i \in 1..b : t[i] = lg[i]
  BY SubSeqType
<1> HIDE DEF t
<1> SUFFICES ASSUME NEW i \in 1..Len(t)
             PROVE  LogPoint(t, i) \in LogPoints(lg)
  BY DEF LogPoints, t
<1>2. i \in 1..Len(lg) /\ t[i] = lg[i] /\ (i # 1 => t[i - 1] = lg[i - 1])
  BY <1>1
<1>3. LogPoint(t, i) = LogPoint(lg, i)
  BY <1>2 DEF LogPoint
<1> QED BY <1>2, <1>3 DEF LogPoints

\* _append_entries_for sends entries in the places its log has them.
LEMMA SentPoints ==
    ASSUME NEW n, NEW p, NEW t, NEW lg \in Seq(Entry), NEW nx \in Nat
    PROVE  LET m == AppendEntriesFor(n, p, t, lg, nx)
           IN  /\ RequestPoints(m) \subseteq LogPoints(lg)
               /\ m.prev_log_index = 0 => m.prev_log_term = 0
<1> DEFINE m == AppendEntriesFor(n, p, t, lg, nx)
           es == SubSeq(lg, nx + 1, Len(lg))
<1>1. /\ m.prev_log_index = nx /\ m.entries = es
      /\ m.prev_log_term = IF nx \in 1..Len(lg) THEN lg[nx].term ELSE 0
  BY DEF AppendEntriesFor
<1>2. /\ Len(es) = IF nx + 1 <= Len(lg) THEN Len(lg) - nx ELSE 0
      /\ \A i \in 1..(Len(lg) - nx) : es[i] = lg[nx + i]
  <2>1. nx + 1 \in Nat \ {0} /\ Len(lg) \in Nat /\ Len(lg) <= Len(lg)
    OBVIOUS
  <2>2. /\ Len(es) = IF nx + 1 <= Len(lg) THEN Len(lg) - (nx + 1) + 1 ELSE 0
        /\ \A i \in 1..(Len(lg) - (nx + 1) + 1) : es[i] = lg[(nx + 1) + i - 1]
    BY <2>1, SubSeqType
  <2> HIDE DEF es
  <2> QED BY <2>1, <2>2
<1> HIDE DEF m, es
<1>3. ASSUME NEW k \in 1..Len(es)
      PROVE  RequestPoint(m, k) \in LogPoints(lg)
  <2>1. /\ nx + k \in 1..Len(lg) /\ es[k] = lg[nx + k]
        /\ k # 1 => es[k - 1] = lg[nx + k - 1]
        /\ k = 1 => (nx + k = 1 <=> nx = 0)
        /\ nx # 0 => nx \in 1..Len(lg)
    BY <1>2
  <2>2. RequestPoint(m, k) = LogPoint(lg, nx + k)
    BY <1>1, <2>1 DEF RequestPoint, LogPoint
  <2> QED BY <2>1, <2>2 DEF LogPoints
<1>4. RequestPoints(m) \subseteq LogPoints(lg)
  BY <1>1, <1>3 DEF RequestPoints
<1>5. m.prev_log_index = 0 => m.prev_log_term = 0
  BY <1>1
<1> QED BY <1>4, <1>5 DEF m

\* propose_put adds one entry at the end.
LEMMA AppendPoints ==
    ASSUME NEW lg \in Seq(Entry), NEW e \in Entry
    PROVE  LogPoints(Append(lg, e)) \subseteq LogPoints(lg) \cup
               {[index |-> Len(lg) + 1, entry |-> e, before |-> LastLogTerm(lg)]}
<1> DEFINE t == Append(lg, e)
<1>1. /\ Len(t) = Len(lg) + 1 /\ t[Len(lg) + 1] = e
      /\ \A i \in 1..Len(lg) : t[i] = lg[i]
  OBVIOUS
<1> HIDE DEF t
<1> SUFFICES ASSUME NEW i \in 1..Len(t)
             PROVE  \/ LogPoint(t, i) \in LogPoints(lg)
                    \/ LogPoint(t, i) = [index |-> Len(lg) + 1, entry |-> e,
                                         before |-> LastLogTerm(lg)]
  BY DEF LogPoints, t
<1>2. CASE i \in 1..Len(lg)
  <2>1. t[i] = lg[i] /\ (i # 1 => t[i - 1] = lg[i - 1])
    BY <1>1, <1>2
  <2>2. LogPoint(t, i) = LogPoint(lg, i)
    BY <2>1 DEF LogPoint
  <2> QED BY <1>2, <2>2 DEF LogPoints
<1>3. CASE i = Len(lg) + 1
  <2>1. Len(lg) \in Nat /\ (i # 1 => t[i - 1] = lg[Len(lg)] /\ Len(lg) > 0)
    BY <1>1, <1>3
  <2> QED BY <1>1, <1>3, <2>1 DEF LogPoint, LastLogTerm
<1> QED BY <1>1, <1>2, <1>3

\* Before the first conflict the log and the request have equal terms.
LEMMA KeptAgrees ==
    ASSUME NEW lg \in Seq(Entry), NEW es \in Seq(Entry), NEW prev \in Nat,
           prev <= Len(lg), NEW k \in 1..Len(es), prev + k <= Kept(lg, prev, es)
    PROVE  lg[prev + k].term = es[k].term
<1> DEFINE C == Conflicts(lg, prev, es)
<1>1. Kept(lg, prev, es) \in prev..Len(lg)
  BY KeptRange
<1>2. k \notin C
  <2>1. CASE C = {}
    BY <2>1
  <2>2. CASE C # {}
    <3>1. C \in SUBSET Nat
      BY DEF Conflicts
    <3>2. \E j \in C : \A i \in C : j <= i
      BY <2>2, <3>1, NatMin
    <3> DEFINE f == CHOOSE x \in C : \A i \in C : x <= i
    <3>3. f \in C /\ \A i \in C : f <= i
      BY <3>2
    <3>4. Kept(lg, prev, es) = prev + f - 1
      BY <2>2 DEF Kept
    <3> HIDE DEF f, C
    <3> QED BY <3>1, <3>3, <3>4
  <2> QED BY <2>1, <2>2
<1> QED BY <1>1, <1>2 DEF Conflicts

\* What the insertion loop leaves, entry by entry.
LEMMA MergeEntries ==
    ASSUME NEW lg \in Seq(Entry), NEW es \in Seq(Entry), NEW prev \in Nat,
           prev <= Len(lg)
    PROVE  LET kept == Kept(lg, prev, es)
               t    == Merge(lg, prev, es)
           IN  /\ t \in Seq(Entry)
               /\ Len(t) = IF kept - prev <= Len(es) THEN prev + Len(es)
                           ELSE kept
               /\ \A i \in 1..kept : t[i] = lg[i]
               /\ \A i \in (kept + 1)..Len(t) :
                      i - prev \in 1..Len(es) /\ t[i] = es[i - prev]
<1> DEFINE kept == Kept(lg, prev, es)
           t    == Merge(lg, prev, es)
           a    == SubSeq(lg, 1, kept)
           d    == kept - prev
           b    == SubSeq(es, d + 1, Len(es))
<1>1. kept \in prev..Len(lg)
  BY KeptRange
<1>2. t = a \o b
  BY DEF Merge
<1>d. d \in Nat /\ kept = prev + d /\ kept \in Nat
  BY <1>1
<1> HIDE DEF kept, t, d
<1>3. a \in Seq(Entry) /\ Len(a) = kept /\ \A i \in 1..kept : a[i] = lg[i]
  BY <1>1, <1>d, SubSeqType
<1>4. /\ b \in Seq(Entry)
      /\ Len(b) = IF d + 1 <= Len(es) THEN Len(es) - (d + 1) + 1 ELSE 0
      /\ \A i \in 1..(Len(es) - (d + 1) + 1) : b[i] = es[(d + 1) + i - 1]
  BY <1>d, SubSeqType
<1> HIDE DEF a, b
<1>5. t \in Seq(Entry) /\ Len(t) = Len(a) + Len(b)
  BY <1>2, <1>3, <1>4, ConcatProperties
<1>6. \A i \in 1..Len(t) : t[i] = IF i <= Len(a) THEN a[i] ELSE b[i - Len(a)]
  BY <1>2, <1>3, <1>4, ConcatProperties
<1>7. Len(es) \in Nat /\ Len(t) \in Nat
  BY <1>5
<1>8. Len(t) = IF d <= Len(es) THEN prev + Len(es) ELSE kept
  <2>1. CASE d + 1 <= Len(es)
    <3>1. Len(b) = Len(es) - d
      BY <1>d, <1>4, <1>7, <2>1
    <3>2. Len(t) = prev + Len(es)
      BY <1>d, <1>3, <1>5, <1>7, <3>1
    <3> QED BY <1>d, <1>7, <2>1, <3>2
  <2>2. CASE ~(d + 1 <= Len(es))
    <3>1. Len(b) = 0
      BY <1>4, <2>2
    <3>2. Len(t) = kept
      BY <1>d, <1>3, <1>5, <3>1
    <3>3. d <= Len(es) => d = Len(es)
      BY <1>d, <1>7, <2>2
    <3> QED BY <1>d, <1>7, <3>2, <3>3
  <2> QED BY <2>1, <2>2
<1>9. ASSUME NEW i \in 1..kept PROVE t[i] = lg[i]
  <2>1. i \in 1..Len(t) /\ i <= Len(a)
    BY <1>d, <1>3, <1>7, <1>8
  <2> QED BY <1>3, <1>6, <2>1
<1>10. ASSUME NEW i \in (kept + 1)..Len(t)
       PROVE  i - prev \in 1..Len(es) /\ t[i] = es[i - prev]
  <2>1. /\ i \in 1..Len(t) /\ ~(i <= Len(a)) /\ d <= Len(es)
        /\ i - kept \in 1..(Len(es) - (d + 1) + 1)
        /\ (d + 1) + (i - kept) - 1 = i - prev
        /\ i - prev \in 1..Len(es)
    BY <1>d, <1>3, <1>7, <1>8
  <2>2. t[i] = b[i - kept]
    BY <1>3, <1>6, <2>1
  <2>3. b[i - kept] = es[(d + 1) + (i - kept) - 1]
    BY <1>4, <2>1
  <2> QED BY <2>1, <2>2, <2>3
<1> QED BY <1>5, <1>8, <1>9, <1>10 DEF kept, t, d

\* A log after the insertion loop has its entries from the log before it and
\* from the request, each after the entry it came after there.
LEMMA MergePoints ==
    ASSUME NEW lg \in Seq(Entry), NEW m \in AppendEntriesRequest,
           PrevMatches(lg, m), m.prev_log_index = 0 => m.prev_log_term = 0
    PROVE  LogPoints(Merge(lg, m.prev_log_index, m.entries))
               \subseteq LogPoints(lg) \cup RequestPoints(m)
<1> DEFINE prev == m.prev_log_index
           es   == m.entries
           kept == Kept(lg, prev, es)
           t    == Merge(lg, prev, es)
<1>1. prev \in Nat /\ es \in Seq(Entry) /\ prev <= Len(lg)
  BY DEF AppendEntriesRequest, PrevMatches
<1>2. kept \in prev..Len(lg)
  BY <1>1, KeptRange
<1>3. /\ t \in Seq(Entry)
      /\ Len(t) = IF kept - prev <= Len(es) THEN prev + Len(es) ELSE kept
      /\ \A i \in 1..kept : t[i] = lg[i]
      /\ \A i \in (kept + 1)..Len(t) :
             i - prev \in 1..Len(es) /\ t[i] = es[i - prev]
  BY <1>1, MergeEntries
<1>4. \A k \in 1..Len(es) : prev + k <= kept => lg[prev + k].term = es[k].term
  BY <1>1, KeptAgrees
<1>5. prev # 0 => lg[prev].term = m.prev_log_term
  BY DEF PrevMatches
<1>6. prev = 0 => m.prev_log_term = 0
  OBVIOUS
<1> SUFFICES ASSUME NEW i \in 1..Len(t)
             PROVE  LogPoint(t, i) \in LogPoints(lg) \cup RequestPoints(m)
  BY DEF LogPoints
<1> HIDE DEF t, kept
<1>7. CASE i <= kept
  <2>0. i \in 1..kept /\ i \in 1..Len(lg) /\ (i # 1 => i - 1 \in 1..kept)
    BY <1>1, <1>2, <1>7
  <2>1. i \in 1..Len(lg) /\ t[i] = lg[i] /\ (i # 1 => t[i - 1] = lg[i - 1])
    BY <1>3, <2>0
  <2>2. LogPoint(t, i) = LogPoint(lg, i)
    BY <2>1 DEF LogPoint
  <2> QED BY <2>1, <2>2 DEF LogPoints
<1>8. CASE ~(i <= kept)
  <2> DEFINE k == i - prev
  <2>0. i \in (kept + 1)..Len(t)
    BY <1>1, <1>2, <1>3, <1>8
  <2>1. k \in 1..Len(es) /\ t[i] = es[k]
    BY <1>3, <2>0
  <2>k. prev + k = i /\ k \in Nat /\ Len(es) \in Nat
    BY <1>1, <2>0, <2>1
  <2> HIDE DEF k
  <2>2. CASE k = 1
    <3>1. i = prev + 1 /\ kept = prev
      BY <1>1, <1>2, <1>8, <2>2, <2>k
    <3>2. i # 1 => prev \in 1..kept /\ i - 1 = prev
      BY <1>1, <3>1
    <3>3. i # 1 => t[i - 1] = lg[prev] /\ prev # 0
      BY <1>3, <3>2
    <3>4. (IF i = 1 THEN 0 ELSE t[i - 1].term) = m.prev_log_term
      <4>1. CASE i = 1
        <5>1. prev = 0
          BY <1>1, <3>1, <4>1
        <5> QED BY <1>6, <4>1, <5>1
      <4>2. CASE i # 1
        BY <1>5, <3>3, <4>2
      <4> QED BY <4>1, <4>2
    <3>5. LogPoint(t, i) = RequestPoint(m, k)
      BY <2>1, <2>2, <2>k, <3>4 DEF RequestPoint, LogPoint
    <3> QED BY <2>1, <3>5 DEF RequestPoints
  <2>3. CASE k # 1
    <3>1. i # 1 /\ k - 1 \in 1..Len(es) /\ prev + (k - 1) = i - 1
      <4>1. k - 1 \in 1..Len(es)
        BY <2>1, <2>3, <2>k
      <4>2. prev \in Nat /\ k > 1
        BY <1>1, <2>1, <2>3
      <4> QED BY <2>k, <4>1, <4>2
    <3>2. t[i - 1].term = es[k - 1].term
      <4>1. CASE i - 1 <= kept
        <5>1. t[i - 1] = lg[i - 1]
          BY <1>2, <1>3, <3>1, <4>1
        <5>2. lg[prev + (k - 1)].term = es[k - 1].term
          BY <1>4, <3>1, <4>1
        <5> QED BY <3>1, <5>1, <5>2
      <4>2. CASE ~(i - 1 <= kept)
        <5>1. i - 1 \in (kept + 1)..Len(t) /\ (i - 1) - prev = k - 1
          BY <1>1, <1>2, <1>3, <3>1, <4>2
        <5> QED BY <1>3, <5>1
      <4> QED BY <4>1, <4>2
    <3>3. LogPoint(t, i) = RequestPoint(m, k)
      BY <2>1, <2>3, <2>k, <3>1, <3>2 DEF RequestPoint, LogPoint
    <3> QED BY <2>1, <3>3 DEF RequestPoints
  <2> QED BY <2>2, <2>3
<1> QED BY <1>7, <1>8

\* A point is in some log or in some request.
LEMMA PointIn ==
    ASSUME NEW x
    PROVE  x \in Points <=> \/ \E n \in Node : x \in LogPoints(log[n])
                            \/ \E m \in append_entries : x \in RequestPoints(m)
<1> DEFINE A == {LogPoints(log[n]) : n \in Node}
           B == {RequestPoints(m) : m \in append_entries}
<1>1. x \in Points <=> x \in UNION A \/ x \in UNION B
  BY DEF Points
<1>2. x \in UNION A <=> \E n \in Node : x \in LogPoints(log[n])
  BY Zenon
<1>3. x \in UNION B <=> \E m \in append_entries : x \in RequestPoints(m)
  BY Zenon
<1> HIDE DEF A, B
<1> QED BY <1>1, <1>2, <1>3

\* Logs and requests consist of points.
LEMMA PointsHeld ==
    /\ \A n \in Node : LogPoints(log[n]) \subseteq Points
    /\ \A m \in append_entries : RequestPoints(m) \subseteq Points
  BY PointIn

\* Points are entries at positive indices.
LEMMA PointType ==
    ASSUME TypeOK, NEW x \in Points
    PROVE  x.index \in Nat /\ x.entry \in Entry /\ x.entry.term \in Nat
<1>1. ASSUME NEW n \in Node, x \in LogPoints(log[n])
      PROVE  x.index \in Nat /\ x.entry \in Entry
  <2>1. log[n] \in Seq(Entry)
    BY DEF TypeOK
  <2>2. PICK i \in 1..Len(log[n]) : x = LogPoint(log[n], i)
    BY <1>1 DEF LogPoints
  <2> QED BY <2>1, <2>2 DEF LogPoint
<1>2. ASSUME NEW m \in append_entries, x \in RequestPoints(m)
      PROVE  x.index \in Nat /\ x.entry \in Entry
  <2>1. m.entries \in Seq(Entry) /\ m.prev_log_index \in Nat
    BY DEF TypeOK, AppendEntriesRequest
  <2>2. PICK k \in 1..Len(m.entries) : x = RequestPoint(m, k)
    BY <1>2 DEF RequestPoints
  <2> QED BY <2>1, <2>2 DEF RequestPoint
<1>3. x.index \in Nat /\ x.entry \in Entry
  BY <1>1, <1>2, PointIn
<1> QED BY <1>3 DEF Entry, Term

\* Points come from the logs and requests of the new state.
LEMMA PointsFrom ==
    ASSUME NEW S, \A n \in Node : LogPoints(log'[n]) \subseteq S,
           \A m \in append_entries' : RequestPoints(m) \subseteq S
    PROVE  Points' \subseteq S
<1>1. Points' = (UNION {LogPoints(log'[n]) : n \in Node})
                \cup (UNION {RequestPoints(m) : m \in append_entries'})
  BY DEF Points, LogPoints, LogPoint, RequestPoints, RequestPoint
<1> DEFINE A == {LogPoints(log'[n]) : n \in Node}
           B == {RequestPoints(m) : m \in append_entries'}
<1>2. \A x \in UNION A : x \in S
  BY Zenon
<1>3. \A x \in UNION B : x \in S
  BY Zenon
<1> HIDE DEF A, B
<1>4. Points' = (UNION A) \cup (UNION B)
  BY <1>1 DEF A, B
<1> QED BY <1>2, <1>3, <1>4

\* A step that leaves the logs alone and sends parts of them adds no point.
LEMMA SendingStep ==
    ASSUME FirstBefore, log' = log, NEW out,
           append_entries' \subseteq append_entries \cup out,
           \A m \in out : /\ RequestPoints(m) \subseteq Points
                          /\ m.prev_log_index = 0 => m.prev_log_term = 0
    PROVE  FirstBefore' /\ Points' \subseteq Points
<1>1. FirstBefore'
  BY DEF FirstBefore
<1>2. \A n \in Node : LogPoints(log'[n]) \subseteq Points
  BY PointsHeld
<1>3. \A m \in append_entries' : RequestPoints(m) \subseteq Points
  <2>1. \A m \in append_entries : RequestPoints(m) \subseteq Points
    BY PointsHeld
  <2> QED BY <2>1
<1> QED BY <1>1, <1>2, <1>3, PointsFrom

\* on_heartbeat_due sends parts of its log.
LEMMA HeartbeatPoints ==
    ASSUME NEW n \in Node, NEW lg \in Seq(Entry), NEW nx \in [Node -> Nat],
           NEW m \in Heartbeats(n, lg, nx)
    PROVE  /\ RequestPoints(m) \subseteq LogPoints(lg)
           /\ m.prev_log_index = 0 => m.prev_log_term = 0
<1>1. PICK p \in Peers(n) : m = AppendEntriesFor(n, p, current_term[n], lg, nx[p])
  BY DEF Heartbeats
<1>2. nx[p] \in Nat
  BY DEF Peers
<1> QED BY <1>1, <1>2, SentPoints

\* The point propose_put adds.
Fresh(n, c) ==
    [index |-> Len(log[n]) + 1,
     entry |-> [term |-> current_term[n], command |-> c],
     before |-> LastLogTerm(log[n])]

\* Only propose_put makes entries; everything else copies them in place.
LEMMA PointsStep ==
    ASSUME TypeOK, FirstBefore, [Next]_vars
    PROVE  /\ FirstBefore'
           /\ \/ Points' \subseteq Points
              \/ \E n \in Node, c \in Command :
                     /\ Propose(n, c)
                     /\ Points' \subseteq Points \cup {Fresh(n, c)}
<1> DEFINE Goal == FirstBefore' /\ Points' \subseteq Points
<1>0. log \in [Node -> Seq(Entry)] /\ next_index \in [Node -> [Node -> Nat]]
  BY DEF TypeOK
<1>1. \A n \in Node : LogPoints(log[n]) \subseteq Points
  BY PointsHeld
<1>2. \A m \in append_entries : RequestPoints(m) \subseteq Points
  BY PointsHeld
<1>3. ASSUME log' = log, append_entries' \subseteq append_entries PROVE Goal
  <2> DEFINE out == {}
  <2>1. append_entries' \subseteq append_entries \cup out
    BY <1>3
  <2>2. \A m \in out : /\ RequestPoints(m) \subseteq Points
                       /\ m.prev_log_index = 0 => m.prev_log_term = 0
    OBVIOUS
  <2> HIDE DEF out
  <2> QED BY <1>3, <2>1, <2>2, SendingStep
<1>4. ASSUME NEW n \in Node, NEW nx \in [Node -> Nat], log' = log,
             append_entries' \in Post(append_entries, Heartbeats(n, log[n], nx))
      PROVE  Goal
  <2>1. append_entries' \subseteq append_entries \cup Heartbeats(n, log[n], nx)
    BY <1>4, PostSubset
  <2>2. \A m \in Heartbeats(n, log[n], nx) :
            /\ RequestPoints(m) \subseteq Points
            /\ m.prev_log_index = 0 => m.prev_log_term = 0
    BY <1>0, <1>1, HeartbeatPoints
  <2> QED BY <1>4, <2>1, <2>2, SendingStep
<1>5. ASSUME NEW m \in vote_replies, HandleRequestVoteResponse(m) PROVE Goal
  <2> DEFINE n == m.dst
             nx == [p \in Node |-> Len(log[n])]
  <2>1. n \in Node /\ log' = log
    BY <1>5 DEF TypeOK, RequestVoteResponse, HandleRequestVoteResponse, logVars
  <2>2. CASE BecomeLeader(n)
    <3>1. nx \in [Node -> Nat]
      BY <1>0, <2>1
    <3>2. append_entries' \in Post(append_entries, Heartbeats(n, log[n], nx))
      BY <2>2 DEF BecomeLeader
    <3> HIDE DEF nx, n
    <3> QED BY <1>4, <2>1, <3>1, <3>2
  <2>3. CASE UNCHANGED append_entries
    BY <1>3, <2>1, <2>3
  <2> QED BY <1>5, <2>2, <2>3 DEF HandleRequestVoteResponse
<1>6. ASSUME NEW n \in Node, OnHeartbeatDue(n) PROVE Goal
  BY <1>0, <1>4, <1>6 DEF OnHeartbeatDue, logVars
<1>7. ASSUME NEW n \in Node, NEW c \in Command, Propose(n, c)
      PROVE  FirstBefore' /\ Points' \subseteq Points \cup {Fresh(n, c)}
  <2> DEFINE e == [term |-> current_term[n], command |-> c]
             lg == Append(log[n], e)
  <2>1. /\ log' = [log EXCEPT ![n] = lg]
        /\ append_entries' \in Post(append_entries,
                                    Heartbeats(n, lg, next_index[n]))
    BY <1>7 DEF Propose
  <2>2. e \in Entry /\ log[n] \in Seq(Entry) /\ next_index[n] \in [Node -> Nat]
    BY <1>0 DEF TypeOK, Entry
  <2>3. LogPoints(lg) \subseteq LogPoints(log[n]) \cup {Fresh(n, c)}
    <3> HIDE DEF e
    <3>1. LogPoints(lg) \subseteq LogPoints(log[n]) \cup
              {[index |-> Len(log[n]) + 1, entry |-> e,
                before |-> LastLogTerm(log[n])]}
      BY <2>2, AppendPoints
    <3> QED BY <3>1 DEF Fresh, e
  <2>4. lg \in Seq(Entry)
    <3> HIDE DEF e
    <3> QED BY <2>2
  <2> HIDE DEF e, lg
  <2>5. append_entries' \subseteq append_entries \cup
                                      Heartbeats(n, lg, next_index[n])
    BY <2>1, PostSubset
  <2>6. \A m \in Heartbeats(n, lg, next_index[n]) :
            /\ RequestPoints(m) \subseteq LogPoints(lg)
            /\ m.prev_log_index = 0 => m.prev_log_term = 0
    BY <2>2, <2>4, HeartbeatPoints
  <2>7. FirstBefore'
    BY <2>5, <2>6 DEF FirstBefore
  <2> DEFINE S == Points \cup {Fresh(n, c)}
  <2>8. LogPoints(lg) \subseteq S
    BY <1>1, <2>3
  <2>9. \A o \in Node : LogPoints(log'[o]) \subseteq S
    <3>1. \A o \in Node : log'[o] = IF o = n THEN lg ELSE log[o]
      BY <1>0, <2>1
    <3> QED BY <1>1, <2>8, <3>1
  <2>10. \A m \in append_entries' : RequestPoints(m) \subseteq S
    BY <1>2, <2>5, <2>6, <2>8
  <2> HIDE DEF S
  <2>11. Points' \subseteq S
    BY <2>9, <2>10, PointsFrom
  <2> QED BY <2>7, <2>11 DEF S
<1>8. ASSUME NEW n \in Node, NEW lg, log' = [log EXCEPT ![n] = lg],
             LogPoints(lg) \subseteq Points, append_entries' = append_entries
      PROVE  Goal
  <2>1. \A o \in Node : LogPoints(log'[o]) \subseteq Points
    <3>1. \A o \in Node : log'[o] = IF o = n THEN lg ELSE log[o]
      BY <1>0, <1>8
    <3> QED BY <1>1, <1>8, <3>1
  <2>2. \A m \in append_entries' : RequestPoints(m) \subseteq Points
    BY <1>2, <1>8
  <2>3. FirstBefore'
    BY <1>8 DEF FirstBefore
  <2> QED BY <2>1, <2>2, <2>3, PointsFrom
<1>9. ASSUME NEW m \in append_entries, RejectMismatch(m) PROVE Goal
  <2> DEFINE n == m.dst
             lg == IF m.prev_log_index > Len(log[n]) THEN log[n]
                   ELSE SubSeq(log[n], 1, m.prev_log_index - 1)
  <2>1. /\ log' = [log EXCEPT ![n] = lg] /\ append_entries' = append_entries
        /\ ~PrevMatches(log[n], m)
    BY <1>9 DEF RejectMismatch, AcceptLeader
  <2>2. n \in Node /\ m.prev_log_index \in Nat /\ log[n] \in Seq(Entry)
    BY <1>0 DEF TypeOK, AppendEntriesRequest
  <2>3. LogPoints(lg) \subseteq LogPoints(log[n])
    <3>1. CASE m.prev_log_index > Len(log[n])
      BY <3>1
    <3>2. CASE ~(m.prev_log_index > Len(log[n]))
      <4>1. m.prev_log_index # 0
        BY <2>1 DEF PrevMatches
      <4>2. m.prev_log_index - 1 \in 0..Len(log[n])
        BY <2>2, <3>2, <4>1
      <4> QED BY <2>2, <3>2, <4>2, PrefixPoints
    <3> QED BY <3>1, <3>2
  <2> HIDE DEF n, lg
  <2>4. LogPoints(lg) \subseteq Points
    BY <1>1, <2>2, <2>3
  <2> QED BY <1>8, <2>1, <2>2, <2>4
<1>10. ASSUME NEW m \in append_entries, AcceptEntries(m) PROVE Goal
  <2> DEFINE n == m.dst
             lg == Merge(log[n], m.prev_log_index, m.entries)
  <2>1. /\ log' = [log EXCEPT ![n] = lg] /\ append_entries' = append_entries
        /\ PrevMatches(log[n], m)
    BY <1>10 DEF AcceptEntries, AcceptLeader
  <2>2. n \in Node /\ m \in AppendEntriesRequest /\ log[n] \in Seq(Entry)
    BY <1>0 DEF TypeOK, AppendEntriesRequest
  <2>3. m.prev_log_index = 0 => m.prev_log_term = 0
    BY DEF FirstBefore
  <2>4. LogPoints(lg) \subseteq LogPoints(log[n]) \cup RequestPoints(m)
    BY <2>1, <2>2, <2>3, MergePoints
  <2> HIDE DEF n, lg
  <2>5. LogPoints(lg) \subseteq Points
    BY <1>1, <1>2, <2>2, <2>4
  <2> QED BY <1>8, <2>1, <2>2, <2>5
<1>11. ASSUME NEW m \in append_replies, HandleAppendEntriesResponse(m)
       PROVE  Goal
  <2> DEFINE n == m.dst
             retry == AppendEntriesFor(n, m.follower_id, current_term[n], log[n],
                                       m.match_length_hint)
  <2>1. n \in Node /\ m.match_length_hint \in Nat /\ log[n] \in Seq(Entry)
    BY <1>0 DEF TypeOK, AppendEntriesResponse
  <2>2. log' = log
    BY <1>11 DEF HandleAppendEntriesResponse
  <2>3. append_entries' \subseteq append_entries \cup {retry}
    <3>1. \/ append_entries' \in Post(append_entries, {retry})
          \/ append_entries' \in Post(append_entries, {})
      BY <1>11 DEF HandleAppendEntriesResponse
    <3> HIDE DEF retry
    <3> QED BY <3>1, PostSubset
  <2>4. /\ RequestPoints(retry) \subseteq LogPoints(log[n])
        /\ retry.prev_log_index = 0 => retry.prev_log_term = 0
    BY <2>1, SentPoints
  <2> DEFINE out == {retry}
  <2> HIDE DEF retry, n
  <2>5. \A q \in out : /\ RequestPoints(q) \subseteq Points
                       /\ q.prev_log_index = 0 => q.prev_log_term = 0
    BY <1>1, <2>1, <2>4
  <2>6. append_entries' \subseteq append_entries \cup out
    BY <2>3
  <2> HIDE DEF out
  <2> QED BY <2>2, <2>5, <2>6, SendingStep
<1>12. ASSUME \/ \E n \in Node : OnElectionTimeout(n)
              \/ \E m \in request_votes : HandleRequestVote(m)
              \/ \E m \in append_entries : RejectStaleAppend(m)
              \/ PostFails
              \/ UNCHANGED vars
       PROVE  Goal
  <2>1. log' = log /\ append_entries' \subseteq append_entries
    BY <1>12 DEF OnElectionTimeout, HandleRequestVote, RejectStaleAppend,
                 PostFails, vars, logVars, netVars
  <2> QED BY <1>3, <2>1
<1> QED BY <1>5, <1>6, <1>7, <1>9, <1>10, <1>11, <1>12 DEF Next

\* A leader was a leader or a candidate of the same term before the step.
LEMMA LeaderBefore ==
    ASSUME TypeOK, [Next]_vars, NEW l \in Node, role'[l] = "leader"
    PROVE  /\ current_term'[l] = current_term[l]
           /\ \/ role[l] = "leader"
              \/ role[l] = "candidate" /\ UNCHANGED log
<1> DEFINE Goal == /\ current_term'[l] = current_term[l]
                   /\ \/ role[l] = "leader"
                      \/ role[l] = "candidate" /\ UNCHANGED log
<1>0. current_term \in [Node -> Nat] /\ role \in [Node -> Role]
  BY DEF TypeOK, Term
<1>1. ASSUME NEW n \in Node, OnElectionTimeout(n) PROVE Goal
  BY <1>0, <1>1 DEF OnElectionTimeout
<1>2. ASSUME NEW m \in request_votes, HandleRequestVote(m) PROVE Goal
  <2>1. m.dst \in Node /\ m.term \in Nat
    BY DEF TypeOK, RequestVoteRequest, Term
  <2> QED BY <1>0, <1>2, <2>1
          DEF HandleRequestVote, StepDownIfStale, TermAfter, RoleAfter
<1>3. ASSUME NEW m \in vote_replies, HandleRequestVoteResponse(m) PROVE Goal
  <2> DEFINE n == m.dst
             live == role[n] = "candidate" /\ m.term = current_term[n]
  <2>1. n \in Node /\ m.term \in Nat
    BY DEF TypeOK, RequestVoteResponse, Term
  <2>2. \/ live /\ role' = [role EXCEPT ![n] = "leader"]
        \/ role' = [role EXCEPT ![n] = RoleAfter(n, m.term)]
    BY <1>3 DEF HandleRequestVoteResponse, BecomeLeader
  <2>3. /\ current_term' = [current_term EXCEPT ![n] = TermAfter(n, m.term)]
        /\ UNCHANGED log
    BY <1>3 DEF HandleRequestVoteResponse, logVars
  <2> QED BY <1>0, <2>1, <2>2, <2>3 DEF TermAfter, RoleAfter
<1>4. ASSUME NEW m \in append_entries, RejectMismatch(m) \/ AcceptEntries(m)
      PROVE  Goal
  <2>1. m.dst \in Node /\ m.term \in Nat
    BY DEF TypeOK, AppendEntriesRequest, Term
  <2>2. AcceptLeader(m.dst, m)
    BY <1>4 DEF RejectMismatch, AcceptEntries
  <2> QED BY <1>0, <2>1, <2>2 DEF AcceptLeader, StepDownIfStale
<1>5. ASSUME NEW m \in append_replies, HandleAppendEntriesResponse(m) PROVE Goal
  <2>1. m.dst \in Node /\ m.term \in Nat
    BY DEF TypeOK, AppendEntriesResponse, Term
  <2> QED BY <1>0, <1>5, <2>1
          DEF HandleAppendEntriesResponse, StepDownIfStale, TermAfter, RoleAfter
<1>6. ASSUME \/ \E n \in Node : OnHeartbeatDue(n)
             \/ \E n \in Node, c \in Command : Propose(n, c)
             \/ \E m \in append_entries : RejectStaleAppend(m)
             \/ PostFails
             \/ UNCHANGED vars
      PROVE  Goal
  BY <1>6 DEF OnHeartbeatDue, Propose, RejectStaleAppend, PostFails, vars,
              electionVars
<1> QED BY <1>1, <1>2, <1>3, <1>4, <1>5, <1>6 DEF Next

\* ElectedUnique for the state after a step.
LEMMA ElectedUniqueNew ==
    ASSUME TypeOK', NEW l \in Node, NEW n \in Node, NEW t,
           current_term'[n] = t, Cardinality(votes_received'[n]) >= Majority,
           Elected(l, t)'
    PROVE  n = l
<1>1. PICK Q \in SUBSET Node : /\ Cardinality(Q) >= Majority
                               /\ \A v \in Q : Bound(v, l, t)'
  BY DEF Elected, Majority
<1>2. votes_received'[n] \in SUBSET Node
  BY DEF TypeOK
<1>3. PICK v \in Q : v \in votes_received'[n]
  BY <1>1, <1>2, MajoritiesMeet
<1>4. Granted(v, n, t)'
  BY <1>3 DEF Granted
<1> QED BY <1>1, <1>3, <1>4 DEF Bound

\* Every handler and timer preserves the log invariant.
LEMMA LogStep ==
    ASSUME ElectionInv, ElectionInv', LogInv, [Next]_vars
    PROVE  LogInv'
<1>0. /\ TypeOK /\ TypeOK'
      /\ current_term \in [Node -> Nat] /\ current_term' \in [Node -> Nat]
      /\ log \in [Node -> Seq(Entry)]
  BY DEF ElectionInv, TypeOK, Term
<1>1. \A v \in Node : Orderly(v)
  BY <1>0, OrderlyStep
<1>2. FirstBefore'
  BY <1>0, PointsStep DEF LogInv
<1>3. ASSUME NEW l \in Node, role[l] = "leader", role'[l] = "leader"
      PROVE  Len(log'[l]) >= Len(log[l])
  <2>1. current_term'[l] = current_term[l]
    BY <1>0, <1>3, LeaderBefore
  <2>2. CASE UNCHANGED vars
    BY <1>0, <2>2 DEF vars, logVars
  <2>3. CASE ~UNCHANGED vars
    <3>1. LeaderLogGrows
      BY <2>3, LeaderLogStep
    <3> QED BY <1>3, <2>1, <3>1 DEF LeaderLogGrows
  <2> QED BY <2>2, <2>3
<1>4. ASSUME NEW l \in Node, role[l] = "leader", current_term'[l] = current_term[l]
      PROVE  role'[l] = "leader"
  <2>1. CASE UNCHANGED vars
    BY <1>4, <2>1 DEF vars, electionVars
  <2>2. CASE ~UNCHANGED vars
    BY <1>4, <2>2, LeaderLogStep DEF LeaderLogGrows
  <2> QED BY <2>1, <2>2
<1>5. ASSUME NEW x \in Points
      PROVE  \E l \in Node :
                 /\ Elected(l, x.entry.term)'
                 /\ \/ current_term'[l] > x.entry.term
                    \/ current_term'[l] = x.entry.term /\ role'[l] = "leader"
  <2>1. x.entry.term \in Nat
    BY <1>0, PointType
  <2>2. PICK l \in Node :
            /\ Elected(l, x.entry.term)
            /\ \/ current_term[l] > x.entry.term
               \/ current_term[l] = x.entry.term /\ role[l] = "leader"
    BY DEF LogInv, Authored
  <2>3. Elected(l, x.entry.term)'
    BY <1>0, <1>1, <2>1, <2>2, ElectedStable DEF Term
  <2>4. /\ current_term'[l] >= current_term[l]
        /\ current_term'[l] \in Nat /\ current_term[l] \in Nat
    BY <1>0, <1>1 DEF Orderly
  <2>5. \/ current_term'[l] > x.entry.term
        \/ current_term'[l] = x.entry.term /\ role'[l] = "leader"
    <3>1. CASE current_term'[l] > x.entry.term
      BY <3>1
    <3>2. CASE ~(current_term'[l] > x.entry.term)
      <4>1. /\ current_term'[l] = x.entry.term
            /\ current_term[l] = x.entry.term /\ role[l] = "leader"
        BY <2>1, <2>2, <2>4, <3>2
      <4> QED BY <1>4, <4>1
    <3> QED BY <3>1, <3>2
  <2> QED BY <2>3, <2>5
<1>6. ASSUME NEW l \in Node, role'[l] = "leader", NEW x \in Points,
             x.entry.term = current_term'[l]
      PROVE  x.index <= Len(log'[l])
  <2>1. /\ current_term'[l] = current_term[l]
        /\ role[l] = "leader" \/ role[l] = "candidate"
    BY <1>0, <1>6, LeaderBefore
  <2>2. CASE role[l] = "leader"
    <3>1. x.index <= Len(log[l]) /\ Len(log'[l]) >= Len(log[l])
      BY <1>3, <1>6, <2>1, <2>2 DEF LogInv, LeadersCover
    <3>2. x.index \in Nat /\ Len(log[l]) \in Nat /\ Len(log'[l]) \in Nat
      BY <1>0, PointType DEF TypeOK
    <3> QED BY <3>1, <3>2
  <2>3. CASE role[l] = "candidate"
    <3>1. PICK a \in Node :
              /\ Elected(a, x.entry.term)
              /\ \/ current_term[a] > x.entry.term
                 \/ current_term[a] = x.entry.term /\ role[a] = "leader"
      BY DEF LogInv, Authored
    <3>2. x.entry.term \in Term
      BY <1>0, PointType DEF Term
    <3>3. Elected(a, x.entry.term)'
      BY <1>0, <1>1, <3>1, <3>2, ElectedStable
    <3>4. Cardinality(votes_received'[l]) >= Majority
      BY <1>6 DEF ElectionInv, LeadersHaveMajority, Majority
    <3>6. l = a
      BY <1>0, <1>6, <3>3, <3>4, ElectedUniqueNew
    <3> QED BY <1>0, <1>6, <2>1, <2>3, <3>1, <3>6
  <2> QED BY <2>1, <2>2, <2>3
<1>7. CASE Points' \subseteq Points
  <2>1. PointsMatch'
    BY <1>7 DEF LogInv, PointsMatch
  <2>2. LeadersCover'
    BY <1>6, <1>7 DEF LeadersCover
  <2>3. Authored'
    BY <1>5, <1>7 DEF Authored
  <2> QED BY <1>2, <2>1, <2>2, <2>3 DEF LogInv
<1>8. ASSUME NEW n \in Node, NEW c \in Command, Propose(n, c),
             Points' \subseteq Points \cup {Fresh(n, c)}
      PROVE  LogInv'
  <2> DEFINE f == Fresh(n, c)
  <2>1. /\ f.index = Len(log[n]) + 1 /\ f.entry.term = current_term[n]
        /\ Len(log[n]) \in Nat /\ current_term[n] \in Nat
    BY <1>0 DEF Fresh
  <2>2. /\ role[n] = "leader" /\ role' = role /\ current_term' = current_term
        /\ Len(log'[n]) = Len(log[n]) + 1
    <3> DEFINE e == [term |-> current_term[n], command |-> c]
    <3>1. e \in Entry
      BY <1>0 DEF Entry, Term
    <3>2. log' = [log EXCEPT ![n] = Append(log[n], e)]
      BY <1>8 DEF Propose
    <3> HIDE DEF e
    <3>3. log'[n] = Append(log[n], e) /\ log[n] \in Seq(Entry)
      BY <1>0, <3>2
    <3> QED BY <1>8, <3>1, <3>3 DEF Propose, electionVars
  <2> HIDE DEF f
  <2>3. Points' \subseteq Points \cup {f}
    BY <1>8 DEF f
  <2>4. ASSUME NEW x \in Points, x.entry.term = f.entry.term
        PROVE  x.index # f.index
    <3>1. x.index <= Len(log[n])
      BY <2>1, <2>2, <2>4 DEF LogInv, LeadersCover
    <3>2. x.index \in Nat
      BY <1>0, PointType
    <3> QED BY <2>1, <3>1, <3>2
  <2>5. PointsMatch'
    BY <2>3, <2>4 DEF LogInv, PointsMatch
  <2>6. LeadersCover'
    <3> SUFFICES ASSUME NEW l \in Node, role'[l] = "leader", NEW x \in Points',
                        x.entry.term = current_term'[l]
                 PROVE  x.index <= Len(log'[l])
      BY DEF LeadersCover
    <3>1. CASE x \in Points
      BY <1>6, <3>1
    <3>2. CASE x = f
      <4>1. role[l] = "leader" /\ current_term[l] = current_term[n]
        BY <2>1, <2>2, <3>2
      <4>2. Elected(l, current_term[n])
        BY <4>1, LeaderElected
      <4>3. Cardinality(votes_received[n]) >= Majority
        BY <2>2 DEF ElectionInv, LeadersHaveMajority
      <4>4. n = l
        BY <1>0, <4>2, <4>3, ElectedUnique
      <4> QED BY <2>1, <2>2, <3>2, <4>4
    <3> QED BY <2>3, <3>1, <3>2
  <2>7. Authored'
    <3> SUFFICES ASSUME NEW x \in Points'
                 PROVE  \E l \in Node :
                            /\ Elected(l, x.entry.term)'
                            /\ \/ current_term'[l] > x.entry.term
                               \/ current_term'[l] = x.entry.term
                                  /\ role'[l] = "leader"
      BY DEF Authored
    <3>1. CASE x \in Points
      BY <1>5, <3>1
    <3>2. CASE x = f
      <4>1. Elected(n, current_term[n])
        BY <2>2, LeaderElected
      <4>2. current_term[n] \in Term
        BY <2>1 DEF Term
      <4>3. Elected(n, x.entry.term)'
        <5>1. x.entry.term \in Term /\ Elected(n, x.entry.term)
          BY <2>1, <3>2, <4>1, <4>2
        <5> QED BY <1>0, <1>1, <5>1, ElectedStable
      <4> QED BY <2>1, <2>2, <3>2, <4>3
    <3> QED BY <2>3, <3>1, <3>2
  <2> QED BY <1>2, <2>5, <2>6, <2>7 DEF LogInv
<1> QED BY <1>0, <1>7, <1>8, PointsStep DEF LogInv

\* Blank nodes have no entries.
LEMMA LogInit == Init => LogInv
<1> SUFFICES ASSUME Init PROVE LogInv
  OBVIOUS
<1>1. Points = {}
  BY DEF Init, Points, LogPoints
<1>2. append_entries = {}
  BY DEF Init
<1> QED BY <1>1, <1>2
        DEF LogInv, PointsMatch, LeadersCover, Authored, FirstBefore

\* Index and term identify an entry and the one before it, hence all of them:
\* the last disagreement below an agreement would be followed by an agreement.
LEMMA PointsGiveMatching == TypeOK /\ PointsMatch => LogMatching
<1> SUFFICES ASSUME TypeOK, PointsMatch, NEW n \in Node, NEW o \in Node,
                    NEW i \in 1..Len(log[n]), i <= Len(log[o]),
                    log[n][i].term = log[o][i].term
             PROVE  \A j \in 1..i : log[n][j] = log[o][j]
  BY DEF LogMatching
<1>0. Len(log[n]) \in Nat /\ Len(log[o]) \in Nat /\ i \in Nat
  BY DEF TypeOK
<1>1. ASSUME NEW j \in 1..i, log[n][j].term = log[o][j].term
      PROVE  /\ log[n][j] = log[o][j]
             /\ j # 1 => log[n][j - 1].term = log[o][j - 1].term
  <2> DEFINE x == LogPoint(log[n], j)
             y == LogPoint(log[o], j)
  <2>1. j \in 1..Len(log[n]) /\ j \in 1..Len(log[o])
    BY <1>0
  <2>2. x \in Points /\ y \in Points
    BY <2>1, PointsHeld DEF LogPoints
  <2>3. /\ x.index = j /\ x.entry = log[n][j]
        /\ y.index = j /\ y.entry = log[o][j]
        /\ j # 1 => x.before = log[n][j - 1].term /\ y.before = log[o][j - 1].term
    BY DEF LogPoint
  <2> HIDE DEF x, y
  <2>4. x = y
    BY <1>1, <2>2, <2>3 DEF PointsMatch
  <2> QED BY <2>3, <2>4
<1> DEFINE D == {j \in 1..i : log[n][j] # log[o][j]}
<1>2. ASSUME D # {} PROVE FALSE
  <2>1. D \in SUBSET Nat /\ \A j \in D : j <= i
    BY <1>0
  <2>2. PICK j \in D : \A k \in D : k <= j
    BY <1>0, <1>2, <2>1, NatBoundedMax
  <2>3. j \in 1..i /\ log[n][j] # log[o][j]
    BY <2>2
  <2>4. j # i
    BY <1>1, <2>3
  <2>5. j + 1 \in 1..i /\ j + 1 # 1 /\ (j + 1) - 1 = j
    BY <1>0, <2>3, <2>4
  <2>6. log[n][j + 1] = log[o][j + 1]
    <3> SUFFICES ASSUME log[n][j + 1] # log[o][j + 1] PROVE FALSE
      OBVIOUS
    <3>1. j + 1 \in D
      BY <2>5
    <3> QED BY <2>2, <2>3, <3>1
  <2>7. log[n][j].term = log[o][j].term
    BY <1>1, <2>5, <2>6
  <2> QED BY <1>1, <2>3, <2>7
<1> QED BY <1>2

\* Index and term identify a point in every reachable state.
LEMMA LogInvariant == Spec => [](ElectionInv /\ LogInv)
<1>1. Init => LogInv
  BY LogInit
<1>2. TypeInv /\ ElectionInv /\ LogInv /\ [Next]_vars
      /\ (TypeInv /\ ElectionInv)' => LogInv'
  <2> SUFFICES ASSUME ElectionInv, ElectionInv', LogInv, [Next]_vars
               PROVE  LogInv'
    OBVIOUS
  <2> QED BY LogStep
<1> QED BY <1>1, <1>2, ElectionInvariant, PTL DEF Spec

\* Log matching: two logs with an entry of the same term at the same index
\* are equal up to it, for any number of nodes and whatever
\* handle_append_entries cut, kept or appended on the way there.
THEOREM LogsMatch == Spec => []LogMatching
<1>1. ElectionInv /\ LogInv => LogMatching
  BY PointsGiveMatching DEF ElectionInv, LogInv
<1> QED BY <1>1, LogInvariant, PTL

=============================================================================
