--------------------------- MODULE RaftPairProofs ---------------------------
(***************************************************************************)
(* Proofs about Raft and RaftKv with two nodes, for every bound: the state *)
(* machines agree, what is applied is in both logs, and a client told      *)
(* "committed" finds its command applied.  handle_append_entries reports   *)
(* the length of its whole log and the leader counts that as a match; with *)
(* three nodes this commits entries that a majority does not hold, so the  *)
(* theorems are about pairs and need a reason peculiar to them.            *)
(*                                                                         *)
(* In a pair an election needs both votes.  The voter's log is therefore a *)
(* part of the new leader's, stays one while the leader leads, and every   *)
(* request that is not refused as stale is a part of the sender's log.  So *)
(* one log is always a prefix of the other, nothing is ever truncated, the *)
(* reported length is a real match, and what is committed is in both logs. *)
(*                                                                         *)
(* The first part says what a step does to each part of the state, for any *)
(* nodes; the second states the invariant of a pair; the third shows that  *)
(* every step preserves it, one lemma per part of the invariant.           *)
(***************************************************************************)
EXTENDS RaftKv, RaftProofs

\* Two different nodes are all there are.
LEMMA PairNodes ==
    ASSUME Cardinality(Node) = 2, NEW a \in Node, NEW b \in Node, a # b
    PROVE  Node = {a, b}
<1>1. IsFiniteSet(Node) /\ {a, b} \subseteq Node
  BY NodeAssumption
<1>2. Cardinality({a, b}) = 2
  <2>1. IsFiniteSet({a}) /\ Cardinality({a}) = 1 /\ b \notin {a}
    BY FS_Singleton
  <2>2. Cardinality({a} \cup {b}) = Cardinality({a}) + 1
    BY <2>1, FS_AddElement
  <2>3. {a} \cup {b} = {a, b}
    OBVIOUS
  <2> QED BY <2>1, <2>2, <2>3
<1> QED BY <1>1, <1>2, FS_Subset

\* A majority of a pair is the pair.
LEMMA PairMajority ==
    ASSUME Cardinality(Node) = 2, NEW Q \in SUBSET Node,
           Cardinality(Q) >= Majority
    PROVE  Q = Node
<1>1. Majority = 2
  BY DEF Majority
<1>2. /\ IsFiniteSet(Q) /\ Cardinality(Q) <= Cardinality(Node)
      /\ Cardinality(Q) = Cardinality(Node) => Q = Node
  BY NodeAssumption, FS_Subset
<1>3. Cardinality(Q) \in Nat
  BY <1>2, FS_CardinalityType
<1> QED BY <1>1, <1>2, <1>3

\* A pair is a majority of itself.
LEMMA PairIsMajority == Cardinality(Node) = 2 => Cardinality(Node) >= Majority
  BY DEF Majority

-----------------------------------------------------------------------------
(* Logs as prefixes of one another *)

\* s is t or the beginning of it.
Below(s, t) == Len(s) <= Len(t) /\ \A i \in 1..Len(s) : s[i] = t[i]

\* Below is reflexive,
LEMMA BelowSelf == \A s \in Seq(Entry) : Below(s, s)
  BY DEF Below

\* and transitive.
LEMMA BelowTrans ==
    ASSUME NEW s \in Seq(Entry), NEW t \in Seq(Entry), NEW u \in Seq(Entry),
           Below(s, t), Below(t, u)
    PROVE  Below(s, u)
<1>1. Len(s) \in Nat /\ Len(t) \in Nat /\ Len(u) \in Nat
  OBVIOUS
<1>2. Len(s) <= Len(u) /\ \A i \in 1..Len(s) : i \in 1..Len(t)
  BY <1>1 DEF Below
<1> QED BY <1>2 DEF Below

\* Two parts of one log are parts of one another.
LEMMA BelowSame ==
    ASSUME NEW s \in Seq(Entry), NEW t \in Seq(Entry), NEW u \in Seq(Entry),
           Below(s, u), Below(t, u)
    PROVE  Below(s, t) \/ Below(t, s)
<1>1. Len(s) \in Nat /\ Len(t) \in Nat
  OBVIOUS
<1>2. CASE Len(s) <= Len(t)
  <2>1. \A i \in 1..Len(s) : i \in 1..Len(t)
    BY <1>1, <1>2
  <2> QED BY <1>2, <2>1 DEF Below
<1>3. CASE Len(t) <= Len(s)
  <2>1. \A i \in 1..Len(t) : i \in 1..Len(s)
    BY <1>1, <1>3
  <2> QED BY <1>3, <2>1 DEF Below
<1> QED BY <1>1, <1>2, <1>3

\* propose_put extends a log.
LEMMA BelowAppend == \A s \in Seq(Entry), e \in Entry : Below(s, Append(s, e))
<1> SUFFICES ASSUME NEW s \in Seq(Entry), NEW e \in Entry
             PROVE  Below(s, Append(s, e))
  OBVIOUS
<1>1. /\ Len(Append(s, e)) = Len(s) + 1 /\ Len(s) \in Nat
      /\ \A i \in 1..Len(s) : Append(s, e)[i] = s[i]
  OBVIOUS
<1> QED BY <1>1 DEF Below

\* Terms that never fall along a log and never exceed t.
Rising(lg, t) ==
    \A i \in 1..Len(lg) :
        /\ lg[i].term <= t
        /\ \A j \in 1..i : lg[j].term <= lg[i].term

\* Of two logs, one a part of the other, the voter's check of section 5.4.1
\* finds the longer one.
LEMMA UpToDateAbove ==
    ASSUME NEW s \in Seq(Entry), NEW c \in Seq(Entry), NEW t,
           Rising(s, t), Below(s, c) \/ Below(c, s),
           LogUpToDate(s, LastLogTerm(c), Len(c))
    PROVE  Below(s, c)
<1> SUFFICES ASSUME Below(c, s) PROVE Below(s, c)
  OBVIOUS
<1>1. Len(s) \in Nat /\ Len(c) \in Nat /\ Len(c) <= Len(s)
  BY DEF Below
<1>0. \A e \in Entry : e.term \in Nat
  BY DEF Entry, Term
<1>2. \A i \in 1..Len(s) : s[i].term \in Nat
  BY <1>0
<1>3. LastLogTerm(c) <= LastLogTerm(s)
  <2>1. CASE Len(c) = 0
    <3>1. LastLogTerm(s) \in Nat /\ LastLogTerm(c) = 0
      BY <1>1, <1>2, <2>1 DEF LastLogTerm
    <3> QED BY <3>1
  <2>2. CASE Len(c) > 0
    <3>1. Len(c) \in 1..Len(c) /\ Len(c) \in 1..Len(s) /\ Len(s) \in 1..Len(s)
      BY <1>1, <2>2
    <3>2. c[Len(c)] = s[Len(c)]
      BY <3>1 DEF Below
    <3>3. s[Len(c)].term <= s[Len(s)].term
      BY <3>1 DEF Rising
    <3> QED BY <1>1, <2>2, <3>2, <3>3 DEF LastLogTerm
  <2> QED BY <1>1, <2>1, <2>2
<1>4. LastLogTerm(c) \in Nat /\ LastLogTerm(s) \in Nat
  <2>1. \A i \in 1..Len(c) : c[i].term \in Nat
    BY <1>0
  <2> QED BY <1>1, <1>2, <2>1 DEF LastLogTerm
<1>5. Len(c) >= Len(s)
  BY <1>3, <1>4 DEF LogUpToDate
<1>6. Len(c) = Len(s)
  BY <1>1, <1>5
<1> QED BY <1>6 DEF Below

\* Entries in the places they have in a longer log merge without conflict:
\* the insertion loop only extends the log, and stays inside the longer one.
LEMMA MergeBelow ==
    ASSUME NEW lg \in Seq(Entry), NEW big \in Seq(Entry),
           NEW es \in Seq(Entry), NEW prev \in Nat, prev <= Len(lg),
           Below(lg, big), prev + Len(es) <= Len(big),
           \A k \in 1..Len(es) : es[k] = big[prev + k]
    PROVE  /\ Below(lg, Merge(lg, prev, es))
           /\ Below(Merge(lg, prev, es), big)
           /\ \A i \in (Len(lg) + 1)..Len(Merge(lg, prev, es)) :
                  i - prev \in 1..Len(es)
<1> DEFINE t == Merge(lg, prev, es)
<1>1. Len(lg) \in Nat /\ Len(es) \in Nat /\ Len(big) \in Nat
      /\ Len(lg) <= Len(big)
  BY DEF Below
<1>2. Conflicts(lg, prev, es) = {}
  <2> SUFFICES ASSUME NEW k \in 1..Len(es), prev + k <= Len(lg)
               PROVE  lg[prev + k].term = es[k].term
    BY DEF Conflicts
  <2>1. prev + k \in 1..Len(lg)
    BY <1>1
  <2>2. lg[prev + k] = big[prev + k]
    BY <2>1 DEF Below
  <2> QED BY <2>2
<1>3. Kept(lg, prev, es) = Len(lg)
  BY <1>2 DEF Kept
<1>4. /\ t \in Seq(Entry)
      /\ Len(t) = IF Len(lg) - prev <= Len(es) THEN prev + Len(es) ELSE Len(lg)
      /\ \A i \in 1..Len(lg) : t[i] = lg[i]
      /\ \A i \in (Len(lg) + 1)..Len(t) :
             i - prev \in 1..Len(es) /\ t[i] = es[i - prev]
  BY <1>3, MergeEntries
<1> HIDE DEF t
<1>5. Len(lg) <= Len(t) /\ Len(t) <= Len(big) /\ Len(t) \in Nat
  BY <1>1, <1>4
<1>6. Below(lg, t)
  BY <1>4, <1>5 DEF Below
<1>7. ASSUME NEW i \in 1..Len(t) PROVE t[i] = big[i]
  <2>1. CASE i <= Len(lg)
    <3>1. i \in 1..Len(lg)
      BY <1>1, <1>5, <2>1
    <3> QED BY <1>4, <3>1 DEF Below
  <2>2. CASE ~(i <= Len(lg))
    <3>1. i \in (Len(lg) + 1)..Len(t) /\ prev + (i - prev) = i
      BY <1>1, <1>5, <2>2
    <3>2. i - prev \in 1..Len(es) /\ t[i] = es[i - prev]
      BY <1>4, <3>1
    <3>3. es[i - prev] = big[prev + (i - prev)]
      BY <3>2
    <3> QED BY <3>1, <3>2, <3>3
  <2> QED BY <2>1, <2>2
<1>8. Below(t, big)
  BY <1>5, <1>7 DEF Below
<1> QED BY <1>4, <1>6, <1>8 DEF t

-----------------------------------------------------------------------------
(* What one step does to each part of the state, for any nodes *)

\* Request m was made by leader n for p out of the log it has after the step:
\* the first of a new leader, one of a heartbeat or a proposal, or the retry
\* after a refusal.
Sends(n, p, nx, m) ==
    /\ m = AppendEntriesFor(n, p, current_term[n], log'[n], nx)
    /\ role'[n] = "leader" /\ current_term'[n] = current_term[n]
    /\ \/ nx = Len(log'[n])
       \/ role[n] = "leader" /\ nx = next_index[n][p]
       \/ /\ role[n] = "leader"
          /\ \E r \in append_replies : /\ r.follower_id = p
                                       /\ nx = r.match_length_hint

\* Every new AppendEntries request is of that kind.
LEMMA SendStep ==
    ASSUME TypeOK, [Next]_vars, NEW m \in append_entries', m \notin append_entries
    PROVE  \E n, p \in Node, nx \in Nat : Sends(n, p, nx, m)
<1> DEFINE Goal == \E n, p \in Node, nx \in Nat : Sends(n, p, nx, m)
<1>0. /\ log \in [Node -> Seq(Entry)] /\ next_index \in [Node -> [Node -> Nat]]
      /\ role \in [Node -> Role] /\ current_term \in [Node -> Nat]
  BY DEF TypeOK, Term
<1>1. ASSUME NEW n \in Node, NEW lg, NEW nx,
             append_entries' \in Post(append_entries, Heartbeats(n, lg, nx))
      PROVE  \E p \in Node : m = AppendEntriesFor(n, p, current_term[n], lg, nx[p])
  <2>1. m \in Heartbeats(n, lg, nx)
    BY <1>1, PostSubset
  <2> QED BY <2>1 DEF Heartbeats, Peers
<1>2. ASSUME NEW v \in vote_replies, HandleRequestVoteResponse(v) PROVE Goal
  <2> DEFINE n == v.dst
             nx == [p \in Node |-> Len(log[n])]
  <2>1. /\ n \in Node /\ BecomeLeader(n) /\ log' = log
        /\ role[n] = "candidate" /\ v.term = current_term[n]
        /\ current_term' = [current_term EXCEPT ![n] = TermAfter(n, v.term)]
    BY <1>2 DEF TypeOK, RequestVoteResponse, HandleRequestVoteResponse, logVars
  <2>2. role'[n] = "leader" /\ current_term'[n] = current_term[n]
    BY <1>0, <2>1 DEF BecomeLeader, TermAfter
  <2>3. append_entries' \in Post(append_entries, Heartbeats(n, log[n], nx))
    BY <2>1 DEF BecomeLeader
  <2> HIDE DEF n
  <2>4. \A p \in Node : nx[p] = Len(log[n])
    OBVIOUS
  <2> HIDE DEF nx
  <2>5. PICK p \in Node : m = AppendEntriesFor(n, p, current_term[n], log[n], nx[p])
    BY <1>1, <2>1, <2>3
  <2>6. /\ Len(log'[n]) \in Nat
        /\ m = AppendEntriesFor(n, p, current_term[n], log'[n], Len(log'[n]))
    BY <1>0, <2>1, <2>4, <2>5
  <2> QED BY <2>1, <2>2, <2>6 DEF Sends
<1>3. ASSUME NEW n \in Node, OnHeartbeatDue(n) PROVE Goal
  <2>1. /\ log' = log /\ role' = role /\ current_term' = current_term
        /\ role[n] = "leader"
        /\ append_entries' \in Post(append_entries,
                                    Heartbeats(n, log'[n], next_index[n]))
    BY <1>3 DEF OnHeartbeatDue, electionVars, logVars
  <2>2. PICK p \in Node : m = AppendEntriesFor(n, p, current_term[n], log'[n],
                                               next_index[n][p])
    BY <1>1, <2>1
  <2>3. next_index[n][p] \in Nat
    BY <1>0
  <2> QED BY <2>1, <2>2, <2>3 DEF Sends
<1>4. ASSUME NEW n \in Node, NEW c \in Command, Propose(n, c) PROVE Goal
  <2>1. /\ role' = role /\ current_term' = current_term
        /\ role[n] = "leader"
        /\ append_entries' \in Post(append_entries,
                                    Heartbeats(n, log'[n], next_index[n]))
    BY <1>0, <1>4 DEF Propose, electionVars
  <2>2. PICK p \in Node : m = AppendEntriesFor(n, p, current_term[n], log'[n],
                                               next_index[n][p])
    BY <1>1, <2>1
  <2>3. next_index[n][p] \in Nat
    BY <1>0
  <2> QED BY <2>1, <2>2, <2>3 DEF Sends
<1>5. ASSUME NEW r \in append_replies, HandleAppendEntriesResponse(r) PROVE Goal
  <2> DEFINE n == r.dst
             retry == AppendEntriesFor(n, r.follower_id, current_term[n], log[n],
                                       r.match_length_hint)
             live == role[n] = "leader" /\ r.term = current_term[n]
             out == IF live /\ ~r.success THEN {retry} ELSE {}
  <2>1. /\ n \in Node /\ r.follower_id \in Node /\ r.match_length_hint \in Nat
        /\ r.term \in Nat
    BY DEF TypeOK, AppendEntriesResponse, Term
  <2>2. /\ log' = log /\ append_entries' \in Post(append_entries, out)
        /\ role' = [role EXCEPT ![n] = RoleAfter(n, r.term)]
        /\ current_term' = [current_term EXCEPT ![n] = TermAfter(n, r.term)]
    BY <1>5 DEF HandleAppendEntriesResponse, StepDownIfStale
  <2>3. m \in out
    BY <2>2, PostSubset
  <2>4. m = retry /\ live
    BY <2>3
  <2>5. role'[n] = "leader" /\ current_term'[n] = current_term[n]
    BY <1>0, <2>1, <2>2, <2>4 DEF RoleAfter, TermAfter
  <2> QED BY <2>1, <2>2, <2>4, <2>5 DEF Sends
<1>6. ASSUME \/ \E n \in Node : OnElectionTimeout(n)
             \/ \E v \in request_votes : HandleRequestVote(v)
             \/ \E a \in append_entries : RejectStaleAppend(a)
             \/ \E a \in append_entries : RejectMismatch(a)
             \/ \E a \in append_entries : AcceptEntries(a)
             \/ PostFails
             \/ UNCHANGED vars
      PROVE  FALSE
  BY <1>6 DEF OnElectionTimeout, HandleRequestVote, RejectStaleAppend,
              RejectMismatch, AcceptEntries, AcceptLeader, PostFails, vars, netVars
<1> QED BY <1>2, <1>3, <1>4, <1>5, <1>6 DEF Next

\* A candidate has just timed out, or was a candidate of the term already and
\* has the log it had.
LEMMA CandidateStep ==
    ASSUME TypeOK, [Next]_vars, NEW c \in Node, role'[c] = "candidate"
    PROVE  \/ OnElectionTimeout(c)
           \/ /\ role[c] = "candidate" /\ current_term'[c] = current_term[c]
              /\ log'[c] = log[c]
<1> DEFINE Goal == /\ role[c] = "candidate" /\ current_term'[c] = current_term[c]
                   /\ log'[c] = log[c]
<1>0. /\ current_term \in [Node -> Nat] /\ role \in [Node -> Role]
      /\ log \in [Node -> Seq(Entry)]
  BY DEF TypeOK, Term
<1>1. ASSUME NEW n \in Node, OnElectionTimeout(n)
      PROVE  OnElectionTimeout(c) \/ Goal
  <2>1. CASE n = c
    BY <1>1, <2>1
  <2>2. CASE n # c
    BY <1>0, <1>1, <2>2 DEF OnElectionTimeout, logVars
  <2> QED BY <2>1, <2>2
<1>2. ASSUME NEW m \in request_votes, HandleRequestVote(m) PROVE Goal
  <2>1. m.dst \in Node /\ m.term \in Nat
    BY DEF TypeOK, RequestVoteRequest, Term
  <2> QED BY <1>0, <1>2, <2>1
          DEF HandleRequestVote, StepDownIfStale, TermAfter, RoleAfter, logVars
<1>3. ASSUME NEW m \in vote_replies, HandleRequestVoteResponse(m) PROVE Goal
  <2> DEFINE n == m.dst
  <2>1. n \in Node /\ m.term \in Nat
    BY DEF TypeOK, RequestVoteResponse, Term
  <2>2. \/ role' = [role EXCEPT ![n] = "leader"]
        \/ role' = [role EXCEPT ![n] = RoleAfter(n, m.term)]
    BY <1>3 DEF HandleRequestVoteResponse, BecomeLeader
  <2>3. /\ current_term' = [current_term EXCEPT ![n] = TermAfter(n, m.term)]
        /\ UNCHANGED log
    BY <1>3 DEF HandleRequestVoteResponse, logVars
  <2> QED BY <1>0, <2>1, <2>2, <2>3 DEF TermAfter, RoleAfter
<1>4. ASSUME NEW m \in append_entries, RejectMismatch(m) \/ AcceptEntries(m)
      PROVE  Goal
  <2>1. m.dst \in Node /\ m.term \in Nat
    BY DEF TypeOK, AppendEntriesRequest, Term
  <2>2. AcceptLeader(m.dst, m)
    BY <1>4 DEF RejectMismatch, AcceptEntries
  <2>3. \E lg : log' = [log EXCEPT ![m.dst] = lg]
    BY <1>4 DEF RejectMismatch, AcceptEntries
  <2>4. c # m.dst
    BY <1>0, <2>1, <2>2 DEF AcceptLeader
  <2> QED BY <1>0, <2>1, <2>2, <2>3, <2>4 DEF AcceptLeader, StepDownIfStale
<1>5. ASSUME NEW m \in append_replies, HandleAppendEntriesResponse(m) PROVE Goal
  <2>1. m.dst \in Node /\ m.term \in Nat
    BY DEF TypeOK, AppendEntriesResponse, Term
  <2> QED BY <1>0, <1>5, <2>1
          DEF HandleAppendEntriesResponse, StepDownIfStale, TermAfter, RoleAfter
<1>6. ASSUME NEW n \in Node, NEW d \in Command, Propose(n, d) PROVE Goal
  <2>1. role' = role /\ current_term' = current_term /\ role[n] = "leader"
    BY <1>6 DEF Propose, electionVars
  <2>2. c # n
    BY <2>1
  <2> QED BY <1>0, <1>6, <2>1, <2>2 DEF Propose
<1>7. ASSUME \/ \E n \in Node : OnHeartbeatDue(n)
             \/ \E m \in append_entries : RejectStaleAppend(m)
             \/ PostFails
             \/ UNCHANGED vars
      PROVE  Goal
  BY <1>7 DEF OnHeartbeatDue, RejectStaleAppend, PostFails, vars,
              electionVars, logVars
<1> QED BY <1>1, <1>2, <1>3, <1>4, <1>5, <1>6, <1>7 DEF Next

\* A new vote is the candidate's own or the answer to a request that passed
\* the check of the log.
LEMMA GrantStep ==
    ASSUME TypeOK, [Next]_vars, NEW o \in Node, NEW c \in Node, NEW t \in Term,
           Granted(o, c, t)'
    PROVE  \/ Granted(o, c, t)
           \/ OnElectionTimeout(c) /\ o = c /\ t = current_term'[c]
           \/ \E m \in request_votes :
                  /\ HandleRequestVote(m) /\ m.dst = o /\ m.candidate_id = c
                  /\ m.term = t /\ LogUpToDate(log[o], m.last_log_term,
                                               m.last_log_index)
<1>0. /\ current_term \in [Node -> Nat]
      /\ votes_received \in [Node -> SUBSET Node]
  BY DEF TypeOK, Term
<1>1. ASSUME NEW n \in Node, OnElectionTimeout(n)
      PROVE  \/ Granted(o, c, t)
             \/ OnElectionTimeout(c) /\ o = c /\ t = current_term'[c]
  <2>1. /\ vote_replies' = vote_replies
        /\ votes_received' = [votes_received EXCEPT ![n] = {n}]
        /\ current_term' = [current_term EXCEPT ![n] = current_term[n] + 1]
    BY <1>1 DEF OnElectionTimeout
  <2> QED BY <1>0, <1>1, <2>1 DEF Granted
<1>2. ASSUME NEW m \in request_votes, HandleRequestVote(m)
      PROVE  \/ Granted(o, c, t)
             \/ /\ m.dst = o /\ m.candidate_id = c
                /\ m.term = t /\ LogUpToDate(log[o], m.last_log_term,
                                             m.last_log_index)
  <2> DEFINE n == m.dst
             g == /\ m.term >= current_term[n]
                  /\ VoteAfter(n, m.term) \in {None, m.candidate_id}
                  /\ LogUpToDate(log[n], m.last_log_term, m.last_log_index)
             rep == [term |-> TermAfter(n, m.term), vote_granted |-> g,
                     voter_id |-> n, dst |-> m.candidate_id]
  <2>1. n \in Node /\ m.term \in Nat
    BY DEF TypeOK, RequestVoteRequest, Term
  <2>2. vote_replies' = vote_replies \cup {rep}
    BY <1>2 DEF HandleRequestVote
  <2>3. /\ votes_received' = [votes_received EXCEPT ![n] = VotesAfter(n, m.term)]
        /\ current_term' = [current_term EXCEPT ![n] = TermAfter(n, m.term)]
    BY <1>2 DEF HandleRequestVote, StepDownIfStale
  <2>4. CASE \E r \in vote_replies' : /\ r.vote_granted /\ r.voter_id = o
                                      /\ r.dst = c /\ r.term = t
    <3>1. PICK r \in vote_replies' : /\ r.vote_granted /\ r.voter_id = o
                                     /\ r.dst = c /\ r.term = t
      BY <2>4
    <3>2. CASE r \in vote_replies
      BY <3>1, <3>2 DEF Granted
    <3>3. CASE r = rep
      <4>1. /\ rep.term = TermAfter(n, m.term) /\ rep.vote_granted = g
            /\ rep.voter_id = n /\ rep.dst = m.candidate_id
        OBVIOUS
      <4>2. g /\ n = o /\ m.candidate_id = c /\ TermAfter(n, m.term) = t
        <5> HIDE DEF g, rep
        <5> QED BY <3>1, <3>3, <4>1
      <4>3. TermAfter(n, m.term) = m.term
        BY <1>0, <2>1, <4>2 DEF TermAfter
      <4> QED BY <4>2, <4>3
    <3> QED BY <2>2, <3>1, <3>2, <3>3
  <2>5. CASE current_term'[c] = t /\ o \in votes_received'[c]
    BY <1>0, <2>1, <2>3, <2>5 DEF TermAfter, VotesAfter, Granted
  <2> QED BY <2>4, <2>5 DEF Granted
<1>3. ASSUME NEW m \in vote_replies, HandleRequestVoteResponse(m)
      PROVE  Granted(o, c, t)
  <2> DEFINE n == m.dst
             live == role[n] = "candidate" /\ m.term = current_term[n]
             votes == votes_received[n] \cup {m.voter_id}
  <2>1. n \in Node /\ m.term \in Nat /\ m.voter_id \in Node
    BY DEF TypeOK, RequestVoteResponse, Term
  <2>2. /\ votes_received' = [votes_received EXCEPT ![n] =
                IF live /\ m.vote_granted THEN votes ELSE VotesAfter(n, m.term)]
        /\ current_term' = [current_term EXCEPT ![n] = TermAfter(n, m.term)]
        /\ vote_replies' = vote_replies
    BY <1>3 DEF HandleRequestVoteResponse
  <2>3. CASE live /\ m.vote_granted
    <3>1. current_term' = current_term
      BY <1>0, <2>1, <2>2, <2>3 DEF TermAfter
    <3>2. votes_received' = [votes_received EXCEPT ![n] = votes]
      BY <2>2, <2>3
    <3> QED BY <1>0, <2>1, <2>2, <2>3, <3>1, <3>2 DEF Granted
  <2>4. CASE ~(live /\ m.vote_granted)
    <3>1. votes_received' = [votes_received EXCEPT ![n] = VotesAfter(n, m.term)]
      BY <2>2, <2>4
    <3> QED BY <1>0, <2>1, <2>2, <3>1 DEF TermAfter, VotesAfter, Granted
  <2> QED BY <2>3, <2>4
<1>4. ASSUME NEW n \in Node, NEW u \in Term, StepDownIfStale(n, u),
             vote_replies' = vote_replies
      PROVE  Granted(o, c, t)
  BY <1>0, <1>4 DEF StepDownIfStale, TermAfter, VotesAfter, Granted, Term
<1>5. ASSUME NEW m \in append_entries, RejectMismatch(m) \/ AcceptEntries(m)
      PROVE  Granted(o, c, t)
  <2>1. m.dst \in Node /\ m.term \in Term
    BY DEF TypeOK, AppendEntriesRequest
  <2>2. StepDownIfStale(m.dst, m.term) /\ vote_replies' = vote_replies
    BY <1>5 DEF RejectMismatch, AcceptEntries, AcceptLeader
  <2> QED BY <1>4, <2>1, <2>2
<1>6. ASSUME NEW m \in append_replies, HandleAppendEntriesResponse(m)
      PROVE  Granted(o, c, t)
  <2>1. m.dst \in Node /\ m.term \in Term
    BY DEF TypeOK, AppendEntriesResponse
  <2>2. StepDownIfStale(m.dst, m.term) /\ vote_replies' = vote_replies
    BY <1>6 DEF HandleAppendEntriesResponse
  <2> QED BY <1>4, <2>1, <2>2
<1>7. ASSUME \/ \E n \in Node : OnHeartbeatDue(n)
             \/ \E n \in Node, d \in Command : Propose(n, d)
             \/ \E m \in append_entries : RejectStaleAppend(m)
             \/ PostFails
             \/ UNCHANGED vars
      PROVE  Granted(o, c, t)
  <2>1. /\ UNCHANGED <<current_term, votes_received>>
        /\ vote_replies' \subseteq vote_replies
    BY <1>7 DEF OnHeartbeatDue, Propose, RejectStaleAppend, PostFails, vars,
                electionVars, netVars
  <2> QED BY <2>1 DEF Granted
<1> QED BY <1>1, <1>2, <1>3, <1>5, <1>6, <1>7 DEF Next

\* A new vote request describes the log of the candidate that timed out.
LEMMA AskStep ==
    ASSUME TypeOK, [Next]_vars, NEW m \in request_votes', m \notin request_votes
    PROVE  /\ log' = log /\ m.candidate_id \in Node
           /\ m.term = current_term'[m.candidate_id]
           /\ m.last_log_index = Len(log[m.candidate_id])
           /\ m.last_log_term = LastLogTerm(log[m.candidate_id])
<1>1. PICK n \in Node : OnElectionTimeout(n)
  BY DEF Next, vars, netVars, OnHeartbeatDue, Propose, HandleRequestVote,
         HandleRequestVoteResponse, RejectStaleAppend, RejectMismatch,
         AcceptEntries, AcceptLeader, HandleAppendEntriesResponse, PostFails
<1> DEFINE out == {[term |-> current_term[n] + 1, candidate_id |-> n, dst |-> p,
                    last_log_index |-> Len(log[n]),
                    last_log_term  |-> LastLogTerm(log[n])] : p \in Peers(n)}
<1>2. /\ request_votes' \in Post(request_votes, out) /\ log' = log
      /\ current_term' = [current_term EXCEPT ![n] = current_term[n] + 1]
  BY <1>1 DEF OnElectionTimeout, logVars
<1>3. m \in out
  <2> HIDE DEF out
  <2> QED BY <1>2, PostSubset
<1>4. current_term'[n] = current_term[n] + 1
  BY <1>2 DEF TypeOK
<1> QED BY <1>2, <1>3, <1>4

\* A new AppendEntries reply reports the length of the log as it is now.
LEMMA ReplyStep ==
    ASSUME TypeOK, [Next]_vars, NEW r \in append_replies', r \notin append_replies
    PROVE  /\ r.follower_id \in Node
           /\ r.match_length_hint = Len(log'[r.follower_id])
<1> DEFINE Goal == /\ r.follower_id \in Node
                   /\ r.match_length_hint = Len(log'[r.follower_id])
<1>0. log \in [Node -> Seq(Entry)]
  BY DEF TypeOK
<1>1. ASSUME NEW n, NEW m, NEW s, NEW h, AppendReply(n, m, s, h)
      PROVE  r.follower_id = n /\ r.match_length_hint = h
  BY <1>1 DEF AppendReply
<1>2. ASSUME NEW m \in append_entries, RejectStaleAppend(m) PROVE Goal
  <2>1. m.dst \in Node /\ log' = log
    BY <1>2 DEF TypeOK, AppendEntriesRequest, RejectStaleAppend, logVars
  <2>2. AppendReply(m.dst, m, FALSE, Len(log[m.dst]))
    BY <1>2 DEF RejectStaleAppend
  <2> QED BY <1>1, <2>1, <2>2
<1>3. ASSUME NEW m \in append_entries, RejectMismatch(m) PROVE Goal
  <2> DEFINE n  == m.dst
             lg == IF m.prev_log_index > Len(log[n]) THEN log[n]
                   ELSE SubSeq(log[n], 1, m.prev_log_index - 1)
  <2>1. n \in Node
    BY DEF TypeOK, AppendEntriesRequest
  <2>2. log' = [log EXCEPT ![n] = lg] /\ AppendReply(n, m, FALSE, Len(lg))
    BY <1>3 DEF RejectMismatch
  <2> HIDE DEF n, lg
  <2>3. log'[n] = lg
    BY <1>0, <2>1, <2>2
  <2> QED BY <1>1, <2>1, <2>2, <2>3
<1>4. ASSUME NEW m \in append_entries, AcceptEntries(m) PROVE Goal
  <2> DEFINE n  == m.dst
             lg == Merge(log[n], m.prev_log_index, m.entries)
  <2>1. n \in Node
    BY DEF TypeOK, AppendEntriesRequest
  <2>2. log' = [log EXCEPT ![n] = lg] /\ AppendReply(n, m, TRUE, Len(lg))
    BY <1>4 DEF AcceptEntries
  <2> HIDE DEF n, lg
  <2>3. log'[n] = lg
    BY <1>0, <2>1, <2>2
  <2> QED BY <1>1, <2>1, <2>2, <2>3
<1>5. ASSUME \/ \E n \in Node : OnElectionTimeout(n)
             \/ \E n \in Node : OnHeartbeatDue(n)
             \/ \E n \in Node, c \in Command : Propose(n, c)
             \/ \E m \in request_votes : HandleRequestVote(m)
             \/ \E m \in vote_replies : HandleRequestVoteResponse(m)
             \/ \E m \in append_replies : HandleAppendEntriesResponse(m)
             \/ PostFails
             \/ UNCHANGED vars
      PROVE  FALSE
  BY <1>5 DEF OnElectionTimeout, OnHeartbeatDue, Propose, HandleRequestVote,
              HandleRequestVoteResponse, HandleAppendEntriesResponse, PostFails,
              vars, netVars
<1> QED BY <1>2, <1>3, <1>4, <1>5 DEF Next

\* What a leader believes of p is what it believed, nothing, or what p said;
\* what it sends next starts there or at the end of its own log.
LEMMA BeliefStep ==
    ASSUME TypeOK, [Next]_vars, NEW n \in Node, NEW p \in Node
    PROVE  /\ \/ match_index'[n][p] = match_index[n][p]
              \/ match_index'[n][p] = 0
              \/ \E r \in append_replies : /\ r.follower_id = p
                     /\ match_index'[n][p] = r.match_length_hint
           /\ role'[n] = "leader" =>
              \/ role[n] = "leader" /\ next_index'[n][p] = next_index[n][p]
              \/ next_index'[n][p] = Len(log'[n])
              \/ /\ role[n] = "leader"
                 /\ \E r \in append_replies : /\ r.follower_id = p
                        /\ next_index'[n][p] = r.match_length_hint
<1> DEFINE Goal ==
           /\ \/ match_index'[n][p] = match_index[n][p]
              \/ match_index'[n][p] = 0
              \/ \E r \in append_replies : /\ r.follower_id = p
                     /\ match_index'[n][p] = r.match_length_hint
           /\ role'[n] = "leader" =>
              \/ role[n] = "leader" /\ next_index'[n][p] = next_index[n][p]
              \/ next_index'[n][p] = Len(log'[n])
              \/ /\ role[n] = "leader"
                 /\ \E r \in append_replies : /\ r.follower_id = p
                        /\ next_index'[n][p] = r.match_length_hint
<1>0. /\ log \in [Node -> Seq(Entry)] /\ role \in [Node -> Role]
      /\ next_index \in [Node -> [Node -> Nat]]
      /\ match_index \in [Node -> [Node -> Nat]]
  BY DEF TypeOK
<1>1. ASSUME UNCHANGED leaderVars, role'[n] = "leader" => role[n] = "leader"
      PROVE  Goal
  BY <1>1 DEF leaderVars
<1>2. ASSUME NEW m \in vote_replies, HandleRequestVoteResponse(m) PROVE Goal
  <2>1. m.dst \in Node /\ log' = log
    BY <1>2 DEF TypeOK, RequestVoteResponse, HandleRequestVoteResponse, logVars
  <2>2. CASE BecomeLeader(m.dst)
    BY <1>0, <2>1, <2>2 DEF BecomeLeader
  <2>3. CASE /\ role' = [role EXCEPT ![m.dst] = RoleAfter(m.dst, m.term)]
             /\ UNCHANGED leaderVars
    <3>1. role'[n] = "leader" => role[n] = "leader"
      BY <1>0, <2>1, <2>3 DEF RoleAfter
    <3> QED BY <1>1, <2>3, <3>1
  <2> QED BY <1>2, <2>2, <2>3 DEF HandleRequestVoteResponse
<1>3. ASSUME NEW r \in append_replies, HandleAppendEntriesResponse(r) PROVE Goal
  <2> DEFINE d == r.dst
             live == role[d] = "leader" /\ r.term = current_term[d]
             q == r.follower_id
             h == r.match_length_hint
             match == [match_index[d] EXCEPT ![q] = h]
  <2>1. d \in Node /\ q \in Node /\ h \in Nat
    BY DEF TypeOK, AppendEntriesResponse
  <2>2. /\ match_index' = IF live /\ r.success
                          THEN [match_index EXCEPT ![d] = match]
                          ELSE match_index
        /\ next_index' = IF live THEN [next_index EXCEPT ![d][q] = h]
                         ELSE next_index
        /\ role' = [role EXCEPT ![d] = RoleAfter(d, r.term)]
    BY <1>3 DEF HandleAppendEntriesResponse
  <2>3. role'[n] = "leader" => role[n] = "leader"
    BY <1>0, <2>1, <2>2 DEF RoleAfter
  <2> HIDE DEF d, q, h, live
  <2>4. \/ match_index'[n][p] = match_index[n][p]
        \/ p = q /\ match_index'[n][p] = h
    <3>1. match[p] = match_index[d][p] \/ (p = q /\ match[p] = h)
      BY <1>0, <2>1
    <3> HIDE DEF match
    <3>2. match_index'[n] = match_index[n] \/ (n = d /\ match_index'[n] = match)
      BY <1>0, <2>1, <2>2
    <3> QED BY <3>1, <3>2
  <2>5. \/ next_index'[n][p] = next_index[n][p]
        \/ p = q /\ next_index'[n][p] = h
    <3> DEFINE nx == [next_index[d] EXCEPT ![q] = h]
    <3>1. nx[p] = next_index[d][p] \/ (p = q /\ nx[p] = h)
      BY <1>0, <2>1
    <3>2. \/ next_index' = [next_index EXCEPT ![d] = nx]
          \/ next_index' = next_index
      BY <2>2
    <3> HIDE DEF nx
    <3>3. next_index'[n] = next_index[n] \/ (n = d /\ next_index'[n] = nx)
      BY <1>0, <2>1, <3>2
    <3> QED BY <3>1, <3>3
  <2> QED BY <2>3, <2>4, <2>5 DEF q, h
<1>4. ASSUME \/ \E o \in Node : OnElectionTimeout(o)
             \/ \E o \in Node : OnHeartbeatDue(o)
             \/ \E o \in Node, c \in Command : Propose(o, c)
             \/ \E m \in request_votes : HandleRequestVote(m)
             \/ \E m \in append_entries : RejectStaleAppend(m)
             \/ \E m \in append_entries : RejectMismatch(m)
             \/ \E m \in append_entries : AcceptEntries(m)
             \/ PostFails
             \/ UNCHANGED vars
      PROVE  Goal
  <2>1. UNCHANGED leaderVars
    BY <1>4 DEF OnElectionTimeout, OnHeartbeatDue, Propose, HandleRequestVote,
                RejectStaleAppend, RejectMismatch, AcceptEntries, AcceptLeader,
                PostFails, vars
  <2>2. role'[n] = "leader" => role[n] = "leader"
    <3>1. \A m \in request_votes : m.dst \in Node
      BY DEF TypeOK, RequestVoteRequest
    <3>2. \A m \in append_entries : m.dst \in Node
      BY DEF TypeOK, AppendEntriesRequest
    <3> QED BY <1>0, <1>4, <3>1, <3>2
            DEF OnElectionTimeout, OnHeartbeatDue, Propose, HandleRequestVote,
                RejectStaleAppend, RejectMismatch, AcceptEntries, AcceptLeader,
                PostFails, vars, electionVars, RoleAfter
  <2> QED BY <1>1, <2>1, <2>2
<1> QED BY <1>2, <1>3, <1>4 DEF Next

\* commit_index stays, follows a request's leader_commit, or is advanced by
\* a leader that a reply reached.
LEMMA CommitStep ==
    ASSUME TypeOK, [Next]_vars, NEW n \in Node
    PROVE  \/ commit_index'[n] = commit_index[n]
           \/ \E m \in append_entries : commit_index'[n] <= m.leader_commit
           \/ /\ log' = log
              /\ \E r \in append_replies : commit_index'[n] = AdvancedCommit(n,
                     [match_index[n] EXCEPT ![r.follower_id] = r.match_length_hint])
<1>0. commit_index \in [Node -> Nat]
  BY DEF TypeOK
<1>1. ASSUME NEW m \in append_entries, AcceptEntries(m)
      PROVE  \/ commit_index'[n] = commit_index[n]
             \/ commit_index'[n] <= m.leader_commit
  <2> DEFINE d  == m.dst
             lg == Merge(log[d], m.prev_log_index, m.entries)
             commit == IF m.leader_commit > commit_index[d]
                       THEN IF m.leader_commit <= Len(lg) THEN m.leader_commit
                            ELSE Len(lg)
                       ELSE commit_index[d]
  <2>1. /\ d \in Node /\ m.leader_commit \in Nat /\ m.prev_log_index \in Nat
        /\ m.entries \in Seq(Entry) /\ log[d] \in Seq(Entry)
    BY DEF TypeOK, AppendEntriesRequest
  <2>2. m.prev_log_index <= Len(log[d])
    BY <1>1, <2>1 DEF AcceptEntries, PrevMatches
  <2>3. Len(lg) \in Nat
    BY <2>1, <2>2, MergeType
  <2>4. commit_index' = [commit_index EXCEPT ![d] = commit]
    BY <1>1 DEF AcceptEntries
  <2> HIDE DEF d, lg
  <2> QED BY <1>0, <2>1, <2>3, <2>4
<1>2. ASSUME NEW r \in append_replies, HandleAppendEntriesResponse(r)
      PROVE  \/ commit_index'[n] = commit_index[n]
             \/ /\ log' = log
                /\ commit_index'[n] = AdvancedCommit(n,
                     [match_index[n] EXCEPT ![r.follower_id] = r.match_length_hint])
  <2> DEFINE d == r.dst
             adv == AdvancedCommit(d,
                     [match_index[d] EXCEPT ![r.follower_id] = r.match_length_hint])
  <2>1. d \in Node /\ log' = log
    BY <1>2 DEF TypeOK, AppendEntriesResponse, HandleAppendEntriesResponse
  <2>2. \/ commit_index' = [commit_index EXCEPT ![d] = adv]
        \/ commit_index' = [commit_index EXCEPT ![d] = commit_index[d]]
    BY <1>2 DEF HandleAppendEntriesResponse
  <2>3. CASE n = d
    <3> HIDE DEF adv
    <3>1. commit_index'[n] = commit_index[n] \/ commit_index'[n] = adv
      BY <1>0, <2>1, <2>2, <2>3
    <3> QED BY <2>1, <2>3, <3>1 DEF adv
  <2>4. CASE n # d
    <3> HIDE DEF adv
    <3> QED BY <1>0, <2>1, <2>2, <2>4
  <2> QED BY <2>3, <2>4
<1>3. ASSUME \/ \E o \in Node : OnElectionTimeout(o)
             \/ \E o \in Node : OnHeartbeatDue(o)
             \/ \E o \in Node, c \in Command : Propose(o, c)
             \/ \E m \in request_votes : HandleRequestVote(m)
             \/ \E m \in vote_replies : HandleRequestVoteResponse(m)
             \/ \E m \in append_entries : RejectStaleAppend(m)
             \/ \E m \in append_entries : RejectMismatch(m)
             \/ PostFails
             \/ UNCHANGED vars
      PROVE  commit_index' = commit_index
  BY <1>3 DEF OnElectionTimeout, OnHeartbeatDue, Propose, HandleRequestVote,
              HandleRequestVoteResponse, RejectStaleAppend, RejectMismatch,
              PostFails, vars, logVars
<1> QED BY <1>1, <1>2, <1>3 DEF Next

\* The state machine stays or takes what became committed from the log.
LEMMA ApplyStep ==
    ASSUME TypeOK, [Next]_vars
    PROVE  \/ applied' = applied
           \/ \E n \in Node : ApplyCommitted(n, log'[n], commit_index'[n])
<1> DEFINE Goal == \E n \in Node : ApplyCommitted(n, log'[n], commit_index'[n])
<1>0. commit_index \in [Node -> Nat] /\ log \in [Node -> Seq(Entry)]
  BY DEF TypeOK
<1>1. ASSUME NEW m \in append_entries, AcceptEntries(m) PROVE Goal
  <2>1. m.dst \in Node
    BY DEF TypeOK, AppendEntriesRequest
  <2>2. PICK lg, commit :
            /\ log' = [log EXCEPT ![m.dst] = lg]
            /\ commit_index' = [commit_index EXCEPT ![m.dst] = commit]
            /\ ApplyCommitted(m.dst, lg, commit)
    BY <1>1 DEF AcceptEntries
  <2>3. log'[m.dst] = lg /\ commit_index'[m.dst] = commit
    BY <1>0, <2>1, <2>2
  <2> QED BY <2>1, <2>2, <2>3
<1>2. ASSUME NEW m \in append_entries, RejectMismatch(m) PROVE Goal
  <2>1. m.dst \in Node
    BY DEF TypeOK, AppendEntriesRequest
  <2>2. PICK lg :
            /\ log' = [log EXCEPT ![m.dst] = lg]
            /\ commit_index' = commit_index
            /\ ApplyCommitted(m.dst, lg, commit_index[m.dst])
    BY <1>2 DEF RejectMismatch
  <2>3. log'[m.dst] = lg
    BY <1>0, <2>1, <2>2
  <2> QED BY <2>1, <2>2, <2>3
<1>3. ASSUME NEW r \in append_replies, HandleAppendEntriesResponse(r) PROVE Goal
  <2>1. r.dst \in Node
    BY DEF TypeOK, AppendEntriesResponse
  <2>2. PICK commit :
            /\ log' = log
            /\ commit_index' = [commit_index EXCEPT ![r.dst] = commit]
            /\ ApplyCommitted(r.dst, log[r.dst], commit)
    BY <1>3 DEF HandleAppendEntriesResponse
  <2>3. commit_index'[r.dst] = commit
    BY <1>0, <2>1, <2>2
  <2> QED BY <2>1, <2>2, <2>3
<1>4. ASSUME \/ \E o \in Node : OnElectionTimeout(o)
             \/ \E o \in Node : OnHeartbeatDue(o)
             \/ \E o \in Node, c \in Command : Propose(o, c)
             \/ \E m \in request_votes : HandleRequestVote(m)
             \/ \E m \in vote_replies : HandleRequestVoteResponse(m)
             \/ \E m \in append_entries : RejectStaleAppend(m)
             \/ PostFails
             \/ UNCHANGED vars
      PROVE  applied' = applied
  BY <1>4 DEF OnElectionTimeout, OnHeartbeatDue, Propose, HandleRequestVote,
              HandleRequestVoteResponse, RejectStaleAppend, PostFails, vars,
              logVars
<1> QED BY <1>1, <1>2, <1>3, <1>4 DEF Next

-----------------------------------------------------------------------------
(* The invariant of a pair *)

\* Along a log terms do not fall, and none is ahead of its node's.
TermsRise == \A n \in Node : Rising(log[n], current_term[n])

\* One log is always a part of the other.
Comparable == \A n, o \in Node : Below(log[n], log[o]) \/ Below(log[o], log[n])

\* A leader has everything.
LeaderAhead ==
    \A n, o \in Node : role[n] = "leader" => Below(log[o], log[n])

\* A vote for the running candidacy came from a log that is a part of the
\* candidate's, and has stayed one.
VotersBehind ==
    \A o, c \in Node :
        role[c] = "candidate" /\ Granted(o, c, current_term[c])
            => Below(log[o], log[c])

\* Votes are for candidacies that have begun.
GrantsPast ==
    \A o, c \in Node, t \in Term : Granted(o, c, t) => t <= current_term[c]

\* A vote request is of a candidacy that has begun, and of the running one
\* it tells the truth.
Asked ==
    \A m \in request_votes :
        LET c == m.candidate_id
        IN  /\ m.term <= current_term[c]
            /\ m.term = current_term[c] /\ role[c] = "candidate"
                   => /\ m.last_log_index = Len(log[c])
                      /\ m.last_log_term = LastLogTerm(log[c])

\* The sender of a request still leads, or has left the term.
SenderActive ==
    \A m \in append_entries :
        \/ m.term < current_term[m.leader_id]
        \/ m.term = current_term[m.leader_id] /\ role[m.leader_id] = "leader"

\* The entries of m are in lg where m says.
CarriedFrom(m, lg) ==
    /\ m.prev_log_index + Len(m.entries) <= Len(lg)
    /\ m.prev_log_index # 0 => m.prev_log_term = lg[m.prev_log_index].term
    /\ \A k \in 1..Len(m.entries) : /\ m.entries[k] = lg[m.prev_log_index + k]
                                    /\ m.entries[k].term <= m.term

\* A request stays a part of its sender's log, however late it is.
Carried == \A m \in append_entries : CarriedFrom(m, log[m.leader_id])

\* Whoever would take a request still has a part of the sender's log.
FollowerBehind ==
    \A m \in append_entries :
        current_term[m.dst] <= m.term => Below(log[m.dst], log[m.leader_id])

\* What a follower reported it still has, what a leader believes of a
\* follower the follower has, and no request starts past the leader's log.
Hints   == \A r \in append_replies :
               r.match_length_hint <= Len(log[r.follower_id])
Matches == \A n, p \in Node : match_index[n][p] <= Len(log[p])
Nexts   == \A n, p \in Node :
               role[n] = "leader" => next_index[n][p] <= Len(log[n])

\* What is committed, or said to be, is in both logs, and so is what was
\* applied.
Commits     == \A n, o \in Node : commit_index[n] <= Len(log[o])
CommitsSent == \A m \in append_entries, o \in Node :
                   m.leader_commit <= Len(log[o])
AppliedLogged ==
    \A n, o \in Node :
        /\ Len(applied[n]) <= Len(log[o])
        /\ \A k \in 1..Len(applied[n]) : applied[n][k] = log[o][k].command

\* The inductive invariant of a pair.
PairInv ==
    /\ TermsRise /\ Comparable /\ LeaderAhead /\ VotersBehind
    /\ GrantsPast /\ Asked /\ SenderActive
    /\ Carried /\ FollowerBehind
    /\ Hints /\ Matches /\ Nexts
    /\ Commits /\ CommitsSent /\ AppliedLogged

-----------------------------------------------------------------------------
(* Elections in a pair are unanimous *)

\* Both nodes are bound to whoever was elected.
LEMMA PairElected ==
    ASSUME Cardinality(Node) = 2, NEW l \in Node, NEW t, Elected(l, t)
    PROVE  \A v \in Node : Bound(v, l, t)
<1>1. PICK Q \in SUBSET Node : /\ Cardinality(Q) >= Majority
                               /\ \A v \in Q : Bound(v, l, t)
  BY DEF Elected
<1>2. Q = Node
  BY <1>1, PairMajority
<1> QED BY <1>1, <1>2

\* A leader has both votes, and nobody is in an earlier term.
LEMMA PairLeader ==
    ASSUME Cardinality(Node) = 2, ElectionInv, NEW l \in Node,
           role[l] = "leader", NEW v \in Node
    PROVE  /\ Granted(v, l, current_term[l])
           /\ current_term[v] >= current_term[l]
<1>1. votes_received[l] \in SUBSET Node
      /\ Cardinality(votes_received[l]) >= Majority
  BY DEF ElectionInv, TypeOK, LeadersHaveMajority
<1>2. votes_received[l] = Node
  BY <1>1, PairMajority
<1>3. Elected(l, current_term[l])
  BY LeaderElected
<1>4. Bound(v, l, current_term[l])
  BY <1>3, PairElected
<1> QED BY <1>2, <1>4 DEF Granted, Bound

\* There are never two leaders in a pair, not even of different terms.
LEMMA PairOneLeader ==
    ASSUME Cardinality(Node) = 2, ElectionInv, NEW n \in Node, NEW l \in Node,
           role[n] = "leader", role[l] = "leader"
    PROVE  n = l
<1>0. TypeOK /\ current_term[n] \in Nat /\ current_term[l] \in Nat
  BY DEF ElectionInv, TypeOK, Term
<1>1. current_term[n] >= current_term[l] /\ current_term[l] >= current_term[n]
  BY PairLeader
<1>2. current_term[n] = current_term[l]
  BY <1>0, <1>1
<1>3. Elected(l, current_term[n])
  BY <1>2, LeaderElected
<1>4. Cardinality(votes_received[n]) >= Majority
  BY DEF ElectionInv, LeadersHaveMajority
<1> QED BY <1>0, <1>3, <1>4, ElectedUnique

\* A request its receiver does not refuse as stale is of the receiver's own
\* term, and the receiver does not lead.
LEMMA PairRequest ==
    ASSUME Cardinality(Node) = 2, ElectionInv, NEW m \in append_entries,
           m.term >= current_term[m.dst]
    PROVE  /\ m \in AppendEntriesRequest /\ m.dst \in Node
           /\ m.leader_id \in Node /\ m.leader_id # m.dst
           /\ m.term = current_term[m.dst] /\ role[m.dst] # "leader"
<1>0. /\ TypeOK /\ m \in AppendEntriesRequest /\ m.dst \in Node
      /\ m.leader_id \in Node /\ m.term \in Nat /\ current_term[m.dst] \in Nat
  BY DEF ElectionInv, TypeOK, AppendEntriesRequest, Term
<1>1. m.dst # m.leader_id /\ Elected(m.leader_id, m.term)
  BY DEF ElectionInv, SendersElected
<1>2. Bound(m.dst, m.leader_id, m.term)
  BY <1>0, <1>1, PairElected
<1>3. m.term = current_term[m.dst]
  BY <1>0, <1>2 DEF Bound
<1>4. ASSUME role[m.dst] = "leader" PROVE FALSE
  <2>1. Cardinality(votes_received[m.dst]) >= Majority
    BY <1>0, <1>4 DEF ElectionInv, LeadersHaveMajority
  <2>2. m.dst = m.leader_id
    BY <1>0, <1>1, <1>3, <2>1, ElectedUnique
  <2> QED BY <1>1, <2>2
<1> QED BY <1>0, <1>1, <1>3, <1>4

-----------------------------------------------------------------------------
(* Logs only grow in a pair *)

\* A leader appended a command.
Proposed(n) ==
    /\ role[n] = "leader" /\ role' = role /\ current_term' = current_term
    /\ \E c \in Command :
           log' = [log EXCEPT ![n] =
                      Append(log[n], [term |-> current_term[n], command |-> c])]

\* A follower took more of the other's log.
CaughtUp(m) ==
    /\ m.dst \in Node /\ m.leader_id \in Node /\ m.leader_id # m.dst
    /\ m.term = current_term[m.dst] /\ current_term' = current_term
    /\ role' = [role EXCEPT ![m.dst] = "follower"]
    /\ \E lg \in Seq(Entry) :
           /\ log' = [log EXCEPT ![m.dst] = lg]
           /\ Below(log[m.dst], lg) /\ Below(lg, log[m.leader_id])
           /\ \A i \in 1..Len(lg) : lg[i].term <= m.term

\* A follower's log is a part of the sender's, so prev_log_index never
\* contradicts it and the insertion loop never cuts it.
LEMMA PairAppend ==
    ASSUME Cardinality(Node) = 2, ElectionInv, PairInv,
           NEW m \in append_entries,
           RejectMismatch(m) \/ AcceptEntries(m)
    PROVE  CaughtUp(m)
<1> DEFINE n    == m.dst
           l    == m.leader_id
           prev == m.prev_log_index
           es   == m.entries
<1>1. AcceptLeader(n, m)
  BY DEF RejectMismatch, AcceptEntries
<1>2. /\ m \in AppendEntriesRequest /\ n \in Node /\ l \in Node /\ l # n
      /\ m.term = current_term[n]
  BY <1>1, PairRequest DEF AcceptLeader
<1>3. /\ log \in [Node -> Seq(Entry)] /\ current_term \in [Node -> Nat]
      /\ prev \in Nat /\ es \in Seq(Entry)
      /\ log[n] \in Seq(Entry) /\ log[l] \in Seq(Entry)
      /\ Len(log[n]) \in Nat /\ Len(log[l]) \in Nat /\ Len(es) \in Nat
  <2>1. log \in [Node -> Seq(Entry)] /\ current_term \in [Node -> Nat]
    BY DEF ElectionInv, TypeOK, Term
  <2>2. prev \in Nat /\ es \in Seq(Entry)
    BY <1>2 DEF AppendEntriesRequest
  <2> QED BY <1>2, <2>1, <2>2
<1>4. /\ Below(log[n], log[l]) /\ CarriedFrom(m, log[l])
      /\ Rising(log[n], current_term[n])
  <2>1. current_term[n] <= m.term
    BY <1>2, <1>3
  <2>2. Below(log[n], log[l])
    BY <2>1 DEF PairInv, FollowerBehind
  <2>3. CarriedFrom(m, log[l])
    BY DEF PairInv, Carried
  <2>4. Rising(log[n], current_term[n])
    BY <1>2 DEF PairInv, TermsRise
  <2> QED BY <2>2, <2>3, <2>4
<1>5. /\ current_term' = current_term /\ role' = [role EXCEPT ![n] = "follower"]
  <2>1. current_term' = [current_term EXCEPT ![n] = current_term[n]]
    BY <1>1, <1>2, <1>3 DEF AcceptLeader, StepDownIfStale, TermAfter
  <2> QED BY <1>1, <1>3, <2>1 DEF AcceptLeader
<1> HIDE DEF n, l, prev, es
<1>6. CASE RejectMismatch(m)
  <2>1. ~PrevMatches(log[n], m)
    BY <1>6 DEF RejectMismatch, n
  <2>2. prev > Len(log[n])
    <3> SUFFICES ASSUME prev <= Len(log[n]) PROVE FALSE
      BY <1>3
    <3>1. prev \in 1..Len(log[n]) /\ log[n][prev].term # m.prev_log_term
      BY <1>3, <2>1 DEF PrevMatches, prev
    <3>2. log[n][prev] = log[l][prev] /\ m.prev_log_term = log[l][prev].term
      BY <1>4, <3>1 DEF Below, CarriedFrom, prev
    <3> QED BY <3>1, <3>2
  <2>3. log' = [log EXCEPT ![n] = log[n]]
    BY <1>6, <2>2 DEF RejectMismatch, n, prev
  <2>4. /\ Below(log[n], log[n])
        /\ \A i \in 1..Len(log[n]) : log[n][i].term <= m.term
    BY <1>2, <1>3, <1>4, BelowSelf DEF Rising
  <2> QED BY <1>2, <1>3, <1>4, <1>5, <2>3, <2>4 DEF CaughtUp, n, l
<1>7. CASE AcceptEntries(m)
  <2> DEFINE lg == Merge(log[n], prev, es)
  <2>1. PrevMatches(log[n], m) /\ log' = [log EXCEPT ![n] = lg]
    BY <1>7 DEF AcceptEntries, n, prev, es
  <2>2. prev <= Len(log[n])
    BY <1>3, <2>1 DEF PrevMatches, prev
  <2>3. lg \in Seq(Entry)
    BY <1>3, <2>2, MergeType
  <2>4. /\ prev + Len(es) <= Len(log[l])
        /\ \A k \in 1..Len(es) : es[k] = log[l][prev + k] /\ es[k].term <= m.term
    BY <1>4 DEF CarriedFrom, prev, es
  <2>5. /\ Below(log[n], lg) /\ Below(lg, log[l])
        /\ \A i \in (Len(log[n]) + 1)..Len(lg) : i - prev \in 1..Len(es)
    BY <1>3, <1>4, <2>2, <2>4, MergeBelow
  <2> HIDE DEF lg
  <2>6. ASSUME NEW i \in 1..Len(lg) PROVE lg[i].term <= m.term
    <3>0. Len(lg) \in Nat
      BY <2>3
    <3>1. CASE i \in 1..Len(log[n])
      BY <1>2, <1>4, <2>5, <3>1 DEF Below, Rising
    <3>2. CASE i \notin 1..Len(log[n])
      <4>1. i \in (Len(log[n]) + 1)..Len(lg) /\ prev + (i - prev) = i
        BY <1>3, <3>0, <3>2
      <4>2. i - prev \in 1..Len(es)
        BY <2>5, <4>1
      <4>3. log[l][prev + (i - prev)].term <= m.term
        BY <2>4, <4>2
      <4>4. lg[i] = log[l][i]
        BY <2>5 DEF Below
      <4> QED BY <4>1, <4>3, <4>4
    <3> QED BY <3>1, <3>2
  <2> QED BY <1>2, <1>5, <2>1, <2>3, <2>5, <2>6 DEF CaughtUp, n, l
<1> QED BY <1>6, <1>7

\* How logs change in a pair.
LEMMA PairLogs ==
    ASSUME Cardinality(Node) = 2, ElectionInv, PairInv, [Next]_vars
    PROVE  \/ log' = log
           \/ \E n \in Node : Proposed(n)
           \/ \E m \in append_entries : CaughtUp(m)
<1>1. ASSUME NEW n \in Node, NEW c \in Command, Propose(n, c) PROVE Proposed(n)
  BY <1>1 DEF Propose, Proposed, electionVars
<1>2. ASSUME NEW m \in append_entries, RejectMismatch(m) \/ AcceptEntries(m)
      PROVE  CaughtUp(m)
  BY <1>2, PairAppend
<1>3. ASSUME \/ \E n \in Node : OnElectionTimeout(n)
             \/ \E n \in Node : OnHeartbeatDue(n)
             \/ \E m \in request_votes : HandleRequestVote(m)
             \/ \E m \in vote_replies : HandleRequestVoteResponse(m)
             \/ \E m \in append_entries : RejectStaleAppend(m)
             \/ \E m \in append_replies : HandleAppendEntriesResponse(m)
             \/ PostFails
             \/ UNCHANGED vars
      PROVE  log' = log
  BY <1>3 DEF OnElectionTimeout, OnHeartbeatDue, HandleRequestVote,
              HandleRequestVoteResponse, RejectStaleAppend,
              HandleAppendEntriesResponse, PostFails, vars, logVars
<1> QED BY <1>1, <1>2, <1>3 DEF Next

\* No log of a pair ever loses an entry.
LEMMA PairLogsGrow ==
    ASSUME Cardinality(Node) = 2, ElectionInv, PairInv, [Next]_vars,
           NEW o \in Node
    PROVE  Below(log[o], log'[o])
<1>0. log \in [Node -> Seq(Entry)] /\ current_term \in [Node -> Nat]
  BY DEF ElectionInv, TypeOK, Term
<1>1. Below(log[o], log[o])
  BY <1>0, BelowSelf
<1>2. CASE log' = log
  BY <1>1, <1>2
<1>3. ASSUME NEW n \in Node, Proposed(n) PROVE Below(log[o], log'[o])
  <2>1. PICK c \in Command :
           log' = [log EXCEPT ![n] =
                      Append(log[n], [term |-> current_term[n], command |-> c])]
    BY <1>3 DEF Proposed
  <2> DEFINE e == [term |-> current_term[n], command |-> c]
  <2>2. e \in Entry
    BY <1>0 DEF Entry, Term
  <2> HIDE DEF e
  <2>3. log'[o] = IF o = n THEN Append(log[n], e) ELSE log[o]
    BY <1>0, <2>1 DEF e
  <2> QED BY <1>0, <1>1, <2>2, <2>3, BelowAppend
<1>4. ASSUME NEW m \in append_entries, CaughtUp(m) PROVE Below(log[o], log'[o])
  BY <1>0, <1>1, <1>4 DEF CaughtUp
<1> QED BY <1>2, <1>3, <1>4, PairLogs

\* There is one other node.
LEMMA PairOther ==
    ASSUME Cardinality(Node) = 2, NEW a \in Node, NEW b \in Node, NEW c \in Node,
           a # b, c # a
    PROVE  c = b
<1>1. Node = {a, b}
  BY PairNodes
<1> QED BY <1>1

\* Terms of entries are naturals.
LEMMA EntryTerm == \A e \in Entry : e.term \in Nat
  BY DEF Entry, Term

\* A node's term grows past its entries'.
LEMMA RisingLater ==
    ASSUME NEW lg \in Seq(Entry), NEW t \in Nat, NEW u \in Nat, t <= u,
           Rising(lg, t)
    PROVE  Rising(lg, u)
<1>1. \A i \in 1..Len(lg) : lg[i].term \in Nat
  BY EntryTerm
<1> QED BY <1>1 DEF Rising

\* A leader appends an entry of its own term, the latest.
LEMMA RisingAppend ==
    ASSUME NEW lg \in Seq(Entry), NEW t \in Nat, Rising(lg, t),
           NEW e \in Entry, e.term = t
    PROVE  Rising(Append(lg, e), t)
<1> DEFINE s == Append(lg, e)
<1>1. /\ Len(lg) \in Nat /\ Len(s) = Len(lg) + 1 /\ s[Len(lg) + 1] = e
      /\ \A i \in 1..Len(lg) : s[i] = lg[i]
  OBVIOUS
<1> HIDE DEF s
<1>2. \A i \in 1..Len(s) : i \in 1..Len(lg) \/ i = Len(lg) + 1
  BY <1>1
<1>3. \A i \in 1..Len(s) : s[i].term <= t
  BY <1>1, <1>2 DEF Rising
<1>4. ASSUME NEW i \in 1..Len(s), NEW j \in 1..i PROVE s[j].term <= s[i].term
  <2>1. CASE i = Len(lg) + 1
    <3>1. j \in 1..Len(s)
      BY <1>1
    <3> QED BY <1>1, <1>3, <2>1, <3>1
  <2>2. CASE i \in 1..Len(lg)
    <3>1. j \in 1..Len(lg)
      BY <1>1, <2>2
    <3> QED BY <1>1, <2>2, <3>1 DEF Rising
  <2> QED BY <1>2, <2>1, <2>2
<1>5. Rising(s, t)
  BY <1>3, <1>4 DEF Rising
<1> QED BY <1>5 DEF s

\* A part of a rising log rises.
LEMMA RisingBelow ==
    ASSUME NEW lg \in Seq(Entry), NEW big \in Seq(Entry), NEW t, NEW u,
           Below(lg, big), Rising(big, u), \A i \in 1..Len(lg) : lg[i].term <= t
    PROVE  Rising(lg, t)
<1>1. Len(lg) \in Nat /\ Len(big) \in Nat /\ Len(lg) <= Len(big)
  BY DEF Below
<1> SUFFICES ASSUME NEW i \in 1..Len(lg), NEW j \in 1..i
             PROVE  lg[j].term <= lg[i].term
  BY DEF Rising
<1>2. j \in 1..Len(lg) /\ i \in 1..Len(big)
  BY <1>1
<1>3. lg[i] = big[i] /\ lg[j] = big[j]
  BY <1>2 DEF Below
<1> QED BY <1>2, <1>3 DEF Rising

-----------------------------------------------------------------------------
(* Every step preserves the invariant of a pair *)

\* The facts about types and terms that all the lemmas below start from.
LEMMA PairTypes ==
    ASSUME ElectionInv, ElectionInv', [Next]_vars
    PROVE  /\ TypeOK /\ TypeOK'
           /\ log \in [Node -> Seq(Entry)] /\ log' \in [Node -> Seq(Entry)]
           /\ current_term \in [Node -> Nat] /\ current_term' \in [Node -> Nat]
           /\ \A n \in Node : /\ log[n] \in Seq(Entry) /\ Len(log[n]) \in Nat
                              /\ log'[n] \in Seq(Entry) /\ Len(log'[n]) \in Nat
                              /\ current_term[n] \in Nat /\ current_term'[n] \in Nat
                              /\ current_term[n] <= current_term'[n]
<1>1. /\ TypeOK /\ TypeOK'
      /\ log \in [Node -> Seq(Entry)] /\ log' \in [Node -> Seq(Entry)]
      /\ current_term \in [Node -> Nat] /\ current_term' \in [Node -> Nat]
  BY DEF ElectionInv, TypeOK, Term
<1>2. \A n \in Node : Orderly(n)
  BY <1>1, OrderlyStep
<1>3. \A n \in Node : current_term[n] <= current_term'[n]
  BY <1>1, <1>2 DEF Orderly
<1> QED BY <1>1, <1>3

\* Proposing and catching up keep the terms of a log in order.
LEMMA TermsRiseStep ==
    ASSUME Cardinality(Node) = 2, ElectionInv, ElectionInv', PairInv, [Next]_vars
    PROVE  TermsRise'
<1>0. /\ log \in [Node -> Seq(Entry)] /\ current_term \in [Node -> Nat]
      /\ \A n \in Node : /\ log[n] \in Seq(Entry)
                         /\ current_term[n] \in Nat /\ current_term'[n] \in Nat
                         /\ current_term[n] <= current_term'[n]
  BY PairTypes
<1>1. \A n \in Node : Rising(log[n], current_term[n])
  BY DEF PairInv, TermsRise
<1>2. \A n \in Node : Rising(log[n], current_term'[n])
  BY <1>0, <1>1, RisingLater
<1> SUFFICES ASSUME NEW o \in Node PROVE Rising(log'[o], current_term'[o])
  BY DEF TermsRise, Rising
<1>3. CASE log' = log
  BY <1>2, <1>3
<1>4. ASSUME NEW n \in Node, Proposed(n) PROVE Rising(log'[o], current_term'[o])
  <2>1. PICK c \in Command :
           log' = [log EXCEPT ![n] =
                      Append(log[n], [term |-> current_term[n], command |-> c])]
    BY <1>4 DEF Proposed
  <2> DEFINE e == [term |-> current_term[n], command |-> c]
  <2>2. e \in Entry /\ e.term = current_term[n]
    BY <1>0 DEF Entry, Term
  <2>3. log' = [log EXCEPT ![n] = Append(log[n], e)]
    BY <2>1
  <2> HIDE DEF e
  <2>4. log'[o] = IF o = n THEN Append(log[n], e) ELSE log[o]
    BY <1>0, <2>3
  <2>5. Rising(Append(log[n], e), current_term[n])
    BY <1>0, <1>1, <2>2, RisingAppend
  <2>6. current_term'[n] = current_term[n]
    BY <1>4 DEF Proposed
  <2> QED BY <1>2, <2>4, <2>5, <2>6
<1>5. ASSUME NEW m \in append_entries, CaughtUp(m)
      PROVE  Rising(log'[o], current_term'[o])
  <2>1. PICK lg \in Seq(Entry) :
            /\ log' = [log EXCEPT ![m.dst] = lg]
            /\ Below(lg, log[m.leader_id])
            /\ \A i \in 1..Len(lg) : lg[i].term <= m.term
    BY <1>5 DEF CaughtUp
  <2>2. /\ m.dst \in Node /\ m.leader_id \in Node
        /\ m.term = current_term'[m.dst]
    BY <1>5 DEF CaughtUp
  <2>3. Rising(lg, m.term)
    BY <1>0, <1>1, <2>1, <2>2, RisingBelow
  <2>4. log'[o] = IF o = m.dst THEN lg ELSE log[o]
    BY <1>0, <2>1
  <2> QED BY <1>2, <2>2, <2>3, <2>4
<1> QED BY <1>3, <1>4, <1>5, PairLogs

\* Whoever proposes has the longer log, and whoever catches up stays inside
\* the other's.
LEMMA ComparableStep ==
    ASSUME Cardinality(Node) = 2, ElectionInv, ElectionInv', PairInv, [Next]_vars
    PROVE  Comparable'
<1>0. /\ log \in [Node -> Seq(Entry)]
      /\ \A n \in Node : log[n] \in Seq(Entry) /\ log'[n] \in Seq(Entry)
  BY PairTypes
<1>1. \A n \in Node : Below(log[n], log'[n])
  BY PairLogsGrow
<1> DEFINE Ok(x, y) == Below(log'[x], log'[y]) \/ Below(log'[y], log'[x])
<1>2. ASSUME NEW x \in Node, NEW y \in Node, log'[x] = log[x], log'[y] = log[y]
      PROVE  Ok(x, y)
  BY <1>2 DEF PairInv, Comparable
<1> SUFFICES ASSUME NEW x \in Node, NEW y \in Node PROVE Ok(x, y)
  BY DEF Comparable, Below
<1>3. CASE log' = log
  BY <1>2, <1>3
<1>4. ASSUME NEW n \in Node, Proposed(n) PROVE Ok(x, y)
  <2>1. \A o \in Node \ {n} : log'[o] = log[o]
    BY <1>0, <1>4 DEF Proposed
  <2>2. \A o \in Node : Below(log[o], log[n])
    BY <1>4 DEF Proposed, PairInv, LeaderAhead
  <2>3. \A o \in Node \ {n} : Below(log'[o], log'[n])
    BY <1>0, <1>1, <2>1, <2>2, BelowTrans
  <2>4. Below(log'[n], log'[n])
    BY <1>0, BelowSelf
  <2> QED BY <1>2, <2>1, <2>3, <2>4
<1>5. ASSUME NEW m \in append_entries, CaughtUp(m) PROVE Ok(x, y)
  <2>1. /\ m.dst \in Node /\ m.leader_id \in Node /\ m.leader_id # m.dst
        /\ \A o \in Node \ {m.dst} : log'[o] = log[o]
        /\ Below(log'[m.dst], log[m.leader_id])
    BY <1>0, <1>5 DEF CaughtUp
  <2>2. Below(log'[m.dst], log'[m.leader_id])
    BY <2>1
  <2>3. Node = {m.dst, m.leader_id}
    BY <2>1, PairNodes
  <2>4. \A o \in Node : Below(log'[o], log'[o])
    BY <1>0, BelowSelf
  <2> QED BY <2>2, <2>3, <2>4
<1> QED BY <1>3, <1>4, <1>5, PairLogs

\* A node becomes leader on votes it was given before.
LEMMA NewLeader ==
    ASSUME ElectionInv, ElectionInv', [Next]_vars, NEW l \in Node,
           role'[l] = "leader", role[l] = "candidate", NEW v \in votes_received'[l]
    PROVE  Granted(v, l, current_term[l])
<1>0. /\ TypeOK /\ role \in [Node -> Role] /\ current_term \in [Node -> Nat]
      /\ votes_received' \in [Node -> SUBSET Node]
  BY DEF ElectionInv, TypeOK, Term
<1>1. current_term'[l] = current_term[l]
  BY <1>0, LeaderBefore
<1>2. v \in Node /\ current_term[l] \in Term
  BY <1>0 DEF Term
<1>3. Granted(v, l, current_term[l])'
  BY <1>1 DEF Granted
<1>4. PICK t \in Term : t = current_term[l] /\ Granted(v, l, t)'
  BY <1>1, <1>2 DEF Granted
<1>5. ~OnElectionTimeout(l)
  BY <1>0 DEF OnElectionTimeout
<1>6. ASSUME NEW m \in request_votes, HandleRequestVote(m) PROVE FALSE
  <2>1. m.dst \in Node
    BY <1>0 DEF TypeOK, RequestVoteRequest
  <2> QED BY <1>0, <1>6, <2>1 DEF HandleRequestVote, RoleAfter
<1> QED BY <1>0, <1>2, <1>4, <1>5, <1>6, GrantStep

\* A new leader's voters are behind it, and nobody overtakes a leader.
LEMMA LeaderAheadStep ==
    ASSUME Cardinality(Node) = 2, ElectionInv, ElectionInv', PairInv, [Next]_vars
    PROVE  LeaderAhead'
<1>0. /\ TypeOK /\ TypeOK' /\ log \in [Node -> Seq(Entry)]
      /\ \A n \in Node : log[n] \in Seq(Entry) /\ log'[n] \in Seq(Entry)
      /\ role \in [Node -> Role]
  BY PairTypes DEF TypeOK
<1>1. \A n \in Node : Below(log[n], log'[n])
  BY PairLogsGrow
<1> SUFFICES ASSUME NEW l \in Node, NEW o \in Node, role'[l] = "leader"
             PROVE  Below(log'[o], log'[l])
  BY DEF LeaderAhead, Below
<1>2. CASE role[l] = "candidate"
  <2>1. log' = log
    BY <1>0, <1>2, LeaderBefore
  <2>2. /\ votes_received'[l] \in SUBSET Node
        /\ Cardinality(votes_received'[l]) >= Majority
    BY <1>0 DEF ElectionInv, LeadersHaveMajority, Majority, TypeOK
  <2>3. votes_received'[l] = Node
    BY <2>2, PairMajority
  <2>4. Granted(o, l, current_term[l])
    BY <1>2, <2>3, NewLeader
  <2> QED BY <1>2, <2>1, <2>4 DEF PairInv, VotersBehind
<1>3. CASE role[l] = "leader"
  <2>1. \A p \in Node : Below(log[p], log[l])
    BY <1>3 DEF PairInv, LeaderAhead
  <2>2. CASE log'[o] = log[o]
    BY <1>0, <1>1, <2>1, <2>2, BelowTrans
  <2>3. CASE o = l
    BY <1>0, <2>3, BelowSelf
  <2>4. ASSUME NEW n \in Node, Proposed(n) PROVE Below(log'[o], log'[l])
    <3>1. n = l
      BY <1>3, <2>4, PairOneLeader DEF Proposed
    <3>2. o # l => log'[o] = log[o]
      BY <1>0, <2>4, <3>1 DEF Proposed
    <3> QED BY <2>2, <2>3, <3>2
  <2>5. ASSUME NEW m \in append_entries, CaughtUp(m)
        PROVE  Below(log'[o], log'[l])
    <3>1. /\ m.dst \in Node /\ m.leader_id \in Node /\ m.leader_id # m.dst
          /\ \A p \in Node \ {m.dst} : log'[p] = log[p]
          /\ Below(log'[m.dst], log[m.leader_id])
          /\ role'[m.dst] = "follower"
      BY <1>0, <2>5 DEF CaughtUp
    <3>2. l # m.dst
      BY <3>1
    <3>3. l = m.leader_id
      BY <3>1, <3>2, PairOther
    <3> QED BY <2>2, <3>1, <3>2, <3>3
  <2> QED BY <2>2, <2>4, <2>5, PairLogs
<1> QED BY <1>0, <1>2, <1>3, LeaderBefore

\* A voter answers candidacies that have begun.
LEMMA GrantsPastStep ==
    ASSUME ElectionInv, ElectionInv', PairInv, [Next]_vars
    PROVE  GrantsPast'
<1>0. /\ TypeOK
      /\ \A n \in Node : /\ current_term[n] \in Nat /\ current_term'[n] \in Nat
                         /\ current_term[n] <= current_term'[n]
  BY PairTypes
<1> SUFFICES ASSUME NEW o \in Node, NEW c \in Node, NEW t \in Term,
                    Granted(o, c, t)'
             PROVE  t <= current_term'[c]
  BY DEF GrantsPast
<1>1. t \in Nat
  BY DEF Term
<1>2. CASE Granted(o, c, t)
  <2>1. t <= current_term[c]
    BY <1>2 DEF PairInv, GrantsPast
  <2> QED BY <1>0, <1>1, <2>1
<1>3. CASE t = current_term'[c]
  BY <1>0, <1>3
<1>4. ASSUME NEW m \in request_votes, m.candidate_id = c, m.term = t
      PROVE  t <= current_term'[c]
  <2>1. t <= current_term[c]
    BY <1>4 DEF PairInv, Asked
  <2> QED BY <1>0, <1>1, <2>1
<1> QED BY <1>0, <1>2, <1>3, <1>4, GrantStep

\* A candidate's log does not change under its requests.
LEMMA AskedStep ==
    ASSUME ElectionInv, ElectionInv', PairInv, [Next]_vars
    PROVE  Asked'
<1>0. /\ TypeOK /\ current_term \in [Node -> Nat]
      /\ \A n \in Node : /\ current_term[n] \in Nat /\ current_term'[n] \in Nat
                         /\ current_term[n] <= current_term'[n]
  BY PairTypes
<1> SUFFICES ASSUME NEW m \in request_votes'
             PROVE  LET c == m.candidate_id
                    IN  /\ m.term <= current_term'[c]
                        /\ m.term = current_term'[c] /\ role'[c] = "candidate"
                               => /\ m.last_log_index = Len(log'[c])
                                  /\ m.last_log_term = LastLogTerm(log'[c])
  BY DEF Asked, LastLogTerm
<1> DEFINE c == m.candidate_id
<1>1. CASE m \notin request_votes
  BY <1>0, <1>1, AskStep
<1>2. CASE m \in request_votes
  <2>1. c \in Node /\ m.term \in Nat
    BY <1>0, <1>2 DEF TypeOK, RequestVoteRequest, Term
  <2>2. m.term <= current_term[c]
    BY <1>2 DEF PairInv, Asked
  <2>3. m.term <= current_term'[c]
    BY <1>0, <2>1, <2>2
  <2>4. ASSUME m.term = current_term'[c], role'[c] = "candidate"
        PROVE  /\ m.last_log_index = Len(log'[c])
               /\ m.last_log_term = LastLogTerm(log'[c])
    <3>1. m.term = current_term[c] /\ current_term'[c] = current_term[c]
      BY <1>0, <2>1, <2>2, <2>4
    <3>2. ~OnElectionTimeout(c)
      <4> SUFFICES ASSUME OnElectionTimeout(c) PROVE FALSE
        OBVIOUS
      <4>1. current_term'[c] = current_term[c] + 1
        BY <1>0, <2>1 DEF OnElectionTimeout
      <4> QED BY <1>0, <2>1, <3>1, <4>1
    <3>3. role[c] = "candidate" /\ log'[c] = log[c]
      BY <1>0, <2>1, <2>4, <3>2, CandidateStep
    <3>4. /\ m.last_log_index = Len(log[c])
          /\ m.last_log_term = LastLogTerm(log[c])
      BY <1>2, <3>1, <3>3 DEF PairInv, Asked
    <3> QED BY <3>3, <3>4
  <2> QED BY <2>3, <2>4
<1> QED BY <1>1, <1>2

\* A voter checks the log before it grants, and while the candidacy runs
\* neither leads nor takes entries from anybody.
LEMMA VotersBehindStep ==
    ASSUME Cardinality(Node) = 2, ElectionInv, ElectionInv', PairInv, [Next]_vars
    PROVE  VotersBehind'
<1>0. /\ TypeOK /\ log \in [Node -> Seq(Entry)]
      /\ current_term \in [Node -> Nat] /\ role \in [Node -> Role]
      /\ \A n \in Node : /\ log[n] \in Seq(Entry) /\ log'[n] \in Seq(Entry)
                         /\ current_term[n] \in Nat /\ current_term'[n] \in Nat
                         /\ current_term[n] <= current_term'[n]
  BY PairTypes DEF TypeOK
<1>1. ASSUME NEW o \in Node, NEW c \in Node, NEW t \in Term, Granted(o, c, t)'
      PROVE  \/ Granted(o, c, t)
             \/ o = c
             \/ \E m \in request_votes :
                    /\ HandleRequestVote(m) /\ m.dst = o /\ m.candidate_id = c
                    /\ m.term = t /\ LogUpToDate(log[o], m.last_log_term,
                                                 m.last_log_index)
  BY <1>0, <1>1, GrantStep
<1> SUFFICES ASSUME NEW o \in Node, NEW c \in Node, role'[c] = "candidate",
                    Granted(o, c, current_term[c])'
             PROVE  Below(log'[o], log'[c])
  BY DEF VotersBehind, Below
<1>2. CASE o = c
  BY <1>0, <1>2, BelowSelf
<1>3. PICK t \in Term : t = current_term'[c] /\ Granted(o, c, t)'
  BY <1>0 DEF Granted, Term
<1>4. CASE o # c /\ Granted(o, c, t)
  <2>0. t \in Nat
    BY DEF Term
  <2>1. t <= current_term[c]
    BY <1>4 DEF PairInv, GrantsPast
  <2>2. t = current_term[c] /\ current_term'[c] = current_term[c]
    BY <1>0, <1>3, <2>0, <2>1
  <2>3. ~OnElectionTimeout(c)
    <3> SUFFICES ASSUME OnElectionTimeout(c) PROVE FALSE
      OBVIOUS
    <3>1. current_term'[c] = current_term[c] + 1
      BY <1>0 DEF OnElectionTimeout
    <3> QED BY <1>0, <2>2, <3>1
  <2>4. role[c] = "candidate" /\ log'[c] = log[c]
    BY <1>0, <2>3, CandidateStep
  <2>5. Below(log[o], log[c])
    BY <1>4, <2>2, <2>4 DEF PairInv, VotersBehind
  <2>6. Bound(o, c, t)
    BY <1>4 DEF ElectionInv, GrantsBind
  <2>7. ASSUME NEW n \in Node, Proposed(n) PROVE log'[o] = log[o]
    <3>1. role[n] = "leader"
      BY <2>7 DEF Proposed
    <3>2. n # o
      <4> SUFFICES ASSUME n = o PROVE FALSE
        OBVIOUS
      <4>1. /\ Granted(o, o, current_term[o])
            /\ current_term[c] >= current_term[o]
        BY <3>1, PairLeader
      <4>2. current_term[o] = t
        BY <1>0, <2>2, <2>6, <4>1 DEF Bound
      <4> QED BY <1>4, <2>6, <4>1, <4>2 DEF Bound
    <3> QED BY <1>0, <2>7, <3>2 DEF Proposed
  <2>8. ASSUME NEW m \in append_entries, CaughtUp(m) PROVE log'[o] = log[o]
    <3>1. /\ m.dst \in Node /\ m.leader_id \in Node /\ m.leader_id # m.dst
          /\ m.term = current_term[m.dst]
          /\ \A p \in Node \ {m.dst} : log'[p] = log[p]
      BY <1>0, <2>8 DEF CaughtUp
    <3>2. m.dst # o
      <4> SUFFICES ASSUME m.dst = o PROVE FALSE
        OBVIOUS
      <4>1. m.leader_id = c
        BY <1>4, <3>1, PairOther
      <4>2. m.term < current_term[c]
        BY <2>4, <4>1 DEF PairInv, SenderActive
      <4>3. current_term[o] >= t
        BY <2>6 DEF Bound
      <4> QED BY <1>0, <2>2, <3>1, <4>2, <4>3
    <3> QED BY <3>1, <3>2
  <2>9. log'[o] = log[o]
    BY <2>7, <2>8, PairLogs
  <2> QED BY <2>4, <2>5, <2>9
<1>5. ASSUME o # c, NEW m \in request_votes, HandleRequestVote(m), m.dst = o,
             m.candidate_id = c, m.term = t,
             LogUpToDate(log[o], m.last_log_term, m.last_log_index)
      PROVE  Below(log'[o], log'[c])
  <2>1. /\ log' = log /\ current_term'[c] = current_term[c]
        /\ role'[c] = role[c]
    BY <1>0, <1>5 DEF HandleRequestVote, StepDownIfStale, logVars
  <2>2. /\ m.last_log_index = Len(log[c])
        /\ m.last_log_term = LastLogTerm(log[c])
    BY <1>3, <1>5, <2>1 DEF PairInv, Asked
  <2>3. LogUpToDate(log[o], LastLogTerm(log[c]), Len(log[c]))
    BY <1>5, <2>2
  <2>4. /\ Rising(log[o], current_term[o])
        /\ Below(log[o], log[c]) \/ Below(log[c], log[o])
    BY DEF PairInv, TermsRise, Comparable
  <2>5. Below(log[o], log[c])
    BY <1>0, <2>3, <2>4, UpToDateAbove
  <2> QED BY <2>1, <2>5
<1> QED BY <1>1, <1>2, <1>3, <1>4, <1>5

\* A leader leads for as long as its term lasts.
LEMMA LeadsOn ==
    ASSUME ElectionInv, [Next]_vars, NEW l \in Node, role[l] = "leader",
           current_term'[l] = current_term[l]
    PROVE  role'[l] = "leader"
<1>1. CASE UNCHANGED vars
  BY <1>1 DEF vars, electionVars
<1>2. CASE ~UNCHANGED vars
  BY <1>2, LeaderLogStep DEF LeaderLogGrows
<1> QED BY <1>1, <1>2

\* Requests are sent by leaders, which lead until they leave the term.
LEMMA SenderActiveStep ==
    ASSUME ElectionInv, ElectionInv', PairInv, [Next]_vars
    PROVE  SenderActive'
<1>0. /\ TypeOK
      /\ \A n \in Node : /\ current_term[n] \in Nat /\ current_term'[n] \in Nat
                         /\ current_term[n] <= current_term'[n]
  BY PairTypes
<1> SUFFICES ASSUME NEW m \in append_entries'
             PROVE  \/ m.term < current_term'[m.leader_id]
                    \/ /\ m.term = current_term'[m.leader_id]
                       /\ role'[m.leader_id] = "leader"
  BY DEF SenderActive
<1>1. CASE m \in append_entries
  <2>1. m.leader_id \in Node /\ m.term \in Nat
    BY <1>0, <1>1 DEF TypeOK, AppendEntriesRequest, Term
  <2>2. \/ m.term < current_term[m.leader_id]
        \/ m.term = current_term[m.leader_id] /\ role[m.leader_id] = "leader"
    BY <1>1 DEF PairInv, SenderActive
  <2>3. CASE m.term = current_term'[m.leader_id]
    <3>1. /\ current_term'[m.leader_id] = current_term[m.leader_id]
          /\ role[m.leader_id] = "leader"
      BY <1>0, <2>1, <2>2, <2>3
    <3> QED BY <2>1, <2>3, <3>1, LeadsOn
  <2>4. CASE m.term # current_term'[m.leader_id]
    BY <1>0, <2>1, <2>2, <2>4
  <2> QED BY <2>3, <2>4
<1>2. CASE m \notin append_entries
  <2>1. PICK n \in Node, p \in Node, nx \in Nat : Sends(n, p, nx, m)
    BY <1>0, <1>2, SendStep
  <2>2. m.leader_id = n /\ m.term = current_term[n]
    BY <2>1 DEF Sends, AppendEntriesFor
  <2> QED BY <2>1, <2>2 DEF Sends
<1> QED BY <1>1, <1>2

\* A request made inside the log is a part of it.
LEMMA SentIsCarried ==
    ASSUME NEW n, NEW p, NEW t \in Nat, NEW lg \in Seq(Entry), NEW nx \in Nat,
           nx <= Len(lg), Rising(lg, t)
    PROVE  CarriedFrom(AppendEntriesFor(n, p, t, lg, nx), lg)
<1> DEFINE m  == AppendEntriesFor(n, p, t, lg, nx)
           es == SubSeq(lg, nx + 1, Len(lg))
<1>1. /\ m.prev_log_index = nx /\ m.entries = es /\ m.term = t
      /\ m.prev_log_term = IF nx \in 1..Len(lg) THEN lg[nx].term ELSE 0
  BY DEF AppendEntriesFor
<1>0. nx + 1 \in Nat \ {0} /\ Len(lg) \in Nat /\ Len(lg) <= Len(lg)
  OBVIOUS
<1>2. /\ Len(es) = IF nx + 1 <= Len(lg) THEN Len(lg) - (nx + 1) + 1 ELSE 0
      /\ \A i \in 1..(Len(lg) - (nx + 1) + 1) : es[i] = lg[(nx + 1) + i - 1]
  BY <1>0, SubSeqType
<1> HIDE DEF m, es
<1>3. /\ Len(es) = Len(lg) - nx
      /\ \A i \in 1..Len(es) : es[i] = lg[nx + i] /\ nx + i \in 1..Len(lg)
  BY <1>0, <1>2
<1>4. nx # 0 => nx \in 1..Len(lg)
  BY <1>0
<1>5. nx + Len(es) <= Len(lg)
  BY <1>0, <1>3
<1>6. \A k \in 1..Len(es) : es[k] = lg[nx + k] /\ es[k].term <= t
  BY <1>3 DEF Rising
<1>7. CarriedFrom(m, lg)
  BY <1>1, <1>4, <1>5, <1>6 DEF CarriedFrom
<1> QED BY <1>7 DEF m

\* New requests are cut from the leader's log, and logs only grow.
LEMMA CarriedStep ==
    ASSUME Cardinality(Node) = 2, ElectionInv, ElectionInv', PairInv,
           TermsRise', LeaderAhead', [Next]_vars
    PROVE  Carried'
<1>0. /\ TypeOK
      /\ \A n \in Node : /\ log[n] \in Seq(Entry) /\ Len(log[n]) \in Nat
                         /\ log'[n] \in Seq(Entry) /\ Len(log'[n]) \in Nat
                         /\ current_term[n] \in Nat
  BY PairTypes
<1>1. \A n \in Node : Below(log[n], log'[n])
  BY PairLogsGrow
<1> SUFFICES ASSUME NEW m \in append_entries'
             PROVE  CarriedFrom(m, log'[m.leader_id])
  BY DEF Carried, CarriedFrom
<1>2. CASE m \in append_entries
  <2> DEFINE l == m.leader_id
             b == m.prev_log_index
  <2>1. /\ l \in Node /\ b \in Nat /\ Len(m.entries) \in Nat
    <3>1. m \in AppendEntriesRequest
      BY <1>0, <1>2 DEF TypeOK
    <3>2. l \in Node /\ b \in Nat /\ m.entries \in Seq(Entry)
      BY <3>1 DEF AppendEntriesRequest
    <3> QED BY <3>2
  <2>2. CarriedFrom(m, log[l])
    BY <1>2 DEF PairInv, Carried
  <2>3. /\ Len(log[l]) <= Len(log'[l])
        /\ \A i \in 1..Len(log[l]) : log'[l][i] = log[l][i]
    BY <1>1, <2>1 DEF Below
  <2>4. /\ b + Len(m.entries) <= Len(log[l])
        /\ b # 0 => b \in 1..Len(log[l])
        /\ \A k \in 1..Len(m.entries) : b + k \in 1..Len(log[l])
    <3>1. b + Len(m.entries) <= Len(log[l])
      BY <2>2 DEF CarriedFrom
    <3>2. Len(log[l]) \in Nat
      BY <1>0, <2>1
    <3> HIDE DEF b, l
    <3> QED BY <2>1, <3>1, <3>2
  <2>5. b + Len(m.entries) <= Len(log'[l])
    BY <1>0, <2>1, <2>3, <2>4
  <2> HIDE DEF l
  <2> QED BY <2>2, <2>3, <2>4, <2>5 DEF CarriedFrom, l
<1>3. CASE m \notin append_entries
  <2>1. PICK n \in Node, p \in Node, nx \in Nat : Sends(n, p, nx, m)
    BY <1>0, <1>3, SendStep
  <2>2. /\ m = AppendEntriesFor(n, p, current_term[n], log'[n], nx)
        /\ m.leader_id = n /\ current_term'[n] = current_term[n]
    BY <2>1 DEF Sends, AppendEntriesFor
  <2>3. Rising(log'[n], current_term[n])
    BY <2>2 DEF TermsRise, Rising
  <2>4. Len(log[n]) <= Len(log'[n]) /\ Len(log[p]) <= Len(log'[p])
    BY <1>1 DEF Below
  <2>5. nx <= Len(log'[n])
    <3>1. CASE nx = Len(log'[n])
      BY <1>0, <3>1
    <3>2. CASE role[n] = "leader" /\ nx = next_index[n][p]
      <4>1. nx <= Len(log[n])
        BY <3>2 DEF PairInv, Nexts
      <4> QED BY <1>0, <2>4, <4>1
    <3>3. ASSUME role[n] = "leader", NEW r \in append_replies,
                 r.follower_id = p, nx = r.match_length_hint
          PROVE  nx <= Len(log'[n])
      <4>1. nx <= Len(log[p])
        BY <3>3 DEF PairInv, Hints
      <4>2. Len(log[p]) <= Len(log[n])
        BY <3>3 DEF PairInv, LeaderAhead, Below
      <4> QED BY <1>0, <2>4, <4>1, <4>2
    <3> QED BY <2>1, <3>1, <3>2, <3>3 DEF Sends
  <2> QED BY <1>0, <2>2, <2>3, <2>5, SentIsCarried
<1> QED BY <1>2, <1>3

\* Whoever a request is for was behind its sender when it was sent, and has
\* only the sender to take entries from.
LEMMA FollowerBehindStep ==
    ASSUME Cardinality(Node) = 2, ElectionInv, ElectionInv', PairInv,
           LeaderAhead', [Next]_vars
    PROVE  FollowerBehind'
<1>0. /\ TypeOK /\ log \in [Node -> Seq(Entry)]
      /\ \A n \in Node : /\ log[n] \in Seq(Entry) /\ log'[n] \in Seq(Entry)
                         /\ current_term[n] \in Nat /\ current_term'[n] \in Nat
                         /\ current_term[n] <= current_term'[n]
  BY PairTypes
<1>1. \A n \in Node : Below(log[n], log'[n])
  BY PairLogsGrow
<1> SUFFICES ASSUME NEW m \in append_entries', current_term'[m.dst] <= m.term
             PROVE  Below(log'[m.dst], log'[m.leader_id])
  BY DEF FollowerBehind, Below
<1>2. CASE m \in append_entries
  <2> DEFINE d == m.dst
             l == m.leader_id
  <2>1. d \in Node /\ l \in Node /\ m.term \in Nat
    BY <1>0, <1>2 DEF TypeOK, AppendEntriesRequest, Term
  <2>2. current_term[d] <= m.term
    BY <1>0, <2>1
  <2>3. Below(log[d], log[l])
    BY <1>2, <2>2 DEF PairInv, FollowerBehind
  <2>4. m.leader_id # m.dst /\ role[d] # "leader"
    BY <1>0, <1>2, <2>1, <2>2, PairRequest
  <2>5. CASE log'[d] = log[d]
    BY <1>0, <1>1, <2>1, <2>3, <2>5, BelowTrans
  <2>6. ASSUME NEW n \in Node, Proposed(n) PROVE log'[d] = log[d]
    <3>1. n # d
      BY <2>4, <2>6 DEF Proposed
    <3> QED BY <1>0, <2>1, <2>6, <3>1 DEF Proposed
  <2>7. ASSUME NEW q \in append_entries, CaughtUp(q)
        PROVE  Below(log'[d], log'[l])
    <3>1. /\ q.dst \in Node /\ q.leader_id \in Node /\ q.leader_id # q.dst
          /\ \A p \in Node \ {q.dst} : log'[p] = log[p]
          /\ Below(log'[q.dst], log[q.leader_id])
      BY <1>0, <2>7 DEF CaughtUp
    <3>2. CASE q.dst # d
      BY <2>1, <2>5, <3>1, <3>2
    <3>3. CASE q.dst = d
      <4>1. q.leader_id = l
        BY <2>1, <2>4, <3>1, <3>3, PairOther
      <4> QED BY <3>1, <3>3, <4>1
    <3> QED BY <3>2, <3>3
  <2> QED BY <2>5, <2>6, <2>7, PairLogs
<1>3. CASE m \notin append_entries
  <2>1. PICK n \in Node, p \in Node, nx \in Nat : Sends(n, p, nx, m)
    BY <1>0, <1>3, SendStep
  <2>2. m.leader_id = n /\ m.dst = p /\ role'[n] = "leader"
    BY <2>1 DEF Sends, AppendEntriesFor
  <2> QED BY <2>2 DEF LeaderAhead, Below
<1> QED BY <1>2, <1>3

\* Logs do not shrink under a report or a belief.
LEMMA HintsStep ==
    ASSUME Cardinality(Node) = 2, ElectionInv, ElectionInv', PairInv, [Next]_vars
    PROVE  Hints' /\ Matches' /\ Nexts'
<1>0. /\ TypeOK
      /\ \A n \in Node : /\ Len(log[n]) \in Nat /\ Len(log'[n]) \in Nat
                         /\ Len(log[n]) <= Len(log'[n])
  <2>1. \A n \in Node : Below(log[n], log'[n])
    BY PairLogsGrow
  <2> QED BY <2>1, PairTypes DEF Below
<1>1. \A r \in append_replies : /\ r.follower_id \in Node
                                /\ r.match_length_hint \in Nat
                                /\ r.match_length_hint <= Len(log[r.follower_id])
  BY <1>0 DEF PairInv, Hints, TypeOK, AppendEntriesResponse
<1>2. ASSUME NEW r \in append_replies'
      PROVE  r.match_length_hint <= Len(log'[r.follower_id])
  <2>1. CASE r \in append_replies
    BY <1>0, <1>1, <2>1
  <2>2. CASE r \notin append_replies
    BY <1>0, <2>2, ReplyStep
  <2> QED BY <2>1, <2>2
<1>3. ASSUME NEW n \in Node, NEW p \in Node
      PROVE  match_index'[n][p] <= Len(log'[p])
  <2>1. match_index[n][p] <= Len(log[p]) /\ match_index[n][p] \in Nat
    BY <1>0 DEF PairInv, Matches, TypeOK
  <2>2. \/ match_index'[n][p] = match_index[n][p]
        \/ match_index'[n][p] = 0
        \/ \E r \in append_replies : /\ r.follower_id = p
               /\ match_index'[n][p] = r.match_length_hint
    BY <1>0, BeliefStep
  <2> QED BY <1>0, <1>1, <2>1, <2>2
<1>4. ASSUME NEW n \in Node, NEW p \in Node, role'[n] = "leader"
      PROVE  next_index'[n][p] <= Len(log'[n])
  <2>1. \/ role[n] = "leader" /\ next_index'[n][p] = next_index[n][p]
        \/ next_index'[n][p] = Len(log'[n])
        \/ /\ role[n] = "leader"
           /\ \E r \in append_replies : /\ r.follower_id = p
                  /\ next_index'[n][p] = r.match_length_hint
    BY <1>0, <1>4, BeliefStep
  <2>2. next_index[n][p] \in Nat
    BY <1>0 DEF TypeOK
  <2>3. role[n] = "leader" => /\ next_index[n][p] <= Len(log[n])
                              /\ Len(log[p]) <= Len(log[n])
    BY DEF PairInv, Nexts, LeaderAhead, Below
  <2> QED BY <1>0, <1>1, <2>1, <2>2, <2>3
<1> QED BY <1>2, <1>3, <1>4 DEF Hints, Matches, Nexts

\* Both nodes hold what a leader commits.
LEMMA PairCommits ==
    ASSUME Cardinality(Node) = 2, ElectionInv, PairInv, NEW n \in Node,
           NEW r \in append_replies, NEW o \in Node
    PROVE  LET i == AdvancedCommit(n,
                   [match_index[n] EXCEPT ![r.follower_id] = r.match_length_hint])
           IN  i \in Nat /\ i <= Len(log[o])
<1> DEFINE match == [match_index[n] EXCEPT ![r.follower_id] = r.match_length_hint]
           i     == AdvancedCommit(n, match)
<1> SUFFICES i \in Nat /\ i <= Len(log[o])
  OBVIOUS
<1>0. /\ TypeOK /\ match_index[n] \in [Node -> Nat] /\ r.follower_id \in Node
      /\ r.match_length_hint \in Nat /\ commit_index[n] \in Nat
      /\ \A p \in Node : Len(log[p]) \in Nat
  <2> HIDE DEF i, match
  <2>1. TypeOK
    BY DEF ElectionInv
  <2>2. r.follower_id \in Node /\ r.match_length_hint \in Nat
    BY <2>1 DEF TypeOK, AppendEntriesResponse
  <2>3. match_index[n] \in [Node -> Nat] /\ commit_index[n] \in Nat
    BY <2>1 DEF TypeOK
  <2>4. \A p \in Node : Len(log[p]) \in Nat
    BY <2>1 DEF TypeOK
  <2> QED BY <2>1, <2>2, <2>3, <2>4
<1>1. \A p \in Node : match[p] \in Nat /\ match[p] <= Len(log[p])
  <2>1. \A p \in Node : match_index[n][p] <= Len(log[p])
    BY DEF PairInv, Matches
  <2>2. r.match_length_hint <= Len(log[r.follower_id])
    BY DEF PairInv, Hints
  <2> QED BY <1>0, <2>1, <2>2
<1> HIDE DEF match
<1>2. /\ i \in Nat
      /\ \/ i = commit_index[n]
         \/ /\ i <= Len(log[n])
            /\ Cardinality({n} \cup {p \in Peers(n) : match[p] >= i}) >= Majority
  BY <1>0, AdvancedCommitType
<1> HIDE DEF i
<1>3. CASE i = commit_index[n]
  BY <1>2, <1>3 DEF PairInv, Commits
<1>4. CASE /\ i <= Len(log[n])
           /\ Cardinality({n} \cup {p \in Peers(n) : match[p] >= i}) >= Majority
  <2> DEFINE Q == {n} \cup {p \in Peers(n) : match[p] >= i}
  <2>1. Q \in SUBSET Node
    BY DEF Peers
  <2>2. Q = Node
    <3> HIDE DEF Q
    <3>1. Cardinality(Q) >= Majority
      BY <1>4 DEF Q
    <3> QED BY <2>1, <3>1, PairMajority
  <2>3. o = n \/ match[o] >= i
    BY <2>2
  <2> QED BY <1>0, <1>1, <1>2, <1>4, <2>3
<1> QED BY <1>2, <1>3, <1>4

\* What is committed is in both logs, what leaders say of it included.
LEMMA CommitsStep ==
    ASSUME Cardinality(Node) = 2, ElectionInv, ElectionInv', PairInv, [Next]_vars
    PROVE  Commits' /\ CommitsSent'
<1>0. /\ TypeOK
      /\ \A n \in Node : /\ Len(log[n]) \in Nat /\ Len(log'[n]) \in Nat
                         /\ Len(log[n]) <= Len(log'[n])
                         /\ commit_index[n] \in Nat /\ commit_index'[n] \in Nat
  <2>1. \A n \in Node : Below(log[n], log'[n])
    BY PairLogsGrow
  <2>2. \A n \in Node : commit_index[n] \in Nat /\ commit_index'[n] \in Nat
    BY DEF ElectionInv, TypeOK
  <2> QED BY <2>1, <2>2, PairTypes DEF Below
<1>1. ASSUME NEW n \in Node, NEW o \in Node
      PROVE  commit_index'[n] <= Len(log'[o])
  <2>1. CASE commit_index'[n] = commit_index[n]
    <3>1. commit_index[n] <= Len(log[o])
      BY DEF PairInv, Commits
    <3> QED BY <1>0, <2>1, <3>1
  <2>2. ASSUME NEW m \in append_entries, commit_index'[n] <= m.leader_commit
        PROVE  commit_index'[n] <= Len(log'[o])
    <3>1. m.leader_commit <= Len(log[o]) /\ m.leader_commit \in Nat
      BY <1>0 DEF PairInv, CommitsSent, TypeOK, AppendEntriesRequest
    <3> QED BY <1>0, <2>2, <3>1
  <2>3. ASSUME NEW r \in append_replies,
               commit_index'[n] = AdvancedCommit(n,
                   [match_index[n] EXCEPT ![r.follower_id] = r.match_length_hint])
        PROVE  commit_index'[n] <= Len(log'[o])
    <3>1. commit_index'[n] <= Len(log[o])
      BY <2>3, PairCommits
    <3> QED BY <1>0, <3>1
  <2> QED BY <1>0, <2>1, <2>2, <2>3, CommitStep
<1>2. ASSUME NEW m \in append_entries', NEW o \in Node
      PROVE  m.leader_commit <= Len(log'[o])
  <2>1. CASE m \in append_entries
    <3>1. m.leader_commit <= Len(log[o]) /\ m.leader_commit \in Nat
      BY <1>0, <2>1 DEF PairInv, CommitsSent, TypeOK, AppendEntriesRequest
    <3> QED BY <1>0, <3>1
  <2>2. CASE m \notin append_entries
    <3>1. PICK n \in Node, p \in Node, nx \in Nat : Sends(n, p, nx, m)
      BY <1>0, <2>2, SendStep
    <3>2. m.leader_commit = commit_index[n]
      BY <3>1 DEF Sends, AppendEntriesFor
    <3>3. commit_index[n] <= Len(log[o])
      BY DEF PairInv, Commits
    <3> QED BY <1>0, <3>2, <3>3
  <2> QED BY <2>1, <2>2
<1> QED BY <1>1, <1>2 DEF Commits, CommitsSent

\* What _apply_committed_locked leaves of a state machine.
LEMMA AppliedAfter ==
    ASSUME TypeOK, NEW n \in Node, NEW lg, NEW commit \in Nat,
           ApplyCommitted(n, lg, commit), NEW o \in Node
    PROVE  \/ applied'[o] = applied[o]
           \/ /\ o = n /\ commit > Len(applied[n])
              /\ Len(applied'[o]) = commit
              /\ \A k \in 1..commit :
                     applied'[o][k] = IF k <= Len(applied[n]) THEN applied[n][k]
                                      ELSE lg[k].command
<1> DEFINE new == [k \in 1..commit |-> IF k <= Len(applied[n]) THEN applied[n][k]
                                       ELSE lg[k].command]
<1>0. applied \in [Node -> Seq(Command)] /\ Len(applied[n]) \in Nat
  BY DEF TypeOK
<1>1. applied' = [applied EXCEPT ![n] = IF commit <= Len(applied[n])
                                        THEN applied[n] ELSE new]
  BY <1>0 DEF ApplyCommitted
<1>2. /\ Len(new) = commit
      /\ \A k \in 1..commit : new[k] = IF k <= Len(applied[n]) THEN applied[n][k]
                                       ELSE lg[k].command
  OBVIOUS
<1> HIDE DEF new
<1>3. CASE o # n \/ commit <= Len(applied[n])
  BY <1>0, <1>1, <1>3
<1>4. CASE o = n /\ ~(commit <= Len(applied[n]))
  <2>1. applied'[o] = new
    BY <1>0, <1>1, <1>4
  <2> QED BY <1>0, <1>2, <1>4, <2>1
<1> QED BY <1>3, <1>4

\* What is applied is read from one log at an index both have.
LEMMA AppliedStep ==
    ASSUME Cardinality(Node) = 2, ElectionInv, ElectionInv', PairInv,
           Comparable', Commits', [Next]_vars
    PROVE  AppliedLogged'
<1>0. /\ TypeOK
      /\ \A n \in Node : /\ Len(log[n]) \in Nat /\ Len(log'[n]) \in Nat
                         /\ Len(log[n]) <= Len(log'[n])
                         /\ Len(applied[n]) \in Nat
                         /\ commit_index'[n] \in Nat
                         /\ \A i \in 1..Len(log[n]) : log'[n][i] = log[n][i]
  <2>1. \A n \in Node : Below(log[n], log'[n])
    BY PairLogsGrow
  <2>2. \A n \in Node : Len(applied[n]) \in Nat /\ commit_index'[n] \in Nat
    BY DEF ElectionInv, TypeOK
  <2> QED BY <2>1, <2>2, PairTypes DEF Below
<1>1. ASSUME NEW n \in Node, NEW o \in Node
      PROVE  /\ Len(applied[n]) <= Len(log'[o])
             /\ \A k \in 1..Len(applied[n]) : applied[n][k] = log'[o][k].command
  <2>1. /\ Len(applied[n]) <= Len(log[o])
        /\ \A k \in 1..Len(applied[n]) : applied[n][k] = log[o][k].command
    BY DEF PairInv, AppliedLogged
  <2>2. \A k \in 1..Len(applied[n]) : k \in 1..Len(log[o])
    BY <1>0, <2>1
  <2> QED BY <1>0, <2>1, <2>2
<1>2. ASSUME NEW n \in Node, NEW o \in Node, NEW k \in 1..commit_index'[n]
      PROVE  log'[n][k] = log'[o][k]
  <2>1. commit_index'[n] <= Len(log'[n]) /\ commit_index'[n] <= Len(log'[o])
    BY DEF Commits
  <2>2. k \in 1..Len(log'[n]) /\ k \in 1..Len(log'[o])
    BY <1>0, <2>1
  <2> QED BY <2>2 DEF Comparable, Below
<1> SUFFICES ASSUME NEW n \in Node, NEW o \in Node
             PROVE  /\ Len(applied'[n]) <= Len(log'[o])
                    /\ \A k \in 1..Len(applied'[n]) :
                           applied'[n][k] = log'[o][k].command
  BY DEF AppliedLogged
<1>3. CASE applied'[n] = applied[n]
  BY <1>1, <1>3
<1>4. ASSUME NEW p \in Node, ApplyCommitted(p, log'[p], commit_index'[p]),
             applied'[n] # applied[n]
      PROVE  /\ Len(applied'[n]) <= Len(log'[o])
             /\ \A k \in 1..Len(applied'[n]) :
                    applied'[n][k] = log'[o][k].command
  <2> DEFINE commit == commit_index'[n]
  <2>1. /\ n = p /\ Len(applied'[n]) = commit
        /\ \A k \in 1..commit :
               applied'[n][k] = IF k <= Len(applied[n]) THEN applied[n][k]
                                ELSE log'[n][k].command
    BY <1>0, <1>4, AppliedAfter
  <2>2. commit <= Len(log'[o])
    BY DEF Commits
  <2>3. ASSUME NEW k \in 1..commit PROVE applied'[n][k] = log'[o][k].command
    <3>1. CASE k <= Len(applied[n])
      <4>1. k \in 1..Len(applied[n])
        BY <1>0, <3>1
      <4> QED BY <1>1, <2>1, <3>1, <4>1
    <3>2. CASE ~(k <= Len(applied[n]))
      BY <1>2, <2>1, <3>2
    <3> QED BY <3>1, <3>2
  <2> QED BY <2>1, <2>2, <2>3
<1> QED BY <1>0, <1>3, <1>4, ApplyStep

\* Every handler and timer of a pair preserves its invariant.
LEMMA PairStep ==
    ASSUME Cardinality(Node) = 2, ElectionInv, ElectionInv', PairInv, [Next]_vars
    PROVE  PairInv'
<1>1. TermsRise' /\ Comparable' /\ LeaderAhead' /\ VotersBehind'
  BY TermsRiseStep, ComparableStep, LeaderAheadStep, VotersBehindStep
<1>2. GrantsPast' /\ Asked' /\ SenderActive'
  BY GrantsPastStep, AskedStep, SenderActiveStep
<1>3. Carried' /\ FollowerBehind'
  BY <1>1, CarriedStep, FollowerBehindStep
<1>4. Hints' /\ Matches' /\ Nexts' /\ Commits' /\ CommitsSent'
  BY HintsStep, CommitsStep
<1>5. AppliedLogged'
  BY <1>1, <1>4, AppliedStep
<1> QED BY <1>1, <1>2, <1>3, <1>4, <1>5 DEF PairInv

\* Blank nodes satisfy it.
LEMMA PairInit == Init => PairInv
<1> SUFFICES ASSUME Init PROVE PairInv
  OBVIOUS
<1>1. \A n \in Node : /\ log[n] = <<>> /\ applied[n] = <<>> /\ role[n] = "follower"
                      /\ current_term[n] = 0 /\ commit_index[n] = 0
                      /\ votes_received[n] = {}
  BY DEF Init
<1>2. /\ request_votes = {} /\ vote_replies = {}
      /\ append_entries = {} /\ append_replies = {}
      /\ match_index = [n \in Node |-> [p \in Node |-> 0]]
  BY DEF Init
<1>3. Len(<<>>) = 0 /\ \A i \in 1..0 : FALSE
  OBVIOUS
<1>4. TermsRise /\ Comparable /\ LeaderAhead /\ VotersBehind
  BY <1>1, <1>3 DEF TermsRise, Rising, Comparable, Below, LeaderAhead, VotersBehind
<1>5. GrantsPast /\ Asked /\ SenderActive /\ Carried /\ FollowerBehind
  BY <1>1, <1>2 DEF GrantsPast, Granted, Asked, SenderActive, Carried,
                    FollowerBehind
<1>6. Hints /\ Matches /\ Nexts /\ Commits /\ CommitsSent /\ AppliedLogged
  BY <1>1, <1>2, <1>3 DEF Hints, Matches, Nexts, Commits, CommitsSent, AppliedLogged
<1> QED BY <1>4, <1>5, <1>6 DEF PairInv

\* The invariant of a pair.
LEMMA PairInvariant ==
    ASSUME Cardinality(Node) = 2
    PROVE  Spec => [](ElectionInv /\ PairInv)
<1>1. Init => PairInv
  BY PairInit
<1>2. /\ ElectionInv /\ ElectionInv' /\ PairInv /\ [Next]_vars => PairInv'
  BY PairStep
<1> QED BY <1>1, <1>2, ElectionInvariant, PTL DEF Spec

\* State machine safety in a pair: the two replicas apply the same commands in
\* the same order, although handle_append_entries reports the length of its
\* whole log and leaders count that as a match.
THEOREM PairAppliesAlike ==
    ASSUME Cardinality(Node) = 2
    PROVE  Spec => []StateMachineSafety
<1>1. ElectionInv /\ PairInv => StateMachineSafety
  <2> SUFFICES ASSUME PairInv, NEW n \in Node, NEW o \in Node,
                      NEW k \in 1..Len(applied[n]), k <= Len(applied[o]),
                      ElectionInv
               PROVE  applied[n][k] = applied[o][k]
    BY DEF StateMachineSafety
  <2>1. k \in 1..Len(applied[o])
    BY DEF ElectionInv, TypeOK
  <2> QED BY <2>1 DEF PairInv, AppliedLogged
<1> QED BY <1>1, PairInvariant, PTL

\* What a replica of a pair has applied is in both logs.
THEOREM PairHoldsApplied ==
    ASSUME Cardinality(Node) = 2
    PROVE  Spec => []AppliedOnMajority
<1>1. ElectionInv /\ PairInv => AppliedOnMajority
  <2> SUFFICES ASSUME PairInv, ElectionInv, NEW n \in Node,
                      NEW k \in 1..Len(applied[n])
               PROVE  Cardinality({o \in Node : /\ k <= Len(log[o])
                              /\ log[o][k].command = applied[n][k]}) >= Majority
    BY DEF AppliedOnMajority
  <2>1. ASSUME NEW o \in Node
        PROVE  k <= Len(log[o]) /\ log[o][k].command = applied[n][k]
    <3>1. Len(applied[n]) \in Nat /\ Len(log[o]) \in Nat
      BY DEF ElectionInv, TypeOK
    <3>2. /\ Len(applied[n]) <= Len(log[o])
          /\ applied[n][k] = log[o][k].command
      BY DEF PairInv, AppliedLogged
    <3> QED BY <3>1, <3>2
  <2>2. {o \in Node : /\ k <= Len(log[o])
                      /\ log[o][k].command = applied[n][k]} = Node
    BY <2>1
  <2> QED BY <2>2, PairIsMajority
<1> QED BY <1>1, PairInvariant, PTL

\* No replica of a pair ever cuts its log: the two truncations of
\* handle_append_entries are never reached.
THEOREM PairKeepsLogs ==
    ASSUME Cardinality(Node) = 2
    PROVE  Spec => [][\A n \in Node : Below(log[n], log'[n])]_vars
<1>1. ElectionInv /\ PairInv /\ [Next]_vars
          => [\A n \in Node : Below(log[n], log'[n])]_vars
  BY PairLogsGrow
<1> QED BY <1>1, PairInvariant, PTL DEF Spec

-----------------------------------------------------------------------------
(* Clients of a pair *)

\* A client's command stays where it was appended, and is acknowledged once
\* applied.
KvInv ==
    /\ \A w \in pending \cup acked :
           /\ w.node \in Node /\ w.index \in 1..Len(log[w.node])
           /\ log[w.node][w.index].command = w.command
    /\ \A w \in acked : w.index <= Len(applied[w.node])

\* Clients only call what Raft offers.
LEMMA KvStepIsRaftStep == [KvNext]_<<vars, kvVars>> => [Next]_vars
  BY DEF KvNext, Next, PostKv, WaitCommitted, WaitDeposed, WaitTimesOut

\* KvSpec is Spec with clients.
LEMMA KvIsRaft == KvSpec => Spec
<1>1. KvInit => Init
  BY DEF KvInit
<1> QED BY <1>1, KvStepIsRaftStep, PTL DEF KvSpec, Spec

\* A state machine never forgets.
LEMMA AppliedGrows ==
    ASSUME TypeOK, TypeOK', [Next]_vars, NEW n \in Node
    PROVE  Len(applied[n]) <= Len(applied'[n])
<1>0. Len(applied[n]) \in Nat /\ commit_index' \in [Node -> Nat]
  BY DEF TypeOK
<1>1. ASSUME NEW p \in Node, ApplyCommitted(p, log'[p], commit_index'[p])
      PROVE  Len(applied[n]) <= Len(applied'[n])
  <2>1. commit_index'[p] \in Nat
    BY <1>0
  <2>2. \/ applied'[n] = applied[n]
        \/ /\ n = p /\ commit_index'[p] > Len(applied[p])
           /\ Len(applied'[n]) = commit_index'[p]
    BY <1>1, <2>1, AppliedAfter
  <2> QED BY <1>0, <2>1, <2>2
<1>2. CASE applied' = applied
  BY <1>0, <1>2
<1> QED BY <1>1, <1>2, ApplyStep

\* Every step of a client or of the pair keeps the clients' commands.
LEMMA KvStep ==
    ASSUME Cardinality(Node) = 2, ElectionInv, ElectionInv', PairInv, KvInv,
           [KvNext]_<<vars, kvVars>>
    PROVE  KvInv'
<1>0. [Next]_vars
  BY KvStepIsRaftStep
<1>1. /\ TypeOK /\ TypeOK' /\ log \in [Node -> Seq(Entry)]
      /\ current_term \in [Node -> Nat]
      /\ \A n \in Node : /\ Len(log[n]) \in Nat /\ Len(log'[n]) \in Nat
                         /\ Len(applied[n]) \in Nat /\ Len(applied'[n]) \in Nat
  <2>1. TypeOK /\ TypeOK'
    BY DEF ElectionInv
  <2>2. \A n \in Node : Len(applied[n]) \in Nat /\ Len(applied'[n]) \in Nat
    BY <2>1 DEF TypeOK
  <2> QED BY <1>0, <2>1, <2>2, PairTypes
<1>2. \A n \in Node : Len(applied[n]) <= Len(applied'[n])
  BY <1>0, <1>1, AppliedGrows
<1>3. ASSUME NEW w \in pending \cup acked
      PROVE  /\ w.node \in Node /\ w.index \in 1..Len(log'[w.node])
             /\ log'[w.node][w.index].command = w.command
  <2>1. /\ w.node \in Node /\ w.index \in 1..Len(log[w.node])
        /\ log[w.node][w.index].command = w.command
    BY DEF KvInv
  <2>2. Below(log[w.node], log'[w.node])
    BY <1>0, <2>1, PairLogsGrow
  <2> QED BY <1>1, <2>1, <2>2 DEF Below
<1>4. ASSUME NEW w \in acked PROVE w.index <= Len(applied'[w.node])
  <2>1. w.node \in Node /\ w.index \in Nat /\ w.index <= Len(applied[w.node])
    BY <1>1 DEF KvInv
  <2> QED BY <1>1, <1>2, <2>1
<1>5. ASSUME NEW n \in Node, NEW c \in Command, PostKv(n, c) PROVE KvInv'
  <2> DEFINE e == [term |-> current_term[n], command |-> c]
             w == [node |-> n, index |-> Len(log[n]) + 1, command |-> c]
  <2>1. /\ log' = [log EXCEPT ![n] = Append(log[n], e)]
        /\ pending' = pending \cup {w} /\ acked' = acked
    BY <1>5 DEF PostKv, Propose
  <2>2. e \in Entry /\ e.command = c
    BY <1>1 DEF Entry, Term
  <2> HIDE DEF e
  <2>3. log'[n] = Append(log[n], e) /\ log[n] \in Seq(Entry)
    BY <1>1, <2>1
  <2>4. /\ Len(log'[n]) = Len(log[n]) + 1 /\ log'[n][Len(log[n]) + 1] = e
    BY <2>2, <2>3
  <2>5. /\ w.node = n /\ w.index = Len(log[n]) + 1 /\ w.command = c
    OBVIOUS
  <2> HIDE DEF w
  <2>6. /\ w.node \in Node /\ w.index \in 1..Len(log'[w.node])
        /\ log'[w.node][w.index].command = w.command
    BY <1>1, <2>2, <2>4, <2>5
  <2> QED BY <1>3, <1>4, <2>1, <2>6 DEF KvInv
<1>6. ASSUME NEW w \in pending, WaitCommitted(w) PROVE KvInv'
  <2>1. /\ Len(applied[w.node]) >= w.index /\ applied' = applied
        /\ pending' \subseteq pending /\ acked' = acked \cup {w}
    BY <1>6 DEF WaitCommitted, vars, logVars
  <2>2. w.node \in Node /\ w.index \in Nat
    BY <1>1 DEF KvInv
  <2>3. w.index <= Len(applied'[w.node])
    BY <1>1, <2>1, <2>2
  <2>4. pending' \cup acked' \subseteq pending \cup acked
    BY <2>1
  <2> QED BY <1>3, <1>4, <2>1, <2>3, <2>4 DEF KvInv
<1>7. CASE pending' \subseteq pending /\ acked' = acked
  BY <1>3, <1>4, <1>7 DEF KvInv
<1>8. \/ \E n \in Node, c \in Command : PostKv(n, c)
      \/ \E w \in pending : WaitCommitted(w)
      \/ pending' \subseteq pending /\ acked' = acked
  BY DEF KvNext, kvVars, WaitDeposed, WaitTimesOut
<1> QED BY <1>5, <1>6, <1>7, <1>8

\* In a pair a client told "committed" finds its own command applied at the
\* index the node gave it, whoever leads by then.
THEOREM PairAcksApplied ==
    ASSUME Cardinality(Node) = 2
    PROVE  KvSpec => []AckedIsApplied
<1>1. KvSpec => [](ElectionInv /\ PairInv)
  BY KvIsRaft, PairInvariant, PTL
<1>2. KvInit => KvInv
  BY DEF KvInit, KvInv
<1>3. /\ ElectionInv /\ ElectionInv' /\ PairInv /\ KvInv
      /\ [KvNext]_<<vars, kvVars>>
      => KvInv'
  BY KvStep
<1>4. ElectionInv /\ PairInv /\ KvInv => AckedIsApplied
  <2> SUFFICES ASSUME ElectionInv, PairInv, KvInv, NEW w \in acked
               PROVE  /\ w.index <= Len(applied[w.node])
                      /\ applied[w.node][w.index] = w.command
    BY DEF AckedIsApplied
  <2>1. /\ w.node \in Node /\ w.index \in 1..Len(log[w.node])
        /\ log[w.node][w.index].command = w.command
        /\ w.index <= Len(applied[w.node])
    BY DEF KvInv
  <2>2. Len(applied[w.node]) \in Nat /\ Len(log[w.node]) \in Nat
    BY <2>1 DEF ElectionInv, TypeOK
  <2>3. w.index \in 1..Len(applied[w.node])
    BY <2>1, <2>2
  <2> QED BY <2>1, <2>3 DEF PairInv, AppliedLogged
<1> QED BY <1>1, <1>2, <1>3, <1>4, PTL DEF KvSpec

=============================================================================
