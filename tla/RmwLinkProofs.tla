---------------------------- MODULE RmwLinkProofs ----------------------------
(***************************************************************************)
(* Proofs about RmwLink, for every set of readers, history depth, set of   *)
(* limits and number of samples: type correctness, the four safety         *)
(* properties, and that the protocol implements ReliableStream.            *)
(*                                                                         *)
(* The invariant follows the datagrams: a feedback frame, however old,     *)
(* acknowledges only samples whose fate its reader knows, and a loss       *)
(* notice names only samples the writer has given up for its reader.       *)
(***************************************************************************)
EXTENDS RmwLink, NatFacts, FiniteSetTheorems

\* Samples of which reader r knows the fate.
Settled(r) == observed[r] \cup lost[r]

\* Everything in flight, received or refused was published.
PublishedInv ==
  /\ \A r \in Readers : data[r] \subseteq 1 .. next - 1
  /\ \A r \in Readers : observed[r] \subseteq 1 .. next - 1
  /\ \A r \in Readers : refused[r] \subseteq 1 .. next - 1

\* A reader's baseline is the first sample it received.
BaselineInv ==
  \A r \in Readers :
    \/ floor[r] = 0 /\ observed[r] = {} /\ contig[r] = 0 /\ lost[r] = {}
    \/ floor[r] >= 1 /\ floor[r] <= contig[r] /\ floor[r] \in observed[r]

\* A feedback frame tells the truth from the time it is sent.
FeedbackInv ==
  \A r \in Readers : \A a \in acks[r] :
    /\ a.ack \in observed[r]
    /\ a.low .. a.contig \subseteq Settled(r)
    /\ a.missing \subseteq 1 .. next - 1

\* So does a loss notice, and what is kept of it.
NoticeInv ==
  \A r \in Readers :
    /\ \A n \in notices[r] : n \subseteq GivenUp(r)
    /\ confirmed[r] \subseteq GivenUp(r)
    /\ lost[r] \subseteq GivenUp(r)

\* Losses are counted as the contiguous sequence passes them.
CountInv ==
  \A r \in Readers : /\ lost[r] \subseteq 1 .. contig[r]
                     /\ lostTotal[r] = Cardinality(lost[r])

\* The inductive invariant.
LinkInv ==
  /\ LinkTypeOK
  /\ PublishedInv
  /\ BaselineInv
  /\ ContiguousIsSettled
  /\ FeedbackInv
  /\ NoticeInv
  /\ CountInv
  /\ CreditedIsSettled

-----------------------------------------------------------------------------
(* The operators.                                                          *)

LEMMA MaxOfFact ==
  ASSUME NEW S \in SUBSET (0 .. MaxSeq), S # {}
  PROVE  MaxOf(S) \in S /\ \A s \in S : s <= MaxOf(S)
<1>1. S \in SUBSET Nat /\ \A s \in S : s <= MaxSeq
      BY RmwBounds
<1>2. \E m \in S : \A s \in S : s <= m
      BY <1>1, NatBoundedMax, RmwBounds
<1> QED BY <1>2 DEF MaxOf

LEMMA MinOfFact ==
  ASSUME NEW S \in SUBSET Seqs, S # {}
  PROVE  MinOf(S) \in S
<1>1. S \in SUBSET Nat
      BY RmwBounds DEF Seqs
<1>2. \E m \in S : \A s \in S : m <= s
      BY <1>1, NatMin
<1> QED BY <1>2 DEF MinOf

\* The run after n ends at n or later, and all of it is in S.
LEMMA RunEndFact ==
  ASSUME NEW S, NEW n \in 0 .. MaxSeq
  PROVE  /\ RunEnd(S, n) \in 0 .. MaxSeq
         /\ n <= RunEnd(S, n)
         /\ n + 1 .. RunEnd(S, n) \subseteq S
<1> DEFINE R == {n} \cup {m \in Seqs : m > n /\ n + 1 .. m \subseteq S}
<1>1. R \in SUBSET (0 .. MaxSeq) /\ R # {}
      BY RmwBounds DEF Seqs
<1>2. MaxOf(R) \in R /\ \A s \in R : s <= MaxOf(R)
      <2> HIDE DEF R
      <2> QED BY <1>1, MaxOfFact
<1>3. RunEnd(S, n) = MaxOf(R)
      BY DEF RunEnd
<1>4. CASE MaxOf(R) = n
      <2>1. RunEnd(S, n) = n
            BY <1>3, <1>4
      <2>2. n + 1 .. n = {}
            BY RmwBounds
      <2> QED BY <2>1, <2>2, RmwBounds
<1>5. CASE MaxOf(R) \in {m \in Seqs : m > n /\ n + 1 .. m \subseteq S}
      BY <1>3, <1>5, RmwBounds DEF Seqs
<1> QED BY <1>2, <1>4, <1>5

\* What a reader asks for lies between what it has settled and what it has seen.
LEMMA MissingFact ==
  ASSUME NEW obs \in SUBSET Seqs, NEW ctg \in 0 .. MaxSeq, NEW k \in Nat,
         obs \subseteq 1 .. k
  PROVE  /\ Missing(obs, ctg) \subseteq Seqs
         /\ Missing(obs, ctg) \subseteq 1 .. k
<1>1. CASE obs = {}
      BY <1>1, RmwBounds DEF Missing, MaxOf, Seqs
<1>2. CASE obs # {}
      <2>1. MaxOf(obs) \in obs
            BY <1>2, MaxOfFact, RmwBounds DEF Seqs
      <2>2. MaxOf(obs) \in Seqs /\ MaxOf(obs) \in 1 .. k
            BY <2>1
      <2> QED BY <2>2, RmwBounds DEF Missing, Seqs
<1> QED BY <1>1, <1>2

\* A feedback frame starts no lower than the reader's baseline.
LEMMA FeedbackFact ==
  ASSUME NEW s \in Seqs, NEW obs \in SUBSET Seqs, obs # {},
         NEW flr \in Seqs, NEW ctg \in 0 .. MaxSeq
  PROVE  /\ Feedback(s, obs, flr, ctg) \in Feedbacks
         /\ Feedback(s, obs, flr, ctg).ack = s
         /\ Feedback(s, obs, flr, ctg).contig = ctg
         /\ flr <= Feedback(s, obs, flr, ctg).low
         /\ Feedback(s, obs, flr, ctg).missing = Missing(obs, ctg)
<1> DEFINE E == {MinOf(obs), flr}
<1>1. MinOf(obs) \in Seqs
      BY MinOfFact
<1>2. E \in SUBSET (0 .. MaxSeq) /\ E # {} /\ flr \in E
      BY <1>1, RmwBounds DEF Seqs
<1>3. MaxOf(E) \in E /\ flr <= MaxOf(E)
      <2> HIDE DEF E
      <2> QED BY <1>2, MaxOfFact
<1>4. MaxOf(E) \in Seqs
      BY <1>1, <1>3
<1>5. Missing(obs, ctg) \subseteq Seqs
      BY MissingFact, RmwBounds DEF Seqs
<1> HIDE DEF E
<1>6. Feedback(s, obs, flr, ctg) =
        [ack |-> s, low |-> MaxOf(E), contig |-> ctg, missing |-> Missing(obs, ctg)]
      BY DEF Feedback, E
<1> QED BY <1>3, <1>4, <1>5, <1>6 DEF Feedbacks

LEMMA PostFact == \A S, m : Post(S, m) \subseteq S \cup {m}
BY DEF Post

LEMMA ReceivedFact == \A S, m : \A T \in Received(S, m) : T \subseteq S
BY DEF Received

LEMMA FiniteSeqs == \A S \in SUBSET Seqs : IsFiniteSet(S) /\ Cardinality(S) \in Nat
<1> SUFFICES ASSUME NEW S \in SUBSET Seqs
             PROVE  IsFiniteSet(S) /\ Cardinality(S) \in Nat
    OBVIOUS
<1>1. IsFiniteSet(Seqs)
      BY RmwBounds, FS_Interval DEF Seqs
<1>2. IsFiniteSet(S)
      BY <1>1, FS_Subset
<1> QED BY <1>2, FS_CardinalityType
-----------------------------------------------------------------------------
(* The invariant holds at first, and every step keeps it.                  *)

LEMMA InitLink == Init => LinkInv
<1> SUFFICES ASSUME Init PROVE LinkInv
    OBVIOUS
<1> USE RmwBounds, LinkBounds DEF Init, LedgerInit
<1>1. LinkTypeOK
      BY DEF LinkTypeOK, LedgerTypeOK, Seqs
<1>2. PublishedInv /\ BaselineInv /\ FeedbackInv /\ NoticeInv /\ CreditedIsSettled
      BY DEF PublishedInv, BaselineInv, FeedbackInv, NoticeInv, CreditedIsSettled, Seqs
<1>3. ContiguousIsSettled
      BY DEF ContiguousIsSettled
<1>4. CountInv
      BY FS_EmptySet DEF CountInv
<1> QED BY <1>1, <1>2, <1>3, <1>4 DEF LinkInv

LEMMA IntervalGrows == \A m, n \in Nat : m <= n => 1 .. m - 1 \subseteq 1 .. n - 1
OBVIOUS

\* A step that leaves the readers alone and puts no feedback on its way.
LEMMA WriterStep ==
  ASSUME LinkInv, UNCHANGED readerVars, next' \in {next, next + 1},
         \A r \in Readers : acks'[r] \subseteq acks[r]
  PROVE  BaselineInv' /\ ContiguousIsSettled' /\ FeedbackInv' /\ CountInv'
<1> USE DEF LinkInv, readerVars
<1>1. BaselineInv' /\ ContiguousIsSettled' /\ CountInv'
      BY DEF BaselineInv, ContiguousIsSettled, CountInv
<1>2. 1 .. next - 1 \subseteq 1 .. next' - 1
      <2>1. next \in Nat
            BY RmwBounds DEF LinkTypeOK, LedgerTypeOK
      <2>2. next' \in Nat /\ next <= next'
            BY <2>1
      <2> QED BY <2>1, <2>2, IntervalGrows
<1>3. \A r \in Readers : Settled(r)' = Settled(r)
      BY DEF Settled
<1> QED BY <1>1, <1>2, <1>3 DEF FeedbackInv

LEMMA PublishStep == LinkInv /\ Publish => LinkInv' /\ Stream!Publish
<1> SUFFICES ASSUME LinkInv, Publish PROVE LinkInv' /\ Stream!Publish
    OBVIOUS
<1> USE RmwBounds, LinkBounds DEF LinkInv
<1>1. PICK M \in SUBSET Readers : AddToLedger(M)
      BY DEF Publish
<1>2. /\ next \in Seqs /\ next' = next + 1
      /\ next \in ledger' /\ ledger' \subseteq ledger \cup {next}
      /\ acknowledged' = {} /\ credited' = credited
      BY <1>1 DEF AddToLedger, Newest, Seqs, LinkTypeOK, LedgerTypeOK
<1>3. /\ data' = [r \in Readers |-> data[r] \cup {next}]
      /\ UNCHANGED <<attempts, refused, acks, notices, readerVars>>
      BY DEF Publish, Broadcast
<1>4. LedgerTypeOK'
      <2>1. pending' \in [Seqs -> SUBSET Readers]
            BY <1>1 DEF AddToLedger, LinkTypeOK, LedgerTypeOK
      <2> QED BY <1>2, <2>1 DEF LinkTypeOK, LedgerTypeOK, Seqs
<1>5. LinkTypeOK'
      <2>1. data' \in [Readers -> SUBSET Seqs]
            BY <1>2, <1>3 DEF LinkTypeOK
      <2>2. timeouts' \in [Seqs -> 0 .. MaxTimeouts]
            BY DEF Publish, LinkTypeOK
      <2> QED BY <1>3, <1>4, <2>1, <2>2 DEF LinkTypeOK, readerVars
<1>6. PublishedInv'
      <2>1. 1 .. next - 1 \subseteq 1 .. next' - 1 /\ next \in 1 .. next' - 1
            BY <1>2 DEF LinkTypeOK, LedgerTypeOK
      <2> QED BY <1>3, <2>1 DEF PublishedInv, readerVars
<1>7. \A r \in Readers : GivenUp(r) \subseteq GivenUp(r)'
      BY <1>2, <1>3 DEF GivenUp, LinkTypeOK, LedgerTypeOK
<1>8. NoticeInv'
      BY <1>3, <1>7 DEF NoticeInv, readerVars
<1>9. BaselineInv' /\ ContiguousIsSettled' /\ FeedbackInv' /\ CountInv'
      BY <1>2, <1>3, WriterStep
<1>10. CreditedIsSettled'
      BY <1>2, <1>3 DEF CreditedIsSettled, readerVars
<1>11. \A r \in Readers : GivenUp(r)' \subseteq 1 .. next - 1
      <2> SUFFICES ASSUME NEW r \in Readers PROVE GivenUp(r)' \subseteq 1 .. next - 1
          OBVIOUS
      <2>1. refused'[r] \subseteq 1 .. next - 1
            BY <1>3 DEF PublishedInv
      <2>2. next \notin GivenUp(r)'
            BY <1>2, <2>1 DEF GivenUp, LinkTypeOK, LedgerTypeOK
      <2>3. GivenUp(r)' \subseteq 1 .. next
            BY <1>2 DEF GivenUp, LinkTypeOK, LedgerTypeOK
      <2> QED BY <2>2, <2>3 DEF LinkTypeOK, LedgerTypeOK
<1>12. Stream!MoreGone
      BY <1>7, <1>11 DEF Stream!MoreGone
<1>13. Stream!Publish
      BY <1>2, <1>3, <1>12 DEF Stream!Publish, readerVars, LinkTypeOK, LedgerTypeOK
<1> QED BY <1>5, <1>6, <1>8, <1>9, <1>10, <1>13

LEMMA RetransmitStep ==
  ASSUME LinkInv, NEW due \in SUBSET Seqs, RetransmitRound(due)
  PROVE  LinkInv' /\ Stream!GiveUp
<1> USE RmwBounds, LinkBounds DEF LinkInv
<1>1. /\ due \subseteq ledger /\ ledger' = ledger \ acknowledged /\ acknowledged' = {}
      /\ data' = [r \in Readers |-> data[r] \cup due]
      /\ UNCHANGED <<next, pending, credited, attempts, refused, acks, notices, readerVars>>
      BY DEF RetransmitRound, Broadcast
<1>2. LinkTypeOK'
      <2>1. timeouts' \in [Seqs -> 0 .. MaxTimeouts]
            BY DEF RetransmitRound, LinkTypeOK
      <2>2. data' \in [Readers -> SUBSET Seqs]
            BY <1>1 DEF LinkTypeOK
      <2>3. LedgerTypeOK'
            BY <1>1 DEF LinkTypeOK, LedgerTypeOK
      <2> QED BY <1>1, <2>1, <2>2, <2>3 DEF LinkTypeOK, readerVars
<1>3. PublishedInv'
      BY <1>1 DEF PublishedInv, readerVars, LinkTypeOK, LedgerTypeOK
<1>4. \A r \in Readers : GivenUp(r) \subseteq GivenUp(r)' /\ GivenUp(r)' \subseteq 1 .. next - 1
      BY <1>1 DEF GivenUp
<1>5. NoticeInv' /\ CreditedIsSettled'
      BY <1>1, <1>4 DEF NoticeInv, CreditedIsSettled, readerVars
<1>6. BaselineInv' /\ ContiguousIsSettled' /\ FeedbackInv' /\ CountInv'
      BY <1>1, WriterStep
<1>7. Stream!GiveUp
      BY <1>1, <1>4 DEF Stream!GiveUp, Stream!MoreGone, readerVars
<1> QED BY <1>2, <1>3, <1>5, <1>6, <1>7

LEMMA HandleAckNackStep ==
  ASSUME LinkInv, NEW r \in Readers, NEW a \in acks[r], NEW skipped,
         HandleAckNack(r, a, skipped)
  PROVE  LinkInv' /\ Stream!Credit(r)
<1> USE RmwBounds, LinkBounds DEF LinkInv
<1> DEFINE S == {s \in ledger : Acknowledges(a, s)}
           C == {s \in S : r \in pending[s]}
           asked == a.missing \cap ledger
           refusals(limit) == {s \in asked \ skipped : RepairRefused(s, limit[s])}
<1>0. PICK limit \in [asked -> Limits] :
        LET sent     == (asked \ skipped) \ refusals(limit)
            terminal == Terminal(a, skipped, sent)
        IN /\ acks' \in {[acks EXCEPT ![r] = T] : T \in Received(acks[r], a)}
           /\ Acknowledge(r, S)
           /\ attempts' = [s \in Seqs |-> IF s \in sent /\ attempts[s] < MaxAttempts
                                         THEN attempts[s] + 1 ELSE attempts[s]]
           /\ refused' = [refused EXCEPT ![r] = @ \cup refusals(limit)]
           /\ Broadcast(sent)
           /\ notices' = IF terminal = {} THEN notices
                         ELSE [notices EXCEPT ![r] = Post(@, terminal)]
           /\ UNCHANGED <<next, ledger, timeouts, readerVars>>
      BY DEF HandleAckNack
<1> DEFINE no       == refusals(limit)
           sent     == (asked \ skipped) \ no
           terminal == Terminal(a, skipped, sent)
<1>1. /\ pending' = [s \in Seqs |-> IF s \in S THEN pending[s] \ {r} ELSE pending[s]]
      /\ acknowledged' \subseteq ledger
      /\ credited' = [credited EXCEPT ![r] = @ \cup C]
      BY <1>0 DEF Acknowledge
<1>2. /\ attempts' = [s \in Seqs |-> IF s \in sent /\ attempts[s] < MaxAttempts
                                     THEN attempts[s] + 1 ELSE attempts[s]]
      /\ refused' = [refused EXCEPT ![r] = @ \cup no]
      /\ data' = [x \in Readers |-> data[x] \cup sent]
      /\ notices' = notices \/ notices' = [notices EXCEPT ![r] = Post(@, terminal)]
      /\ \E T \in Received(acks[r], a) : acks' = [acks EXCEPT ![r] = T]
      /\ UNCHANGED <<next, ledger, timeouts, readerVars>>
      BY <1>0 DEF Broadcast
<1>3. \A x \in Readers : acks'[x] \subseteq acks[x]
      BY <1>2, ReceivedFact DEF LinkTypeOK
<1>4. /\ S \subseteq Settled(r) /\ S \subseteq Seqs
      /\ a.missing \subseteq 1 .. next - 1
      /\ ledger \subseteq Seqs
      <2>1. /\ a.ack \in Settled(r)
            /\ a.low .. a.contig \subseteq Settled(r)
            /\ a.missing \subseteq 1 .. next - 1
            BY DEF FeedbackInv, Settled
      <2>2. S \subseteq Settled(r)
            BY <2>1 DEF Acknowledges
      <2>3. ledger \subseteq Seqs
            BY DEF LinkTypeOK, LedgerTypeOK, Seqs
      <2> QED BY <2>1, <2>2, <2>3
<1>5. sent \subseteq ledger /\ no \subseteq ledger
      OBVIOUS
<1>6. \A s \in terminal : s \in a.missing /\ (s \in ledger => s \in no)
      BY DEF Terminal
<1> HIDE DEF S, C, no, sent, terminal
<1>7. attempts' \in [Seqs -> 0 .. MaxAttempts]
      BY <1>2 DEF LinkTypeOK
<1>8. /\ \A x \in Readers : refused[x] \subseteq refused'[x]
      /\ no \subseteq refused'[r]
      /\ refused' \in [Readers -> SUBSET Seqs]
      BY <1>2, <1>4, <1>5 DEF LinkTypeOK
<1>9. \A x \in Readers : GivenUp(x) \subseteq GivenUp(x)' /\ GivenUp(x)' \subseteq 1 .. next - 1
      BY <1>2, <1>8 DEF GivenUp
<1>10. terminal \subseteq GivenUp(r)'
      BY <1>2, <1>4, <1>6, <1>8 DEF GivenUp
<1>11. terminal \subseteq Seqs
      <2>1. 1 .. next - 1 \subseteq Seqs
            BY DEF LinkTypeOK, LedgerTypeOK, Seqs
      <2> QED BY <1>4, <1>6, <2>1
<1>12. LinkTypeOK'
      <2>1. LedgerTypeOK'
            <3>1. pending' \in [Seqs -> SUBSET Readers]
                  BY <1>1 DEF LinkTypeOK, LedgerTypeOK
            <3>2. credited' \in [Readers -> SUBSET Seqs]
                  BY <1>1, <1>4 DEF LinkTypeOK, LedgerTypeOK, C
            <3> QED BY <1>1, <1>2, <3>1, <3>2 DEF LinkTypeOK, LedgerTypeOK
      <2>2. data' \in [Readers -> SUBSET Seqs]
            BY <1>2, <1>4, <1>5 DEF LinkTypeOK
      <2>3. notices' \in [Readers -> SUBSET SUBSET Seqs]
            BY <1>2, <1>11, PostFact DEF LinkTypeOK
      <2>4. acks' \in [Readers -> SUBSET Feedbacks]
            BY <1>2, <1>3 DEF LinkTypeOK
      <2> QED BY <1>2, <1>7, <1>8, <2>1, <2>2, <2>3, <2>4 DEF LinkTypeOK, readerVars
<1>13. PublishedInv'
      <2>1. \A x \in Readers : refused'[x] \subseteq 1 .. next - 1
            BY <1>2, <1>5 DEF PublishedInv, LinkTypeOK, LedgerTypeOK
      <2>2. \A x \in Readers : data'[x] \subseteq 1 .. next - 1
            BY <1>2, <1>5 DEF PublishedInv, LinkTypeOK, LedgerTypeOK
      <2> QED BY <1>2, <2>1, <2>2 DEF PublishedInv, readerVars
<1>14. NoticeInv'
      <2>1. \A x \in Readers : \A n \in notices'[x] :
              n \in notices[x] \/ (x = r /\ n = terminal)
            BY <1>2, PostFact DEF LinkTypeOK
      <2> QED BY <1>2, <1>9, <1>10, <2>1 DEF NoticeInv, readerVars
<1>15. BaselineInv' /\ ContiguousIsSettled' /\ FeedbackInv' /\ CountInv'
      BY <1>2, <1>3, WriterStep
<1>16. C \in SUBSET Settled(r)
      BY <1>4 DEF C
<1>17. CreditedIsSettled'
      BY <1>1, <1>2, <1>16 DEF CreditedIsSettled, Settled, readerVars, LinkTypeOK, LedgerTypeOK
<1>18. Stream!Credit(r)
      BY <1>1, <1>2, <1>9, <1>16 DEF Stream!Credit, Stream!MoreGone, Settled, readerVars
<1> QED BY <1>12, <1>13, <1>14, <1>15, <1>17, <1>18

\* A step that leaves the writer alone.
LEMMA ReaderStep ==
  ASSUME LinkInv, UNCHANGED <<ledgerVars, writerVars>>,
         \A r \in Readers : observed[r] \subseteq observed'[r] /\ lost[r] \subseteq lost'[r]
  PROVE  LedgerTypeOK' /\ CreditedIsSettled' /\ \A x \in Readers : GivenUp(x)' = GivenUp(x)
<1> USE DEF LinkInv, ledgerVars, writerVars
<1>1. LedgerTypeOK'
      BY DEF LinkTypeOK, LedgerTypeOK
<1>2. \A r \in Readers : GivenUp(r)' = GivenUp(r)
      BY DEF GivenUp
<1>3. CreditedIsSettled'
      BY DEF CreditedIsSettled
<1> QED BY <1>1, <1>2, <1>3

LEMMA DeliverStep ==
  ASSUME LinkInv, NEW r \in Readers, NEW s \in Seqs, Deliver(r, s)
  PROVE  LinkInv' /\ Stream!See(r)
<1> USE RmwBounds DEF LinkInv
<1> DEFINE obs == observed[r] \cup {s}
           flr == IF floor[r] = 0 THEN s ELSE floor[r]
           ctg == IF floor[r] = 0 THEN s ELSE RunEnd(obs, contig[r])
           fb  == Feedback(s, obs, flr, ctg)
<1>1. /\ s \in data[r]
      /\ \E T \in Received(data[r], s) : data' = [data EXCEPT ![r] = T]
      /\ observed' = [observed EXCEPT ![r] = obs]
      /\ floor' = [floor EXCEPT ![r] = flr]
      /\ contig' = [contig EXCEPT ![r] = ctg]
      /\ acks' = [acks EXCEPT ![r] = Post(@, fb)]
      /\ UNCHANGED <<ledgerVars, writerVars, notices, confirmed, lost, lostTotal>>
      BY DEF Deliver
<1>2. /\ s \in 1 .. next - 1 /\ next - 1 \in Nat
      /\ obs \in SUBSET Seqs /\ obs # {} /\ obs \subseteq 1 .. next - 1
      BY <1>1 DEF PublishedInv, LinkTypeOK, LedgerTypeOK, Seqs
<1>3. contig[r] \in 0 .. MaxSeq /\ floor[r] \in 0 .. MaxSeq
      BY DEF LinkTypeOK
<1>4. flr \in Seqs /\ flr \in obs
      BY <1>3 DEF BaselineInv, Seqs
<1>5. /\ ctg \in 0 .. MaxSeq /\ flr <= ctg /\ contig[r] <= ctg
      /\ flr .. ctg \subseteq obs \cup lost[r]
      <2>1. CASE floor[r] = 0
            BY <1>3, <2>1 DEF BaselineInv, Seqs
      <2>2. CASE floor[r] # 0
            <3>1. /\ RunEnd(obs, contig[r]) \in 0 .. MaxSeq
                  /\ contig[r] <= RunEnd(obs, contig[r])
                  /\ contig[r] + 1 .. RunEnd(obs, contig[r]) \subseteq obs
                  BY <1>3, RunEndFact
            <3>2. floor[r] >= 1 /\ floor[r] <= contig[r]
                  BY <2>2 DEF BaselineInv
            <3>3. floor[r] .. contig[r] \subseteq observed[r] \cup lost[r]
                  BY <1>3, <3>2 DEF ContiguousIsSettled
            <3>4. ctg = RunEnd(obs, contig[r]) /\ flr = floor[r]
                  BY <2>2
            <3>5. ASSUME NEW i \in flr .. ctg PROVE i \in obs \cup lost[r]
                  <4>1. i \in floor[r] .. contig[r] \/ i \in contig[r] + 1 .. ctg
                        BY <1>3, <3>1, <3>4
                  <4> QED BY <3>1, <3>3, <3>4, <4>1
            <3> QED BY <1>3, <3>1, <3>2, <3>4, <3>5
      <2> QED BY <2>1, <2>2
<1> HIDE DEF obs, flr, ctg
<1>6. /\ fb \in Feedbacks /\ fb.ack = s /\ fb.contig = ctg /\ flr <= fb.low
      /\ fb.missing = Missing(obs, ctg)
      BY <1>2, <1>4, <1>5, FeedbackFact
<1>7. fb.missing \subseteq 1 .. next - 1
      BY <1>2, <1>5, <1>6, MissingFact
<1>8. fb.low .. fb.contig \subseteq obs \cup lost[r]
      <2>1. fb.low \in Seqs
            BY <1>6 DEF Feedbacks
      <2>2. fb.low .. fb.contig \subseteq flr .. ctg
            BY <1>4, <1>5, <1>6, <2>1 DEF Seqs
      <2> QED BY <1>5, <2>2
<1> HIDE DEF fb
<1>9. \A x \in Readers : observed[x] \subseteq observed'[x]
      BY <1>1 DEF obs, LinkTypeOK
<1>10. LedgerTypeOK' /\ CreditedIsSettled' /\ \A x \in Readers : GivenUp(x)' = GivenUp(x)
      BY <1>1, <1>9, ReaderStep
<1>11. \A x \in Readers : \A a \in acks'[x] : a \in acks[x] \/ (x = r /\ a = fb)
      BY <1>1, PostFact DEF LinkTypeOK
<1>12. \A x \in Readers : data'[x] \subseteq data[x]
      BY <1>1, ReceivedFact DEF LinkTypeOK
<1>13. LinkTypeOK'
      <2>1. data' \in [Readers -> SUBSET Seqs]
            BY <1>1, <1>12 DEF LinkTypeOK
      <2>2. acks' \in [Readers -> SUBSET Feedbacks]
            BY <1>1, <1>6, <1>11 DEF LinkTypeOK
      <2>3. observed' \in [Readers -> SUBSET Seqs]
            BY <1>1, <1>2 DEF LinkTypeOK
      <2>4. floor' \in [Readers -> 0 .. MaxSeq] /\ contig' \in [Readers -> 0 .. MaxSeq]
            BY <1>1, <1>4, <1>5 DEF LinkTypeOK, Seqs
      <2> QED BY <1>1, <1>10, <2>1, <2>2, <2>3, <2>4 DEF LinkTypeOK, writerVars
<1>14. PublishedInv'
      BY <1>1, <1>2, <1>12 DEF PublishedInv, ledgerVars, writerVars, LinkTypeOK
<1>15. BaselineInv'
      <2>1. floor'[r] >= 1 /\ floor'[r] <= contig'[r] /\ floor'[r] \in observed'[r]
            BY <1>1, <1>4, <1>5 DEF LinkTypeOK, Seqs
      <2>2. ASSUME NEW x \in Readers, x # r
            PROVE  UNCHANGED <<floor[x], contig[x], observed[x], lost[x]>>
            BY <1>1, <2>2 DEF LinkTypeOK
      <2> QED BY <2>1, <2>2 DEF BaselineInv
<1>16. ContiguousIsSettled'
      BY <1>1, <1>4, <1>5 DEF ContiguousIsSettled, LinkTypeOK
<1>17. FeedbackInv'
      <2>1. \A x \in Readers : Settled(x) \subseteq Settled(x)'
            BY <1>1, <1>9 DEF Settled
      <2>2. Settled(r)' = obs \cup lost[r] /\ observed'[r] = obs /\ next' = next
            BY <1>1 DEF Settled, LinkTypeOK, ledgerVars
      <2>3. fb.ack \in obs
            BY <1>6 DEF obs
      <2>4. ASSUME NEW x \in Readers, NEW a \in acks'[x]
            PROVE  /\ a.ack \in observed'[x]
                   /\ a.low .. a.contig \subseteq Settled(x)'
                   /\ a.missing \subseteq 1 .. next' - 1
            <3>1. CASE a \in acks[x]
                  BY <1>9, <2>1, <2>2, <3>1 DEF FeedbackInv
            <3>2. CASE x = r /\ a = fb
                  BY <1>7, <1>8, <2>2, <2>3, <3>2
            <3> QED BY <1>11, <3>1, <3>2
      <2> QED BY <2>4 DEF FeedbackInv
<1>18. NoticeInv'
      BY <1>1, <1>10 DEF NoticeInv
<1>19. CountInv'
      <2>1. \A x \in Readers : contig[x] \in 0 .. MaxSeq /\ contig'[x] \in 0 .. MaxSeq
                               /\ contig[x] <= contig'[x]
            BY <1>1, <1>5 DEF LinkTypeOK
      <2>2. \A x \in Readers : 1 .. contig[x] \subseteq 1 .. contig'[x]
            BY <2>1
      <2> QED BY <1>1, <2>2 DEF CountInv
<1>20. Stream!See(r)
      BY <1>1, <1>2, <1>10 DEF Stream!See, obs, ledgerVars
<1> QED BY <1>10, <1>13, <1>14, <1>15, <1>16, <1>17, <1>18, <1>19, <1>20

LEMMA IdleRepairStep ==
  ASSUME LinkInv, NEW r \in Readers, IdleRepair(r)
  PROVE  LinkInv' /\ UNCHANGED <<next, ledger, refused, observed, lost, credited>>
<1> USE RmwBounds DEF LinkInv
<1> DEFINE fb == Feedback(High(r), observed[r], floor[r], contig[r])
<1>1. /\ Missing(observed[r], contig[r]) # {}
      /\ acks' = [acks EXCEPT ![r] = Post(@, fb)]
      /\ UNCHANGED <<ledgerVars, writerVars, data, notices, readerVars>>
      BY DEF IdleRepair
<1>2. /\ observed[r] \in SUBSET Seqs /\ contig[r] \in 0 .. MaxSeq
      /\ observed[r] \subseteq 1 .. next - 1 /\ next - 1 \in Nat
      BY DEF LinkTypeOK, LedgerTypeOK, PublishedInv
<1>3. observed[r] # {}
      BY <1>1, <1>2 DEF Missing, MaxOf
<1>4. High(r) \in observed[r]
      BY <1>2, <1>3, MaxOfFact DEF High, Seqs
<1>5. floor[r] \in Seqs /\ floor[r] .. contig[r] \subseteq Settled(r)
      <2>1. floor[r] >= 1 /\ floor[r] \in 0 .. MaxSeq
            BY <1>3 DEF BaselineInv, LinkTypeOK
      <2> QED BY <1>2, <2>1 DEF ContiguousIsSettled, Settled, Seqs
<1>6. /\ fb \in Feedbacks /\ fb.ack = High(r) /\ fb.contig = contig[r] /\ floor[r] <= fb.low
      /\ fb.missing = Missing(observed[r], contig[r])
      BY <1>2, <1>3, <1>4, <1>5, FeedbackFact
<1>7. fb.missing \subseteq 1 .. next - 1
      BY <1>2, <1>6, MissingFact
<1>8. fb.low .. fb.contig \subseteq Settled(r)
      <2>1. fb.low \in Seqs
            BY <1>6 DEF Feedbacks
      <2>2. fb.low .. fb.contig \subseteq floor[r] .. contig[r]
            BY <1>2, <1>5, <1>6, <2>1 DEF Seqs
      <2> QED BY <1>5, <2>2
<1> HIDE DEF fb
<1>9. \A x \in Readers : \A a \in acks'[x] : a \in acks[x] \/ (x = r /\ a = fb)
      BY <1>1, PostFact DEF LinkTypeOK
<1>10. LedgerTypeOK' /\ CreditedIsSettled' /\ \A x \in Readers : GivenUp(x)' = GivenUp(x)
      BY <1>1, ReaderStep DEF readerVars
<1>11. LinkTypeOK'
      <2>1. acks' \in [Readers -> SUBSET Feedbacks]
            BY <1>1, <1>6, <1>9 DEF LinkTypeOK
      <2> QED BY <1>1, <1>10, <2>1 DEF LinkTypeOK, writerVars, readerVars
<1>12. PublishedInv'
      BY <1>1 DEF PublishedInv, ledgerVars, writerVars, readerVars
<1>13. BaselineInv' /\ ContiguousIsSettled' /\ CountInv'
      BY <1>1 DEF BaselineInv, ContiguousIsSettled, CountInv, readerVars
<1>14. FeedbackInv'
      <2>1. \A x \in Readers : Settled(x)' = Settled(x) /\ observed'[x] = observed[x]
            BY <1>1 DEF Settled, readerVars
      <2>2. next' = next
            BY <1>1 DEF ledgerVars
      <2>3. ASSUME NEW x \in Readers, NEW a \in acks'[x]
            PROVE  /\ a.ack \in observed'[x]
                   /\ a.low .. a.contig \subseteq Settled(x)'
                   /\ a.missing \subseteq 1 .. next' - 1
            <3>1. CASE a \in acks[x]
                  BY <2>1, <2>2, <3>1 DEF FeedbackInv
            <3>2. CASE x = r /\ a = fb
                  BY <1>4, <1>6, <1>7, <1>8, <2>1, <2>2, <3>2
            <3> QED BY <1>9, <3>1, <3>2
      <2> QED BY <2>3 DEF FeedbackInv
<1>15. NoticeInv'
      BY <1>1, <1>10 DEF NoticeInv, readerVars
<1> QED BY <1>1, <1>10, <1>11, <1>12, <1>13, <1>14, <1>15
        DEF ledgerVars, writerVars, readerVars

LEMMA HandleLossNoticeStep ==
  ASSUME LinkInv, NEW r \in Readers, NEW n \in notices[r], HandleLossNotice(r, n)
  PROVE  LinkInv' /\ Stream!Lose(r)
<1> USE RmwBounds DEF LinkInv
<1> DEFINE conf == confirmed[r] \cup n
           end  == LossEnd(observed[r], conf, contig[r])
           new  == CountedLost(observed[r], conf, contig[r], end)
<1>1. /\ \E T \in Received(notices[r], n) : notices' = [notices EXCEPT ![r] = T]
      /\ \/ floor[r] = 0 /\ UNCHANGED readerVars
         \/ /\ floor[r] # 0
            /\ confirmed' = [confirmed EXCEPT ![r] = {s \in conf : s > end}]
            /\ contig' = [contig EXCEPT ![r] = end]
            /\ lost' = [lost EXCEPT ![r] = @ \cup new]
            /\ lostTotal' = [lostTotal EXCEPT ![r] = @ + Cardinality(new)]
            /\ UNCHANGED <<observed, floor>>
      /\ UNCHANGED <<ledgerVars, writerVars, data, acks>>
      BY DEF HandleLossNotice
<1>2. \A x \in Readers : notices'[x] \subseteq notices[x]
      BY <1>1, ReceivedFact DEF LinkTypeOK
<1>3. /\ contig[r] \in 0 .. MaxSeq /\ floor[r] \in 0 .. MaxSeq
      /\ conf \subseteq Seqs /\ conf \subseteq GivenUp(r)
      BY DEF LinkTypeOK, NoticeInv
<1>4. /\ end \in 0 .. MaxSeq /\ contig[r] <= end
      /\ contig[r] + 1 .. end \subseteq observed[r] \cup conf
      BY <1>3, RunEndFact DEF LossEnd
<1>5. new \subseteq conf \cap (contig[r] + 1 .. end)
      BY DEF CountedLost
<1>6. contig[r] + 1 .. end \subseteq observed[r] \cup new
      <2> HIDE DEF conf, end
      <2>1. ASSUME NEW s \in contig[r] + 1 .. end, s \notin observed[r] PROVE s \in new
            <3>1. s \in conf
                  BY <1>4, <2>1
            <3>2. s \in Int /\ s .. s = {s}
                  BY <1>3, <1>4
            <3>3. s \in contig[r] + 1 .. s /\ s .. s \subseteq conf
                  BY <1>3, <1>4, <3>1, <3>2
            <3> QED BY <2>1, <3>1, <3>3 DEF CountedLost
      <2> QED BY <2>1
<1>7. IsFiniteSet(new) /\ Cardinality(new) \in Nat
      BY <1>3, <1>5, FiniteSeqs
<1> HIDE DEF conf, end, new
<1>8. CASE floor[r] = 0
      <2>1. UNCHANGED <<readerVars, ledgerVars, writerVars, data, acks>>
            BY <1>1, <1>8
      <2>2. LedgerTypeOK' /\ CreditedIsSettled' /\ \A x \in Readers : GivenUp(x)' = GivenUp(x)
            BY <2>1, ReaderStep DEF readerVars
      <2>3. notices' \in [Readers -> SUBSET SUBSET Seqs]
            BY <1>1, <1>2 DEF LinkTypeOK
      <2>4. LinkTypeOK'
            BY <2>1, <2>2, <2>3 DEF LinkTypeOK, writerVars, readerVars
      <2>5. BaselineInv' /\ ContiguousIsSettled' /\ FeedbackInv' /\ CountInv'
            BY <2>1, WriterStep DEF ledgerVars
      <2>6. PublishedInv' /\ NoticeInv'
            BY <1>2, <2>1, <2>2 DEF PublishedInv, NoticeInv, ledgerVars, writerVars, readerVars
      <2>7. lost' = [lost EXCEPT ![r] = @ \cup {}]
            BY <2>1 DEF readerVars, LinkTypeOK
      <2>8. Stream!Lose(r)
            BY <2>1, <2>2, <2>7 DEF Stream!Lose, ledgerVars, readerVars
      <2> QED BY <2>2, <2>4, <2>5, <2>6, <2>8
<1>9. CASE floor[r] # 0
      <2>1. /\ confirmed' = [confirmed EXCEPT ![r] = {s \in conf : s > end}]
            /\ contig' = [contig EXCEPT ![r] = end]
            /\ lost' = [lost EXCEPT ![r] = @ \cup new]
            /\ lostTotal' = [lostTotal EXCEPT ![r] = @ + Cardinality(new)]
            /\ UNCHANGED <<observed, floor, ledgerVars, writerVars, data, acks>>
            BY <1>1, <1>9
      <2>2. \A x \in Readers : lost[x] \subseteq lost'[x]
            BY <2>1 DEF LinkTypeOK
      <2>3. LedgerTypeOK' /\ CreditedIsSettled' /\ \A x \in Readers : GivenUp(x)' = GivenUp(x)
            BY <2>1, <2>2, ReaderStep
      <2>4. LinkTypeOK'
            <3>1. notices' \in [Readers -> SUBSET SUBSET Seqs]
                  BY <1>1, <1>2 DEF LinkTypeOK
            <3>2. /\ confirmed' \in [Readers -> SUBSET Seqs]
                  /\ lost' \in [Readers -> SUBSET Seqs]
                  BY <1>3, <1>5, <2>1 DEF LinkTypeOK
            <3>3. contig' \in [Readers -> 0 .. MaxSeq]
                  BY <1>4, <2>1 DEF LinkTypeOK
            <3>4. lostTotal' \in [Readers -> Nat]
                  BY <1>7, <2>1 DEF LinkTypeOK
            <3> QED BY <2>1, <2>3, <3>1, <3>2, <3>3, <3>4 DEF LinkTypeOK, writerVars
      <2>5. PublishedInv'
            BY <2>1 DEF PublishedInv, ledgerVars, writerVars
      <2>6. floor[r] >= 1 /\ floor[r] <= contig[r] /\ floor[r] \in observed[r]
            BY <1>9 DEF BaselineInv
      <2>7. BaselineInv'
            <3>1. floor[r] <= end
                  BY <1>3, <1>4, <2>6
            <3> QED BY <2>1, <2>6, <3>1 DEF BaselineInv, LinkTypeOK
      <2>8. ContiguousIsSettled'
            <3>1. floor[r] .. end \subseteq observed[r] \cup (lost[r] \cup new)
                  <4>1. floor[r] .. contig[r] \subseteq observed[r] \cup lost[r]
                        BY <1>3, <2>6 DEF ContiguousIsSettled
                  <4>2. ASSUME NEW i \in floor[r] .. end
                        PROVE  i \in floor[r] .. contig[r] \/ i \in contig[r] + 1 .. end
                        BY <1>3, <1>4, <2>6
                  <4> QED BY <1>6, <4>1, <4>2
            <3> QED BY <2>1, <3>1 DEF ContiguousIsSettled, LinkTypeOK
      <2>9. FeedbackInv'
            <3>1. \A x \in Readers : Settled(x) \subseteq Settled(x)'
                  BY <2>1, <2>2 DEF Settled
            <3> QED BY <2>1, <3>1 DEF FeedbackInv, ledgerVars
      <2>10. NoticeInv'
            <3>1. {s \in conf : s > end} \subseteq GivenUp(r) /\ lost[r] \cup new \subseteq GivenUp(r)
                  BY <1>3, <1>5 DEF NoticeInv
            <3> QED BY <1>2, <2>1, <2>3, <3>1 DEF NoticeInv, LinkTypeOK
      <2>11. CountInv'
            <3>1. lost[r] \subseteq 1 .. contig[r] /\ lostTotal[r] = Cardinality(lost[r])
                  BY DEF CountInv
            <3>2. lost[r] \cap new = {}
                  BY <1>3, <1>5, <3>1
            <3>3. IsFiniteSet(lost[r]) /\ Cardinality(lost[r]) \in Nat
                  BY FiniteSeqs DEF LinkTypeOK
            <3>4. Cardinality(lost[r] \cup new) = Cardinality(lost[r]) + Cardinality(new)
                  <4>1. Cardinality(lost[r] \cup new) =
                          Cardinality(lost[r]) + Cardinality(new) - Cardinality(lost[r] \cap new)
                        BY <1>7, <3>3, FS_Union
                  <4>2. Cardinality(lost[r] \cap new) = 0
                        BY <3>2, FS_EmptySet
                  <4> QED BY <1>7, <3>3, <4>1, <4>2
            <3>5. lost[r] \cup new \subseteq 1 .. end
                  BY <1>3, <1>4, <1>5, <3>1
            <3> QED BY <2>1, <3>1, <3>4, <3>5 DEF CountInv, LinkTypeOK
      <2>12. Stream!Lose(r)
            <3>1. new \subseteq GivenUp(r)
                  BY <1>3, <1>5
            <3> QED BY <2>1, <2>3, <3>1 DEF Stream!Lose, ledgerVars
      <2> QED BY <2>3, <2>4, <2>5, <2>7, <2>8, <2>9, <2>10, <2>11, <2>12
<1> QED BY <1>8, <1>9

LEMMA DropStep ==
  ASSUME LinkInv, NEW r \in Readers, Drop(r)
  PROVE  LinkInv' /\ UNCHANGED <<next, ledger, refused, observed, lost, credited>>
<1> USE DEF LinkInv
<1>1. UNCHANGED <<ledgerVars, writerVars, readerVars>>
      BY DEF Drop
<1>2. /\ data' \in [Readers -> SUBSET Seqs] /\ acks' \in [Readers -> SUBSET Feedbacks]
      /\ notices' \in [Readers -> SUBSET SUBSET Seqs]
      /\ \A x \in Readers : /\ data'[x] \subseteq data[x]
                            /\ acks'[x] \subseteq acks[x]
                            /\ notices'[x] \subseteq notices[x]
      BY DEF Drop, LinkTypeOK
<1>3. LedgerTypeOK' /\ CreditedIsSettled' /\ \A x \in Readers : GivenUp(x)' = GivenUp(x)
      BY <1>1, ReaderStep DEF readerVars
<1>4. LinkTypeOK'
      BY <1>1, <1>2, <1>3 DEF LinkTypeOK, writerVars, readerVars
<1>5. PublishedInv' /\ NoticeInv'
      BY <1>1, <1>2, <1>3 DEF PublishedInv, NoticeInv, ledgerVars, writerVars, readerVars
<1>6. BaselineInv' /\ ContiguousIsSettled' /\ FeedbackInv' /\ CountInv'
      BY <1>1, <1>2, WriterStep DEF ledgerVars
<1> QED BY <1>1, <1>3, <1>4, <1>5, <1>6 DEF ledgerVars, writerVars, readerVars

\* Every step keeps the invariant and is a step of the abstract stream or none.
LEMMA NextLink == LinkInv /\ [Next]_vars => LinkInv' /\ [Stream!Next]_(Stream!vars)
<1> SUFFICES ASSUME LinkInv, [Next]_vars PROVE LinkInv' /\ [Stream!Next]_(Stream!vars)
    OBVIOUS
<1>0. ASSUME UNCHANGED <<next, ledger, refused, observed, lost, credited>>
      PROVE  UNCHANGED Stream!vars
      BY <1>0 DEF Stream!vars, GivenUp
<1>1. CASE Publish
      BY <1>1, PublishStep DEF Stream!Next
<1>2. ASSUME NEW due \in SUBSET Seqs, RetransmitRound(due)
      PROVE  LinkInv' /\ [Stream!Next]_(Stream!vars)
      BY <1>2, RetransmitStep DEF Stream!Next
<1>3. ASSUME NEW r \in Readers, NEW a \in acks[r], NEW skipped, HandleAckNack(r, a, skipped)
      PROVE  LinkInv' /\ [Stream!Next]_(Stream!vars)
      BY <1>3, HandleAckNackStep DEF Stream!Next
<1>4. ASSUME NEW r \in Readers, NEW s \in Seqs, Deliver(r, s)
      PROVE  LinkInv' /\ [Stream!Next]_(Stream!vars)
      BY <1>4, DeliverStep DEF Stream!Next
<1>5. ASSUME NEW r \in Readers, IdleRepair(r)
      PROVE  LinkInv' /\ [Stream!Next]_(Stream!vars)
      BY <1>0, <1>5, IdleRepairStep
<1>6. ASSUME NEW r \in Readers, NEW n \in notices[r], HandleLossNotice(r, n)
      PROVE  LinkInv' /\ [Stream!Next]_(Stream!vars)
      BY <1>6, HandleLossNoticeStep DEF Stream!Next
<1>7. ASSUME NEW r \in Readers, Drop(r)
      PROVE  LinkInv' /\ [Stream!Next]_(Stream!vars)
      BY <1>0, <1>7, DropStep
<1>8. CASE UNCHANGED vars
      <2> USE <1>8 DEF vars, ledgerVars, writerVars, netVars, readerVars
      <2>1. LinkTypeOK' /\ PublishedInv' /\ CreditedIsSettled' /\ NoticeInv'
            BY DEF LinkInv, LinkTypeOK, LedgerTypeOK, PublishedInv, CreditedIsSettled,
                   NoticeInv, GivenUp
      <2>2. BaselineInv' /\ ContiguousIsSettled' /\ FeedbackInv' /\ CountInv'
            BY WriterStep
      <2> QED BY <1>0, <2>1, <2>2 DEF LinkInv
<1> QED BY <1>1, <1>2, <1>3, <1>4, <1>5, <1>6, <1>7, <1>8 DEF Next

LEMMA LinkAlways == Spec => []LinkInv
BY InitLink, NextLink, PTL DEF Spec

-----------------------------------------------------------------------------
(* The theorems.                                                           *)

\* Sequence state, ledger and datagrams keep their types, and an entry is
\* flagged acknowledged only while the ledger holds it.
THEOREM LinkTypeCorrect == Spec => []LinkTypeOK
<1>1. LinkInv => LinkTypeOK
      BY DEF LinkInv
<1> QED BY <1>1, LinkAlways, PTL

\* handle_ack_nack_feedback takes a subscription off an entry only when the
\* reader has received the sample or was told of its loss, however late,
\* repeated or reordered the feedback frame is.
THEOREM CreditSafe == Spec => []CreditedIsSettled
<1>1. LinkInv => CreditedIsSettled
      BY DEF LinkInv
<1> QED BY <1>1, LinkAlways, PTL

\* The highest contiguous sequence of a reader passes nothing unsettled.
THEOREM ContiguousSafe == Spec => []ContiguousIsSettled
<1>1. LinkInv => ContiguousIsSettled
      BY DEF LinkInv
<1> QED BY <1>1, LinkAlways, PTL

\* message_lost_total_count counts no sample twice.
THEOREM LostCountExact == Spec => []LostOnce
<1>1. LinkInv => LostOnce
      BY DEF LinkInv, CountInv, LostOnce
<1> QED BY <1>1, LinkAlways, PTL

\* A reader counts a sample as lost only when it left the ledger, or when
\* send_retransmission_frame refused that reader its repair: never for a frame
\* that was put off or that the socket failed to send, however late and however
\* often the notices arrive.
THEOREM LossSafe == Spec => []LossHasCause
<1>1. LinkInv => LossHasCause
      BY DEF LinkInv, LinkTypeOK, LedgerTypeOK, NoticeInv, GivenUp, LossHasCause
<1> QED BY <1>1, LinkAlways, PTL

\* The protocol implements the abstract reliable stream.
THEOREM LinkImplementsStream == Spec => ImplementsStream
<1>1. Init => Stream!Init
      BY DEF Init, LedgerInit, Stream!Init, GivenUp
<1> QED BY <1>1, LinkAlways, NextLink, PTL DEF Spec, ImplementsStream, Stream!Spec
==============================================================================
