------------------------------- MODULE RmwLink -------------------------------
(***************************************************************************)
(* The ACK/NACK protocol of rmw_fleetqox_cpp between one reliable          *)
(* publisher and the reliable subscriptions of its topic: data frames,     *)
(* feedback frames and loss notices travel in UDP datagrams that are lost, *)
(* repeated and overtaken.                                                 *)
(***************************************************************************)
EXTENDS RmwLedger

CONSTANTS
  MaxTimeouts,  \* FLEETQOX_RMW_RELIABLE_MAX_RETRANSMISSIONS, 0 with no ACK timeout
  Limits,       \* limits of attempts a frame may meet when it is asked for
  MaxAttempts,  \* bound: the highest of these limits
  MaxInFlight   \* bound: feedback frames, and notices, in flight per reader

\* No attempt is allowed: the repair plan does not admit the frame, or the
\* process has used up its retransmission budget.  0 is no limit.
NotAdmitted == -1

ASSUME LinkBounds ==
  /\ MaxTimeouts \in Nat /\ MaxAttempts \in Nat /\ MaxInFlight \in Nat
  /\ Limits \subseteq NotAdmitted .. MaxAttempts

VARIABLES
  timeouts,   \* timeout_retransmissions of each entry, 0 without one
  attempts,   \* repair_attempts_: repairs sent of each sequence
  refused,    \* history: sequences whose repair each reader was refused
  data,       \* data frames in flight to each reader, by sequence
  acks,       \* feedback frames in flight from each reader
  notices,    \* loss notices in flight to each reader
  observed,   \* observed_sequences of each reader
  floor,      \* cumulative_ack_floor, 0 until the first frame
  contig,     \* highest_contiguous_sequence
  confirmed,  \* sequences in confirmed_lost_ranges
  lost,       \* history: sequences that were counted as lost
  lostTotal   \* message_lost_total_count

writerVars == <<timeouts, attempts, refused>>
netVars == <<data, acks, notices>>
readerVars == <<observed, floor, contig, confirmed, lost, lostTotal>>
vars == <<ledgerVars, writerVars, netVars, readerVars>>

-----------------------------------------------------------------------------
(* Readers: SequenceState and the feedback made from it.                   *)

MaxOf(S) == IF S = {} THEN 0 ELSE CHOOSE m \in S : \A s \in S : s <= m
MinOf(S) == CHOOSE m \in S : \A s \in S : m <= s

RunEnd_SkipsGap(S, n) == MaxOf({n} \cup S)

\* The last sequence of the unbroken run in S that follows n.
RunEnd(S, n) == MaxOf({n} \cup {m \in Seqs : m > n /\ n + 1 .. m \subseteq S})

High(r) == MaxOf(observed[r])

\* The sequences a reader asks for again.
Missing(obs, ctg) == ctg + 1 .. MaxOf(obs) \ obs

Feedback_NoFloor(s, obs, flr, ctg) ==
  [ack |-> s, low |-> MinOf(obs), contig |-> ctg, missing |-> Missing(obs, ctg)]

\* feedback_from_sequence_state, sent as an answer to sequence s.
Feedback(s, obs, flr, ctg) ==
  [ack     |-> s,
   low     |-> MaxOf({MinOf(obs), flr}),
   contig  |-> ctg,
   missing |-> Missing(obs, ctg)]

Feedbacks == [ack : Seqs, low : Seqs, contig : 0 .. MaxSeq, missing : SUBSET Seqs]

Acknowledges_UpTo(a, s) == s <= a.ack

\* ack_nack_acknowledges_sequence.
Acknowledges(a, s) == s = a.ack \/ s \in a.low .. a.contig

\* A datagram more than the network holds is dropped.
Post(S, m) == IF Cardinality(S) < MaxInFlight THEN S \cup {m} ELSE S

\* A datagram that is received may arrive again.
Received(S, m) == {S, S \ {m}}

LinkTypeOK ==
  /\ LedgerTypeOK
  /\ timeouts \in [Seqs -> 0 .. MaxTimeouts]
  /\ attempts \in [Seqs -> 0 .. MaxAttempts]
  /\ refused \in [Readers -> SUBSET Seqs]
  /\ data \in [Readers -> SUBSET Seqs]
  /\ acks \in [Readers -> SUBSET Feedbacks]
  /\ notices \in [Readers -> SUBSET SUBSET Seqs]
  /\ observed \in [Readers -> SUBSET Seqs]
  /\ floor \in [Readers -> 0 .. MaxSeq]
  /\ contig \in [Readers -> 0 .. MaxSeq]
  /\ confirmed \in [Readers -> SUBSET Seqs]
  /\ lost \in [Readers -> SUBSET Seqs]
  /\ lostTotal \in [Readers -> Nat]

Init ==
  /\ LedgerInit
  /\ timeouts = [s \in Seqs |-> 0]
  /\ attempts = [s \in Seqs |-> 0]
  /\ refused = [r \in Readers |-> {}]
  /\ data = [r \in Readers |-> {}]
  /\ acks = [r \in Readers |-> {}]
  /\ notices = [r \in Readers |-> {}]
  /\ observed = [r \in Readers |-> {}]
  /\ floor = [r \in Readers |-> 0]
  /\ contig = [r \in Readers |-> 0]
  /\ confirmed = [r \in Readers |-> {}]
  /\ lost = [r \in Readers |-> {}]
  /\ lostTotal = [r \in Readers |-> 0]

Broadcast(S) == data' = [r \in Readers |-> data[r] \cup S]

-----------------------------------------------------------------------------
(* The writer.                                                             *)

\* publish_payload: the graph may know of any of the subscriptions.
Publish ==
  /\ \E M \in SUBSET Readers : AddToLedger(M)
  /\ timeouts' = [s \in Seqs |-> IF s \in ledger' THEN timeouts[s] ELSE 0]
  /\ Broadcast({next})
  /\ UNCHANGED <<attempts, refused, acks, notices, readerVars>>

\* One round of reliable_retransmit_loop: acknowledged entries are erased and
\* those whose timeout has run out are sent again.
RetransmitRound(due) ==
  /\ MaxTimeouts > 0
  /\ due \subseteq {s \in ledger \ acknowledged : timeouts[s] < MaxTimeouts}
  /\ due \cup acknowledged # {}
  /\ ledger' = ledger \ acknowledged
  /\ acknowledged' = {}
  /\ timeouts' = [s \in Seqs |-> IF s \in due THEN timeouts[s] + 1
                                 ELSE IF s \in ledger' THEN timeouts[s] ELSE 0]
  /\ Broadcast(due)
  /\ UNCHANGED <<next, pending, credited, attempts, refused, acks, notices, readerVars>>

\* send_retransmission_frame answers UNSUPPORTED.  The limit is read from the
\* plan at every call and the budget is shared with the other publishers of the
\* process, so a frame may meet any of Limits whenever it is asked for.
RepairRefused(s, limit) ==
  \/ limit = NotAdmitted
  \/ limit > 0 /\ attempts[s] >= limit

Terminal_Unsent(a, skipped, sent) == a.missing \ sent

\* What goes into the loss notice: what the ledger no longer holds, and the
\* frames that were refused.
Terminal(a, skipped, sent) == a.missing \ (skipped \cup sent)

\* handle_ack_nack_feedback for feedback a of subscription r: the entries it
\* names as missing are sent again unless send_retransmission_frame refuses or
\* skips them.  A skipped frame was asked for within the minimum interval before,
\* or the socket failed: it is neither sent nor counted nor reported.
HandleAckNack(r, a, skipped) ==
  LET asked == a.missing \cap ledger
  IN \E limit \in [asked -> Limits] :
       LET refusals == {s \in asked \ skipped : RepairRefused(s, limit[s])}
           sent     == (asked \ skipped) \ refusals
           terminal == Terminal(a, skipped, sent)
       IN /\ a \in acks[r]
          /\ skipped \subseteq {s \in asked : limit[s] # NotAdmitted}
          /\ acks' \in {[acks EXCEPT ![r] = S] : S \in Received(acks[r], a)}
          /\ Acknowledge(r, {s \in ledger : Acknowledges(a, s)})
          /\ attempts' = [s \in Seqs |-> IF s \in sent /\ attempts[s] < MaxAttempts
                                        THEN attempts[s] + 1 ELSE attempts[s]]
          /\ refused' = [refused EXCEPT ![r] = @ \cup refusals]
          /\ Broadcast(sent)
          /\ notices' = IF terminal = {} THEN notices
                        ELSE [notices EXCEPT ![r] = Post(@, terminal)]
          /\ UNCHANGED <<next, ledger, timeouts, readerVars>>

-----------------------------------------------------------------------------
(* The readers.                                                            *)

\* A data frame arrives: observe_frame, the baseline of the first frame of the
\* stream, and the feedback that is sent for every frame, repeated ones too.
Deliver(r, s) ==
  LET obs == observed[r] \cup {s}
      flr == IF floor[r] = 0 THEN s ELSE floor[r]
      ctg == IF floor[r] = 0 THEN s ELSE RunEnd(obs, contig[r])
  IN /\ s \in data[r]
     /\ data' \in {[data EXCEPT ![r] = S] : S \in Received(data[r], s)}
     /\ observed' = [observed EXCEPT ![r] = obs]
     /\ floor' = [floor EXCEPT ![r] = flr]
     /\ contig' = [contig EXCEPT ![r] = ctg]
     /\ acks' = [acks EXCEPT ![r] = Post(@, Feedback(s, obs, flr, ctg))]
     /\ UNCHANGED <<ledgerVars, writerVars, notices, confirmed, lost, lostTotal>>

\* take on an empty queue asks again for what is missing: idle_repair_ack_nacks.
IdleRepair(r) ==
  /\ Missing(observed[r], contig[r]) # {}
  /\ acks' = [acks EXCEPT
       ![r] = Post(@, Feedback(High(r), observed[r], floor[r], contig[r]))]
  /\ UNCHANGED <<ledgerVars, writerVars, data, notices, readerVars>>

LossEnd_StopsAtRange(obs, conf, ctg) == RunEnd(conf, ctg)

\* How far apply_confirmed_lost_ranges advances: over what was received and
\* what is confirmed lost.
LossEnd(obs, conf, ctg) == RunEnd(obs \cup conf, ctg)

CountedLost_FromStart(obs, conf, ctg, end) ==
  {s \in conf \cap (1 .. end) : \E t \in 1 .. s : t \notin obs /\ t .. s \subseteq conf}

\* What apply_confirmed_lost_ranges counts as it advances from ctg to end: whole
\* confirmed ranges, from the first sequence of each that was not observed.
CountedLost(obs, conf, ctg, end) ==
  {s \in conf \cap (ctg + 1 .. end) :
     \E t \in ctg + 1 .. s : t \notin obs /\ t .. s \subseteq conf}

\* handle_unrecoverable_loss_notice: ignored before the first frame.
HandleLossNotice(r, n) ==
  LET conf == confirmed[r] \cup n
      end  == LossEnd(observed[r], conf, contig[r])
      new  == CountedLost(observed[r], conf, contig[r], end)
  IN /\ n \in notices[r]
     /\ notices' \in {[notices EXCEPT ![r] = S] : S \in Received(notices[r], n)}
     /\ IF floor[r] = 0 THEN UNCHANGED readerVars
        ELSE /\ confirmed' = [confirmed EXCEPT ![r] = {s \in conf : s > end}]
             /\ contig' = [contig EXCEPT ![r] = end]
             /\ lost' = [lost EXCEPT ![r] = @ \cup new]
             /\ lostTotal' = [lostTotal EXCEPT ![r] = @ + Cardinality(new)]
             /\ UNCHANGED <<observed, floor>>
     /\ UNCHANGED <<ledgerVars, writerVars, data, acks>>

\* A datagram is lost.
Drop(r) ==
  /\ \/ /\ \E s \in data[r] : data' = [data EXCEPT ![r] = @ \ {s}]
        /\ UNCHANGED <<acks, notices>>
     \/ /\ \E a \in acks[r] : acks' = [acks EXCEPT ![r] = @ \ {a}]
        /\ UNCHANGED <<data, notices>>
     \/ /\ \E n \in notices[r] : notices' = [notices EXCEPT ![r] = @ \ {n}]
        /\ UNCHANGED <<data, acks>>
  /\ UNCHANGED <<ledgerVars, writerVars, readerVars>>

Next ==
  \/ Publish
  \/ \E due \in SUBSET Seqs : RetransmitRound(due)
  \/ \E r \in Readers :
       \/ \E a \in acks[r] : \E skipped \in SUBSET a.missing : HandleAckNack(r, a, skipped)
       \/ \E s \in Seqs : Deliver(r, s)
       \/ IdleRepair(r)
       \/ \E n \in notices[r] : HandleLossNotice(r, n)
       \/ Drop(r)

Spec == Init /\ [][Next]_vars

\* A reader takes again and again, and a datagram that is sent again and again
\* is received in the end, at a time when no frame it asks for is skipped: the
\* minimum interval runs out.  Nobody need publish.
FairSpec ==
  /\ Spec
  /\ \A r \in Readers :
       /\ WF_vars(IdleRepair(r))
       /\ SF_vars(\E a \in acks[r] : HandleAckNack(r, a, {}) /\ a \notin acks'[r])
       /\ SF_vars(\E n \in notices[r] : HandleLossNotice(r, n) /\ n \notin notices'[r])
       /\ \A s \in Seqs : SF_vars(Deliver(r, s) /\ s \notin data'[r])

-----------------------------------------------------------------------------
(* Properties.                                                             *)

\* A subscription the writer has taken off the list of an entry has received
\* the sample or was told that it is lost: cumulative acknowledgements never
\* cover a sample whose fate the reader does not know.
CreditedIsSettled ==
  \A r \in Readers : credited[r] \subseteq observed[r] \cup lost[r]

\* Everything between a reader's baseline and its highest contiguous sequence
\* was received or counted as lost.
ContiguousIsSettled ==
  \A r \in Readers : floor[r] .. contig[r] \ {0} \subseteq observed[r] \cup lost[r]

\* RMW_EVENT_MESSAGE_LOST counts a sample once, whatever notices are repeated.
LostOnce == \A r \in Readers : lostTotal[r] = Cardinality(lost[r])

\* A sample is counted as lost only for a reason the writer had: it left the
\* ledger, or the repair that reader asked for was refused while the ledger held
\* it.  A repair that was only put off or that the socket failed to send is no
\* reason.  A sample that was refused may still arrive: the timeout loop sends it.
LossHasCause ==
  \A r \in Readers : \A s \in lost[r] : s < next /\ (s \in ledger => s \in refused[r])

\* The gaps a reader knows of close again and again: every sample it misses
\* arrives, or a notice says that it is lost.
CatchesUp == \A r \in Readers : []<>(contig[r] >= High(r))

\* What the writer has given up for reader r.
GivenUp(r) == {s \in 1 .. next - 1 : s \notin ledger \/ s \in refused[r]}

\* Each step of the protocol is a step of the abstract reliable stream.
Stream == INSTANCE ReliableStream WITH
  published <- next - 1,
  gone      <- [r \in Readers |-> GivenUp(r)],
  seen      <- observed

ImplementsStream == Stream!Spec
=============================================================================
