---------------------------- MODULE RaftGateway ----------------------------
(***************************************************************************)
(* Gateways whose right to write comes from Raft: fleetqox/                *)
(* raft_writer_lease.py and its use in run_service of                      *)
(* scripts/fleetrmw_quic_gateway_service.py.  A gateway waits until its    *)
(* own Raft node leads, takes the term it leads in into its holder id, and *)
(* goes through the SQL lease of GatewayLease; after each renewal it asks  *)
(* its node again.                                                         *)
(*                                                                         *)
(* Raft itself is reduced to what /status shows: the term each node leads  *)
(* in, if it thinks it leads.  A new leader has a term of its own          *)
(* (ElectionSafety of module Raft), and an old one may not know yet.       *)
(***************************************************************************)
EXTENDS GatewayLease

CONSTANTS
    Node,    \* Raft nodes
    Home,    \* the node each gateway is co-located with
    MaxTerm  \* bound on elections

ASSUME HomeAssumption == /\ Home \in [Process -> Node]
                         /\ MaxTerm \in Nat
                         /\ Instance = Node \X (1..MaxTerm)

VARIABLES
    leads,     \* the term a node reports to lead in, 0 when it does not
    term,      \* the latest term anyone was elected in
    asking     \* gateways awaiting the answer to is_still_leader_async

raftVars == <<leads, term, asking>>
allVars  == <<vars, raftVars>>

TermOf(p) == holder[p][2]

RaftInit ==
    /\ Init
    /\ leads = [n \in Node |-> 0]
    /\ term = 0
    /\ asking = {}

\* A majority elects n; the previous leader may not have heard of it.
Elect(n) ==
    /\ term < MaxTerm
    /\ leads[n] = 0
    /\ term' = term + 1
    /\ leads' = [leads EXCEPT ![n] = term + 1]
    /\ UNCHANGED <<vars, asking>>

\* A leader hears of a higher term, of a new leader or of a mere candidate.
Demote(n) ==
    /\ leads[n] > 0
    /\ leads' = [leads EXCEPT ![n] = 0]
    /\ UNCHANGED <<vars, term, asking>>

StartAsLeader_NextTerm(p) ==
    /\ leads[Home[p]] > 0
    /\ Start(p, <<Home[p], leads[Home[p]] + 1>>)
    /\ UNCHANGED raftVars

\* require_leadership returns the term, and the service is configured.
StartAsLeader(p) ==
    /\ leads[Home[p]] > 0
    /\ Start(p, <<Home[p], leads[Home[p]]>>)
    /\ UNCHANGED raftVars

Commits(p) ==
    /\ CommitFrame(p) \/ CommitCursor(p) \/ Unheard(p)
    /\ UNCHANGED raftVars

RenewThenAsk_TrustsRaft(p) ==
    /\ pc[p] = "renewing"
    /\ leads[Home[p]] = TermOf(p)
    /\ row' = [row EXCEPT !.left = Lease - lag[p]]
    /\ Become(p, "serving")
    /\ asking' = asking \cup {p}
    /\ UNCHANGED <<db, holder, token, mem, leads, term>>

\* The renewal task: the SQL row first, then the question to Raft, during
\* which requests are served.
RenewThenAsk(p) ==
    /\ Renew(p)
    /\ asking' = asking \cup {p}
    /\ UNCHANGED <<leads, term>>

StillLeader_Unasked(p) ==
    /\ p \in asking /\ pc[p] = "serving"
    /\ asking' = asking \ {p}
    /\ UNCHANGED <<vars, leads, term>>

StillLeader(p) ==
    /\ p \in asking /\ pc[p] = "serving"
    /\ leads[Home[p]] = TermOf(p)
    /\ asking' = asking \ {p}
    /\ UNCHANGED <<vars, leads, term>>

\* Not leader in that term any more, or no answer: the service stops.
NoLongerLeader(p) ==
    /\ p \in asking /\ pc[p] = "serving"
    /\ Cease(p, "closing")
    /\ asking' = asking \ {p}
    /\ UNCHANGED <<row, db, holder, token, leads, term>>

RenewalDue(p) ==
    /\ p \notin asking
    /\ RenewDue(p)
    /\ UNCHANGED raftVars

\* A process that ends takes its question with it.
Ends(p) ==
    /\ WaitTimesOut(p) \/ Stop(p) \/ Close(p) \/ SeveredStops(p) \/ Crash(p)
    /\ asking' = asking \ {p}
    /\ UNCHANGED <<leads, term>>

AsBefore(p) ==
    /\ \/ AcquireFails(p) \/ Retry(p) \/ Acquire(p) \/ AcquireUnheard(p)
       \/ Recover(p) \/ RecoverFails(p) \/ RecoverUnavailable(p)
       \/ Publish(p) \/ TakeRequest(p) \/ WriteFails(p) \/ RenewFails(p)
    /\ UNCHANGED raftVars

RaftNext ==
    \/ Tick /\ UNCHANGED raftVars
    \/ \E n \in Node : Elect(n)
    \/ \E n \in Node : Demote(n)
    \/ \E p \in Process : StartAsLeader(p)
    \/ \E p \in Process : AsBefore(p)
    \/ \E p \in Process : Commits(p)
    \/ \E p \in Process : RenewalDue(p)
    \/ \E p \in Process : RenewThenAsk(p)
    \/ \E p \in Process : StillLeader(p)
    \/ \E p \in Process : NoLongerLeader(p)
    \/ \E p \in Process : Ends(p)

RaftSpec == RaftInit /\ [][RaftNext]_allVars

\* What GatewayLease's Proceeds(p) stands for.
RaftProceeds(p) ==
    \/ (Retry(p) \/ AcquireFails(p) \/ WriteFails(p) \/ RenewFails(p)) /\ UNCHANGED raftVars
    \/ Commits(p)
    \/ RenewThenAsk(p)
    \/ (Close(p) \/ SeveredStops(p)) /\ Ends(p)

\* GatewayLease's fairness, a store that is available again for recovery too, a
\* renewal task that gets its turn and an answer to its questions to Raft, and a
\* Raft network that is not partitioned for ever: old leaders hear of a
\* successor.
RaftFairness ==
    /\ WF_allVars(Tick /\ UNCHANGED raftVars)
    /\ WF_allVars(\E n \in Node : Demote(n) /\ leads[n] < term)
    /\ \A p \in Process :
         /\ WF_allVars(RaftProceeds(p))
         /\ SF_allVars(Acquire(p) /\ UNCHANGED raftVars)
         /\ SF_allVars(Recover(p) /\ UNCHANGED raftVars)
         /\ SF_allVars(RenewalDue(p) \/ StillLeader(p) \/ NoLongerLeader(p))

FairRaftSpec == RaftSpec /\ RaftFairness

-----------------------------------------------------------------------------
(* Properties *)

\* Type correctness of the Raft side of a gateway, whose holder id names its
\* own node and a term that somebody was elected in.
RaftTypeOK ==
    /\ leads \in [Node -> 0..term]
    /\ term \in 0..MaxTerm
    /\ asking \subseteq Process
    /\ \A p \in Process :
         holder[p] # None => holder[p][1] = Home[p] /\ TermOf(p) \in 1..term

\* "This module does not replace GatewayDurableStore's SQL-based fencing": a
\* gateway that asks Raft takes no step the lease protocol does not allow.
ImplementsLease == Spec

\* "a demoted node stops on its OWN next renewal tick": a gateway whose node
\* has lost the term it started in stops serving.
DemotedStops ==
    \A p \in Process :
        pc[p] = "serving" /\ leads[Home[p]] # TermOf(p)
            ~> pc[p] \in {"closing", "gone"}

Leads(p) == leads[Home[p]] = term /\ TermOf(p) = term

\* A gateway of the elected leader gets the SQL lease, however long the old
\* leader's gateway kept renewing it, unless it is itself deposed or ends.
LeaderTakesOver ==
    \A p \in Process :
        pc[p] \in {"acquiring", "waiting"} /\ Leads(p)
            ~> pc[p] \notin {"acquiring", "waiting"} \/ ~Leads(p)

=============================================================================
