----------------------------- MODULE PgFailover -----------------------------
(***************************************************************************)
(* Automatic failover and planned failback of the PostgreSQL pair behind   *)
(* the gateways.  A controller watches both databases, wins a key in etcd, *)
(* has an agent stop the database in charge, and promotes the other one.   *)
(* Failover controllers watch for a primary that does not answer and use   *)
(* the fence agent (SIGKILL or power off); failback controllers watch for  *)
(* a synchronous standby on the original primary and use the switchover    *)
(* agent (graceful stop).  Controllers are separate processes that may     *)
(* stall between any two calls; agents serve each call in a thread.        *)
(***************************************************************************)
EXTENDS Integers, FiniteSets

CONSTANTS
  Failover,   \* failover controllers, by controller id
  Failback,   \* failback controllers
  NoOne,
  Threshold,  \* failure_threshold, safe_sample_threshold
  Faults      \* what may go wrong here: "crash", "call", "death"

Controller == Failover \cup Failback

ASSUME FailoverAssumption ==
  Failover \cap Failback = {} /\ NoOne \notin Controller /\ Threshold \in Nat \ {0}

Database == {"original", "replica"}
Other(d) == IF d = "original" THEN "replica" ELSE "original"

\* The database a controller has stopped, and the one it promotes.
Source(c) == IF c \in Failover THEN "original" ELSE "replica"
Target(c) == Other(Source(c))

VARIABLES
  db,     \* each database: in charge, in recovery (promoting: told to leave
          \* it), or its container is not running
  key,    \* who holds the etcd key that guards stopping each database
  call,   \* the agent's thread that serves a controller's call
  pc,     \* where each controller is in run_controller
  seen,   \* what it read of its source database
  count   \* primary_failures, safe_samples

vars == <<db, key, call, pc, seen, count>>

State == {"primary", "standby", "promoting", "stopped"}
View  == {"primary", "standby", "none"}
Place == {"off", "poll", "polled", "acquire", "waiting", "promote"}

Stage == {"none", "asked", "allowed", "fenced", "failed"}

Init ==
  /\ db = [d \in Database |-> IF d = "original" THEN "primary" ELSE "standby"]
  /\ key = [d \in Database |-> NoOne]
  /\ call = [c \in Controller |-> "none"]
  /\ pc = [c \in Controller |-> "off"]
  /\ seen = [c \in Controller |-> "none"]
  /\ count = [c \in Controller |-> 0]

ctlVars == <<pc, seen, count>>

\* database_recovery_state: false, true, or no answer, which may also be due to
\* the network.
RecoveryStates(d) ==
  {"none"} \cup (IF db[d] = "stopped" THEN {}
                 ELSE IF db[d] = "primary" THEN {"primary"} ELSE {"standby"})

-----------------------------------------------------------------------------
(* Controllers: run_controller.                                            *)

Start(c) ==
  /\ pc[c] = "off"
  /\ pc' = [pc EXCEPT ![c] = "poll"]
  /\ UNCHANGED <<db, key, call, seen, count>>

\* The process ends, for whatever reason.
Ends(c) ==
  /\ pc' = [pc EXCEPT ![c] = "off"]
  /\ seen' = [seen EXCEPT ![c] = "none"]
  /\ count' = [count EXCEPT ![c] = 0]

\* The process is killed, or its deadline passes.
Crash(c) ==
  /\ "crash" \in Faults
  /\ pc[c] # "off"
  /\ Ends(c)
  /\ UNCHANGED <<db, key, call>>

\* The first of the two questions of a round.
PollSource(c) ==
  /\ pc[c] = "poll"
  /\ \E v \in RecoveryStates(Source(c)) : seen' = [seen EXCEPT ![c] = v]
  /\ pc' = [pc EXCEPT ![c] = "polled"]
  /\ UNCHANGED <<db, key, call, count>>

\* What makes a round count: the source did not answer as the primary; or it
\* did, and it reports a synchronous target that has replayed everything.
Counts(c, target, safe) ==
  IF c \in Failover THEN seen[c] # "primary"
  ELSE safe /\ seen[c] = "primary" /\ target = "standby" /\ db[Source(c)] = "primary"

\* The second question and what follows from both.
PollTarget(c) ==
  /\ pc[c] = "polled"
  /\ \E target \in RecoveryStates(Target(c)), safe \in BOOLEAN :
       IF target = "primary" /\ seen[c] # "primary"
       THEN Ends(c)
       ELSE LET n == IF ~Counts(c, target, safe) THEN 0
                     ELSE IF count[c] < Threshold THEN count[c] + 1 ELSE Threshold
            IN /\ count' = [count EXCEPT ![c] = n]
               /\ pc' = [pc EXCEPT ![c] = IF n = Threshold THEN "acquire" ELSE "poll"]
               /\ seen' = [seen EXCEPT ![c] = "none"]
  /\ UNCHANGED <<db, key, call>>

Acquire_AnyKey(c) ==
  /\ pc[c] = "acquire"
  /\ call[c] = "none"
  /\ \E d \in Database : key[d] = NoOne /\ key' = [key EXCEPT ![d] = c]
  /\ call' = [call EXCEPT ![c] = "asked"]
  /\ pc' = [pc EXCEPT ![c] = "waiting"]
  /\ UNCHANGED <<db, seen, count>>

\* acquire: the transaction creates the key, its answer arrives, and the agent
\* is called.  Bound: a controller is started again after its last call ended.
Acquire(c) ==
  /\ pc[c] = "acquire"
  /\ key[Source(c)] = NoOne
  /\ call[c] = "none"
  /\ key' = [key EXCEPT ![Source(c)] = c]
  /\ call' = [call EXCEPT ![c] = "asked"]
  /\ pc' = [pc EXCEPT ![c] = "waiting"]
  /\ UNCHANGED <<db, seen, count>>

\* The transaction creates the key but its answer is lost: repeated at the next
\* endpoint it finds the key taken, by the controller itself.
AcquireUnheard(c) ==
  /\ pc[c] = "acquire"
  /\ key[Source(c)] = NoOne
  /\ key' = [key EXCEPT ![Source(c)] = c]
  /\ pc' = [pc EXCEPT ![c] = "poll"]
  /\ UNCHANGED <<db, call, seen, count>>

\* The key is taken, or there is no quorum.
AcquireFails(c) ==
  /\ pc[c] = "acquire"
  /\ pc' = [pc EXCEPT ![c] = "poll"]
  /\ UNCHANGED <<db, key, call, seen, count>>

FenceReply_Any(c) ==
  /\ pc[c] = "waiting"
  /\ call[c] \in {"fenced", "failed"}
  /\ pc' = [pc EXCEPT ![c] = "promote"]
  /\ call' = [call EXCEPT ![c] = "none"]
  /\ UNCHANGED <<db, key, seen, count>>

\* The agent's answer: only a confirmed stop leads to the promotion.
FenceReply(c) ==
  /\ pc[c] = "waiting"
  /\ \/ /\ call[c] = "fenced"
        /\ pc' = [pc EXCEPT ![c] = "promote"]
        /\ UNCHANGED <<seen, count>>
     \/ /\ call[c] = "failed"
        /\ Ends(c)
  /\ call' = [call EXCEPT ![c] = "none"]
  /\ UNCHANGED <<db, key>>

\* The call times out; the agent's thread does not hear of it.
FenceTimesOut(c) ==
  /\ "call" \in Faults
  /\ pc[c] = "waiting"
  /\ Ends(c)
  /\ UNCHANGED <<db, key, call>>

\* pg_promote, without another look at the key or at the source.
Promote(c) ==
  /\ pc[c] = "promote"
  /\ db[Target(c)] = "standby"
  /\ db' = [db EXCEPT ![Target(c)] = "promoting"]
  /\ Ends(c)
  /\ UNCHANGED <<key, call>>

\* The target is not in recovery or cannot be reached.
PromoteFails(c) ==
  /\ pc[c] = "promote"
  /\ db[Target(c)] # "standby" \/ "call" \in Faults
  /\ Ends(c)
  /\ UNCHANGED <<db, key, call>>

-----------------------------------------------------------------------------
(* Agents: do_POST of the fence, STONITH and switchover agents, with c the *)
(* caller.                                                                 *)

\* dcs.get finds the lease of the call under the key.
Authorize(c) ==
  /\ call[c] = "asked"
  /\ call' = [call EXCEPT ![c] = "allowed"]
  /\ UNCHANGED <<db, key, ctlVars>>

Stop_Unconfirmed(c) ==
  /\ call[c] = "allowed"
  /\ call' = [call EXCEPT ![c] = "fenced"]
  /\ db' \in {db, [db EXCEPT ![Source(c)] = "stopped"]}
  /\ UNCHANGED <<key, ctlVars>>

\* The kill, reset or stop, and the wait for the database to be down.  It is
\* confirmed only to the call that found it running and stopped it.
Stop(c) ==
  /\ call[c] = "allowed"
  /\ call' = [call EXCEPT ![c] = IF db[Source(c)] = "stopped" THEN "failed" ELSE "fenced"]
  /\ db' = [db EXCEPT ![Source(c)] = "stopped"]
  /\ UNCHANGED <<key, ctlVars>>

\* etcd, Docker or the BMC fails the agent, before the stop or after it.
AgentFails(c) ==
  /\ "call" \in Faults
  /\ call[c] \in {"asked", "allowed", "fenced"}
  /\ call' = [call EXCEPT ![c] = "failed"]
  /\ UNCHANGED <<db, key, ctlVars>>

\* The answer of a thread whose caller has gone is discarded.
Unheard(c) ==
  /\ call[c] \in {"fenced", "failed"}
  /\ pc[c] # "waiting"
  /\ call' = [call EXCEPT ![c] = "none"]
  /\ UNCHANGED <<db, key, ctlVars>>

-----------------------------------------------------------------------------
(* etcd and PostgreSQL.                                                    *)

\* The lease of a key runs out; nothing renews it.  A call that has not been
\* authorized by then will be refused; it takes a slow call for that.
Expire(d) ==
  /\ key[d] # NoOne
  /\ "call" \in Faults \/ \A c \in Controller : Source(c) = d => call[c] # "asked"
  /\ key' = [key EXCEPT ![d] = NoOne]
  /\ call' = [c \in Controller |->
                IF Source(c) = d /\ call[c] = "asked" THEN "failed" ELSE call[c]]
  /\ UNCHANGED <<db, ctlVars>>

\* A promotion completes.
Promoted(d) ==
  /\ db[d] = "promoting"
  /\ db' = [db EXCEPT ![d] = "primary"]
  /\ UNCHANGED <<key, call, ctlVars>>

Dies(d) ==
  /\ "death" \in Faults
  /\ db[d] # "stopped"
  /\ db' = [db EXCEPT ![d] = "stopped"]
  /\ UNCHANGED <<key, call, ctlVars>>

\* A stopped database is rebuilt from the one in charge, as its standby.
\* Assumption: the controllers that had it stopped have ended by then.
Rejoin(d) ==
  /\ db[d] = "stopped"
  /\ db[Other(d)] = "primary"
  /\ \A c \in Controller : Source(c) = d => pc[c] \notin {"waiting", "promote"}
  /\ db' = [db EXCEPT ![d] = "standby"]
  /\ UNCHANGED <<key, call, ctlVars>>

ControllerStep(c) ==
  \/ Start(c) \/ Crash(c)
  \/ PollSource(c) \/ PollTarget(c)
  \/ Acquire(c) \/ AcquireUnheard(c) \/ AcquireFails(c)
  \/ FenceReply(c) \/ FenceTimesOut(c)
  \/ Promote(c) \/ PromoteFails(c)

AgentStep(c) == Authorize(c) \/ Stop(c) \/ AgentFails(c) \/ Unheard(c)

DatabaseStep(d) == Expire(d) \/ Promoted(d) \/ Dies(d) \/ Rejoin(d)

Next ==
  \/ \E c \in Controller : ControllerStep(c) \/ AgentStep(c)
  \/ \E d \in Database : DatabaseStep(d)

Spec == Init /\ [][Next]_vars

\* Controllers are started again, polls and calls end, the key can be won again
\* and again, leases run out and promotions complete.
FairSpec ==
  /\ Spec
  /\ \A c \in Controller :
       /\ WF_vars(Start(c)) /\ WF_vars(PollSource(c)) /\ WF_vars(PollTarget(c))
       /\ SF_vars(Acquire(c)) /\ WF_vars(FenceReply(c)) /\ WF_vars(Promote(c))
       /\ WF_vars(Authorize(c) \/ Stop(c) \/ Unheard(c))
  /\ \A d \in Database : WF_vars(Expire(d)) /\ WF_vars(Promoted(d))

-----------------------------------------------------------------------------
(* Properties.                                                             *)

\* Every part of the state has its type, and a key is held by a controller
\* that stops the database it guards.
FailoverTypeOK ==
  /\ db \in [Database -> State]
  /\ key \in [Database -> Controller \cup {NoOne}]
  /\ call \in [Controller -> Stage]
  /\ pc \in [Controller -> Place]
  /\ seen \in [Controller -> View]
  /\ count \in [Controller -> 0 .. Threshold]
  /\ \A d \in Database : key[d] # NoOne => Source(key[d]) = d

\* The two databases are never in charge at once, although controllers act on
\* keys that have run out, failover and failback hold different keys, and
\* nobody looks again before pg_promote.
NoSplitBrain ==
  \E d \in Database : db[d] \notin {"primary", "promoting"}

\* A standby is promoted only while the other database is down.
PromotesOverStopped ==
  [][\A d \in Database :
       db[d] = "standby" /\ db'[d] = "promoting" => db[Other(d)] = "stopped"]_vars

\* Once the original is lost while its replica runs, the replica is in charge
\* in the end ("automatic database promotion on primary loss").
LossFailsOver ==
  (db["original"] = "stopped" /\ db["replica"] = "standby")
    ~> (db["replica"] \in {"primary", "stopped"})
=============================================================================
