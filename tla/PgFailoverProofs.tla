-------------------------- MODULE PgFailoverProofs --------------------------
(***************************************************************************)
(* Proofs that the failover and failback controllers never leave both      *)
(* databases in charge, for every set of controllers, every threshold and  *)
(* every choice of faults.                                                 *)
(***************************************************************************)
EXTENDS PgFailover, TLAPS

\* A controller that will promote: it has the agent's confirmation, or the
\* confirmation is on its way to it.
Mandate(c) == pc[c] = "promote" \/ (pc[c] = "waiting" /\ call[c] = "fenced")

\* The database such a controller had stopped is still down.
MandateHolds == \A c \in Controller : Mandate(c) => db[Source(c)] = "stopped"

\* The inductive invariant.
FailoverInv == FailoverTypeOK /\ NoSplitBrain /\ MandateHolds

LEMMA SourceType ==
  \A c \in Controller : /\ Source(c) \in Database
                        /\ Target(c) \in Database
                        /\ Target(c) = Other(Source(c))
                        /\ Source(c) # Target(c)
BY DEF Source, Target, Other, Database

LEMMA InitInv == Init => FailoverInv
<1> SUFFICES ASSUME Init PROVE FailoverInv
    OBVIOUS
<1>1. FailoverTypeOK
      BY FailoverAssumption DEF Init, FailoverTypeOK, Database, State, View, Place, Stage
<1>2. NoSplitBrain
      BY DEF Init, NoSplitBrain, Database
<1>3. MandateHolds
      BY DEF Init, MandateHolds, Mandate
<1> QED BY <1>1, <1>2, <1>3 DEF FailoverInv

-----------------------------------------------------------------------------
(* Type correctness.                                                       *)

LEMMA EndsType ==
  ASSUME NEW c \in Controller, FailoverTypeOK, Ends(c)
  PROVE  /\ pc' \in [Controller -> Place]
         /\ seen' \in [Controller -> View]
         /\ count' \in [Controller -> 0 .. Threshold]
BY FailoverAssumption DEF Ends, FailoverTypeOK, Place, View

LEMMA ControllerType ==
  ASSUME NEW c \in Controller, FailoverTypeOK, ControllerStep(c)
  PROVE  FailoverTypeOK'
<1> USE FailoverAssumption
<1> USE SourceType
<1>1. CASE Start(c)
      BY <1>1 DEF Start, FailoverTypeOK, Place
<1>2. CASE Crash(c)
      BY <1>2, EndsType DEF Crash, FailoverTypeOK
<1>3. CASE PollSource(c)
      BY <1>3 DEF PollSource, RecoveryStates, FailoverTypeOK, Place, View
<1>4. CASE PollTarget(c)
      <2>1. PICK target \in RecoveryStates(Target(c)), safe \in BOOLEAN :
              IF target = "primary" /\ seen[c] # "primary"
              THEN Ends(c)
              ELSE LET n == IF ~Counts(c, target, safe) THEN 0
                            ELSE IF count[c] < Threshold THEN count[c] + 1 ELSE Threshold
                   IN /\ count' = [count EXCEPT ![c] = n]
                      /\ pc' = [pc EXCEPT ![c] = IF n = Threshold THEN "acquire" ELSE "poll"]
                      /\ seen' = [seen EXCEPT ![c] = "none"]
            BY <1>4 DEF PollTarget
      <2>2. CASE target = "primary" /\ seen[c] # "primary"
            BY <1>4, <2>1, <2>2, EndsType DEF PollTarget, FailoverTypeOK
      <2>3. CASE ~(target = "primary" /\ seen[c] # "primary")
            <3> DEFINE n == IF ~Counts(c, target, safe) THEN 0
                            ELSE IF count[c] < Threshold THEN count[c] + 1 ELSE Threshold
            <3>1. n \in 0 .. Threshold
                  BY DEF FailoverTypeOK
            <3>2. /\ count' = [count EXCEPT ![c] = n]
                  /\ pc' = [pc EXCEPT ![c] = IF n = Threshold THEN "acquire" ELSE "poll"]
                  /\ seen' = [seen EXCEPT ![c] = "none"]
                  BY <2>1, <2>3
            <3> HIDE DEF n
            <3> QED BY <1>4, <3>1, <3>2 DEF PollTarget, FailoverTypeOK, Place, View
      <2> QED BY <2>2, <2>3
<1>5. CASE Acquire(c)
      BY <1>5 DEF Acquire, FailoverTypeOK, Place, Stage
<1>6. CASE AcquireUnheard(c)
      BY <1>6 DEF AcquireUnheard, FailoverTypeOK, Place
<1>7. CASE AcquireFails(c)
      BY <1>7 DEF AcquireFails, FailoverTypeOK, Place
<1>8. CASE FenceReply(c)
      <2>1. /\ pc' \in [Controller -> Place]
            /\ seen' \in [Controller -> View]
            /\ count' \in [Controller -> 0 .. Threshold]
            BY <1>8, EndsType DEF FenceReply, FailoverTypeOK, Place
      <2> QED BY <1>8, <2>1 DEF FenceReply, FailoverTypeOK, Stage
<1>9. CASE FenceTimesOut(c)
      BY <1>9, EndsType DEF FenceTimesOut, FailoverTypeOK
<1>10. CASE Promote(c)
      BY <1>10, EndsType DEF Promote, FailoverTypeOK, State
<1>11. CASE PromoteFails(c)
      BY <1>11, EndsType DEF PromoteFails, FailoverTypeOK
<1> QED BY <1>1, <1>2, <1>3, <1>4, <1>5, <1>6, <1>7, <1>8, <1>9, <1>10, <1>11
        DEF ControllerStep

LEMMA AgentType ==
  ASSUME NEW c \in Controller, FailoverTypeOK, AgentStep(c)
  PROVE  FailoverTypeOK'
<1> USE SourceType
<1>1. CASE Authorize(c)
      BY <1>1 DEF Authorize, ctlVars, FailoverTypeOK, Stage
<1>2. CASE Stop(c)
      BY <1>2 DEF Stop, ctlVars, FailoverTypeOK, Stage, State
<1>3. CASE AgentFails(c)
      BY <1>3 DEF AgentFails, ctlVars, FailoverTypeOK, Stage
<1>4. CASE Unheard(c)
      BY <1>4 DEF Unheard, ctlVars, FailoverTypeOK, Stage
<1> QED BY <1>1, <1>2, <1>3, <1>4 DEF AgentStep

LEMMA DatabaseType ==
  ASSUME NEW d \in Database, FailoverTypeOK, DatabaseStep(d)
  PROVE  FailoverTypeOK'
<1>1. CASE Expire(d)
      BY <1>1, FailoverAssumption DEF Expire, ctlVars, FailoverTypeOK, Stage
<1>2. CASE Promoted(d)
      BY <1>2 DEF Promoted, ctlVars, FailoverTypeOK, State
<1>3. CASE Dies(d)
      BY <1>3 DEF Dies, ctlVars, FailoverTypeOK, State
<1>4. CASE Rejoin(d)
      BY <1>4 DEF Rejoin, ctlVars, FailoverTypeOK, State
<1> QED BY <1>1, <1>2, <1>3, <1>4 DEF DatabaseStep

-----------------------------------------------------------------------------
(* A mandate lasts as long as the stop that it rests on, and only a        *)
(* mandate puts a database in charge.                                      *)

LEMMA ControllerSafe ==
  ASSUME NEW c \in Controller, FailoverInv, ControllerStep(c)
  PROVE  NoSplitBrain' /\ MandateHolds'
<1> USE SourceType
<1> USE DEF FailoverInv
<1>0. ASSUME UNCHANGED db PROVE NoSplitBrain'
      BY <1>0 DEF NoSplitBrain
<1>e. ASSUME Ends(c), UNCHANGED <<db, call>> PROVE MandateHolds'
      BY <1>e DEF Ends, MandateHolds, Mandate, FailoverTypeOK
<1>1. CASE Start(c)
      BY <1>0, <1>1 DEF Start, MandateHolds, Mandate, FailoverTypeOK
<1>2. CASE Crash(c)
      BY <1>0, <1>e, <1>2 DEF Crash
<1>3. CASE PollSource(c)
      BY <1>0, <1>3 DEF PollSource, MandateHolds, Mandate, FailoverTypeOK
<1>4. CASE PollTarget(c)
      <2>1. UNCHANGED <<db, call>>
            BY <1>4 DEF PollTarget
      <2>2. /\ \A x \in Controller \ {c} : pc'[x] = pc[x]
            /\ pc'[c] \in {"off", "acquire", "poll"}
            BY <1>4 DEF PollTarget, Ends, FailoverTypeOK
      <2> QED BY <1>0, <2>1, <2>2 DEF MandateHolds, Mandate
<1>5. CASE Acquire(c)
      BY <1>0, <1>5 DEF Acquire, MandateHolds, Mandate, FailoverTypeOK
<1>6. CASE AcquireUnheard(c)
      BY <1>0, <1>6 DEF AcquireUnheard, MandateHolds, Mandate, FailoverTypeOK
<1>7. CASE AcquireFails(c)
      BY <1>0, <1>7 DEF AcquireFails, MandateHolds, Mandate, FailoverTypeOK
<1>8. CASE FenceReply(c)
      BY <1>0, <1>8 DEF FenceReply, Ends, MandateHolds, Mandate, FailoverTypeOK
<1>9. CASE FenceTimesOut(c)
      BY <1>0, <1>e, <1>9 DEF FenceTimesOut
<1>10. CASE Promote(c)
      <2>1. db[Source(c)] = "stopped"
            BY <1>10 DEF Promote, MandateHolds, Mandate
      <2>2. /\ db'[Source(c)] = "stopped"
            /\ \A d \in Database : db[d] = "stopped" => db'[d] = "stopped"
            BY <1>10, <2>1 DEF Promote, FailoverTypeOK
      <2>3. NoSplitBrain'
            BY <2>2 DEF NoSplitBrain
      <2>4. \A x \in Controller : Mandate(x)' => Mandate(x)
            BY <1>10 DEF Promote, Ends, Mandate, FailoverTypeOK
      <2> QED BY <2>2, <2>3, <2>4 DEF MandateHolds
<1>11. CASE PromoteFails(c)
      BY <1>0, <1>e, <1>11 DEF PromoteFails
<1> QED BY <1>1, <1>2, <1>3, <1>4, <1>5, <1>6, <1>7, <1>8, <1>9, <1>10, <1>11
        DEF ControllerStep

LEMMA AgentSafe ==
  ASSUME NEW c \in Controller, FailoverInv, AgentStep(c)
  PROVE  NoSplitBrain' /\ MandateHolds'
<1> USE SourceType
<1> USE DEF FailoverInv, ctlVars
<1>1. CASE Authorize(c)
      BY <1>1 DEF Authorize, NoSplitBrain, MandateHolds, Mandate, FailoverTypeOK
<1>2. CASE Stop(c)
      <2>1. \A d \in Database : db'[d] = db[d] \/ db'[d] = "stopped"
            BY <1>2 DEF Stop, FailoverTypeOK
      <2>2. db'[Source(c)] = "stopped"
            BY <1>2 DEF Stop, FailoverTypeOK
      <2>3. \A x \in Controller \ {c} : Mandate(x)' => Mandate(x)
            BY <1>2 DEF Stop, Mandate, FailoverTypeOK
      <2>4. NoSplitBrain'
            BY <2>1 DEF NoSplitBrain
      <2> QED BY <2>1, <2>2, <2>3, <2>4 DEF MandateHolds
<1>3. CASE AgentFails(c)
      BY <1>3 DEF AgentFails, NoSplitBrain, MandateHolds, Mandate, FailoverTypeOK
<1>4. CASE Unheard(c)
      BY <1>4 DEF Unheard, NoSplitBrain, MandateHolds, Mandate, FailoverTypeOK
<1> QED BY <1>1, <1>2, <1>3, <1>4 DEF AgentStep

LEMMA DatabaseSafe ==
  ASSUME NEW d \in Database, FailoverInv, DatabaseStep(d)
  PROVE  NoSplitBrain' /\ MandateHolds'
<1> USE SourceType
<1> USE DEF FailoverInv, ctlVars
<1>1. CASE Expire(d)
      <2>1. UNCHANGED <<db, pc>>
            BY <1>1 DEF Expire
      <2>2. \A x \in Controller : call'[x] = "fenced" => call[x] = "fenced"
            BY <1>1 DEF Expire
      <2> QED BY <2>1, <2>2 DEF NoSplitBrain, MandateHolds, Mandate
<1>2. CASE Promoted(d)
      BY <1>2 DEF Promoted, NoSplitBrain, MandateHolds, Mandate, FailoverTypeOK
<1>3. CASE Dies(d)
      BY <1>3 DEF Dies, NoSplitBrain, MandateHolds, Mandate, FailoverTypeOK
<1>4. CASE Rejoin(d)
      BY <1>4 DEF Rejoin, NoSplitBrain, MandateHolds, Mandate, FailoverTypeOK
<1> QED BY <1>1, <1>2, <1>3, <1>4 DEF DatabaseStep

LEMMA NextInv == FailoverInv /\ [Next]_vars => FailoverInv'
<1> SUFFICES ASSUME FailoverInv, [Next]_vars PROVE FailoverInv'
    OBVIOUS
<1>1. ASSUME NEW c \in Controller, ControllerStep(c) PROVE FailoverInv'
      BY <1>1, ControllerType, ControllerSafe DEF FailoverInv
<1>2. ASSUME NEW c \in Controller, AgentStep(c) PROVE FailoverInv'
      BY <1>2, AgentType, AgentSafe DEF FailoverInv
<1>3. ASSUME NEW d \in Database, DatabaseStep(d) PROVE FailoverInv'
      BY <1>3, DatabaseType, DatabaseSafe DEF FailoverInv
<1>4. CASE UNCHANGED vars
      BY <1>4 DEF vars, FailoverInv, FailoverTypeOK, NoSplitBrain, MandateHolds, Mandate
<1> QED BY <1>1, <1>2, <1>3, <1>4 DEF Next

LEMMA InvAlways == Spec => []FailoverInv
BY InitInv, NextInv, PTL DEF Spec

\* Every part of the state keeps its type, and a key is only ever held by a
\* controller that stops the database it guards.
THEOREM FailoverTypeCorrect == Spec => []FailoverTypeOK
<1>1. FailoverInv => FailoverTypeOK
      BY DEF FailoverInv
<1> QED BY <1>1, InvAlways, PTL

\* The databases are never both in charge, for any number of controllers and
\* whatever crashes, timeouts, expiries and deaths come between their steps.
THEOREM SplitBrainFree == Spec => []NoSplitBrain
<1>1. FailoverInv => NoSplitBrain
      BY DEF FailoverInv
<1> QED BY <1>1, InvAlways, PTL

\* Only Promote tells a standby to leave recovery, and a mandate stands behind
\* it: pg_promote runs only while the other database is down.
THEOREM PromotionSafe == Spec => PromotesOverStopped
<1> DEFINE Safe == \A d \in Database :
      db[d] = "standby" /\ db'[d] = "promoting" => db[Other(d)] = "stopped"
<1>1. FailoverInv /\ [Next]_vars => [Safe]_vars
  <2> SUFFICES ASSUME FailoverInv, Next PROVE Safe
      OBVIOUS
  <2> SUFFICES ASSUME NEW d \in Database, db[d] = "standby", db'[d] = "promoting"
               PROVE  db[Other(d)] = "stopped"
      OBVIOUS
  <2> USE SourceType
  <2>1. ASSUME NEW c \in Controller, ControllerStep(c)
        PROVE  db[Other(d)] = "stopped"
    <3>1. Promote(c)
          BY <2>1 DEF ControllerStep, Start, Crash, PollSource, PollTarget, Acquire,
               AcquireUnheard, AcquireFails, FenceReply, FenceTimesOut, PromoteFails
    <3>2. d = Target(c)
          BY <3>1 DEF Promote, FailoverInv, FailoverTypeOK
    <3>3. db[Source(c)] = "stopped"
          BY <3>1 DEF Promote, FailoverInv, MandateHolds, Mandate
    <3> QED BY <3>2, <3>3 DEF Other, Database
  <2>2. ASSUME NEW c \in Controller, AgentStep(c) PROVE FALSE
        BY <2>2 DEF AgentStep, Authorize, Stop, AgentFails, Unheard, FailoverInv, FailoverTypeOK
  <2>3. ASSUME NEW e \in Database, DatabaseStep(e) PROVE FALSE
        BY <2>3 DEF DatabaseStep, Expire, Promoted, Dies, Rejoin, FailoverInv, FailoverTypeOK
  <2> QED BY <2>1, <2>2, <2>3 DEF Next
<1> QED BY <1>1, InvAlways, PTL DEF Spec, PromotesOverStopped
=============================================================================
