----------------------- MODULE LocalControlLeaseProofs -----------------------
(***************************************************************************)
(* Proofs about LocalControlLease, for every policy, every set of commands *)
(* and lifespans and any number of leases: type correctness, freshness of  *)
(* what drives the robot, and the limit on its acceleration.               *)
(***************************************************************************)
EXTENDS LocalControlLease, TLAPS

\* A numbered lease in force ends within the lifespan its id first came with,
\* and no later id was ever accepted.
GrantInv ==
  numbered =>
    /\ active = NoLease => \A i \in 1 .. MaxId : granted[i] = NoGrant
    /\ active # NoLease =>
         /\ granted[active.id].at >= 0
         /\ active.expires <= granted[active.id].at + granted[active.id].life
         /\ active.expires <= granted[active.id].at + MaxLife
         /\ \A i \in 1 .. MaxId : i > active.id => granted[i] = NoGrant

\* The inductive invariant.
ControlInv == ControlTypeOK /\ CommandIsFresh /\ OneLifespan /\ GrantInv

-----------------------------------------------------------------------------
(* The limiter.                                                            *)

LEMMA ClampFact ==
  ASSUME NEW x \in Int, NEW b \in Nat
  PROVE  Clamp(x, b) \in -b .. b
BY DEF Clamp

\* Whatever the step, the result stays within the bounds of both ends.
LEMMA StepTowardFact ==
  ASSUME NEW b \in Nat, NEW p \in -b .. b, NEW t \in -b .. b, NEW s \in Int
  PROVE  StepToward(p, t, s) \in -b .. b
BY DEF StepToward

LEMMA TimesMonotone ==
  \A a, b, d \in Int : a <= b /\ d >= 0 => a * d <= b * d
OBVIOUS

LEMMA ProductBound ==
  ASSUME NEW b \in Nat, NEW a \in -b .. b, NEW d \in Nat
  PROVE  a * d <= b * d /\ -(a * d) <= b * d
<1>1. a \in Int /\ a <= b /\ -a <= b /\ -a \in Int
      OBVIOUS
<1>2. a * d <= b * d /\ (-a) * d <= b * d
      BY <1>1, TimesMonotone
<1>3. -(a * d) = (-a) * d
      BY <1>1
<1> QED BY <1>2, <1>3

LEMMA LimitedAccelFact ==
  ASSUME ControlTypeOK, ~Unlimited, NEW speed \in Int
  PROVE  LimitedAccel(speed) \in -MaxAccel .. MaxAccel
<1> DEFINE dt == now - outputAt
           want == (speed - output) \div dt
<1>1. dt \in Nat \ {0}
      BY ControlAssumption DEF ControlTypeOK, Unlimited, Times
<1>2. want \in Int
      BY <1>1 DEF ControlTypeOK
<1>3. Clamp(want, MaxAccel) \in -MaxAccel .. MaxAccel
      BY <1>2, ControlAssumption, ClampFact
<1>4. MaxJerk * dt \in Int
      BY <1>1, ControlAssumption
<1>5. LimitedAccel(speed) = StepToward(accel, Clamp(want, MaxAccel), MaxJerk * dt)
      BY DEF LimitedAccel
<1> HIDE DEF dt, want
<1>6. accel \in -MaxAccel .. MaxAccel
      BY DEF ControlTypeOK
<1> QED BY <1>3, <1>4, <1>5, <1>6, ControlAssumption, StepTowardFact

\* What Drive leaves behind.
LEMMA DriveFact ==
  ASSUME ControlTypeOK, NEW l, NEW speed \in Commands, NEW heard, Drive(l, speed, heard)
  PROVE  /\ output' \in Int /\ outputAt' = now /\ accel' \in -MaxAccel .. MaxAccel
         /\ published' = [kind |-> "drive", speed |-> output', at |-> now,
                          heard |-> heard, id |-> l.id]
         /\ ~Unlimited => output' - output = accel' * (now - outputAt)
<1> DEFINE bounded == Clamp(speed, MaxSpeed)
           a == IF Unlimited THEN 0 ELSE LimitedAccel(bounded)
           safe == IF Unlimited THEN bounded ELSE output + a * (now - outputAt)
<1>1. /\ output' = safe /\ outputAt' = now /\ accel' = a
      /\ published' = Twist("drive", safe, heard, l)
      BY DEF Drive
<1>2. bounded \in Int
      BY ControlAssumption, ClampFact
<1>3. a \in -MaxAccel .. MaxAccel
      <2> HIDE DEF bounded
      <2> QED BY <1>2, LimitedAccelFact, ControlAssumption
<1>4. output \in Int /\ now - outputAt \in Int
      BY ControlAssumption DEF ControlTypeOK, Times
<1>5. a \in Int
      BY <1>3, ControlAssumption
<1> HIDE DEF bounded, a
<1>6. safe \in Int
      <2>1. a * (now - outputAt) \in Int
            BY <1>4, <1>5
      <2> QED BY <1>2, <1>4, <2>1
<1>7. ~Unlimited => safe - output = a * (now - outputAt)
      <2>1. a * (now - outputAt) \in Int
            BY <1>4, <1>5
      <2> QED BY <1>4, <2>1
<1> QED BY <1>1, <1>3, <1>6, <1>7 DEF Twist

-----------------------------------------------------------------------------
(* The invariant.                                                          *)

LEMMA ControlInit == Init => ControlInv
<1> SUFFICES ASSUME Init PROVE ControlInv
    OBVIOUS
<1>1. ControlTypeOK
      BY ControlAssumption DEF Init, ControlTypeOK, Times, NoId, NoGrant
<1>2. CommandIsFresh /\ OneLifespan /\ GrantInv
      BY DEF Init, CommandIsFresh, OneLifespan, GrantInv
<1> QED BY <1>1, <1>2 DEF ControlInv

LEMMA LeaseStep ==
  ASSUME ControlInv, NEW id \in Ids, NEW lifespan \in Lifespans, LeaseCallback(id, lifespan)
  PROVE  ControlInv'
<1> USE ControlAssumption
<1> DEFINE life == IF lifespan < MaxLife THEN lifespan ELSE MaxLife
           l == [id |-> id, expires |-> now + life]
<1>1. /\ l.expires < MaxTime /\ ~Stale(id) /\ active' = l
      /\ granted' = [granted EXCEPT ![id] =
           IF @ = NoGrant THEN [at |-> now, life |-> lifespan] ELSE @]
      /\ \/ Replays(l) /\ pending' = NoCommand /\ Drive(l, pending.speed, pending.at)
         \/ UNCHANGED <<pending, limitVars, published>>
      /\ UNCHANGED <<now, policyVars, fallback>>
      BY DEF LeaseCallback
<1>2. /\ life \in Nat /\ life <= MaxLife /\ life <= lifespan /\ lifespan \in Nat /\ now \in Times
      /\ id \in 0 .. MaxId /\ l.id = id /\ l.expires = now + life
      BY DEF ControlInv, ControlTypeOK, Ids, NoId
<1>3. now + life \in Times
      BY <1>1, <1>2 DEF Times
<1> HIDE DEF life
<1>4. ControlTypeOK
      BY DEF ControlInv
<1>5. Ids' = Ids
      BY <1>1 DEF Ids, policyVars
<1>6. l \in [id : Ids, expires : Times]
      BY <1>3
<1>7. granted' \in [0 .. MaxId -> [at : -1 .. now, life : Nat]]
      BY <1>1, <1>2, <1>4 DEF ControlTypeOK, Times
<1>8. l # NoLease
      BY <1>2, <1>3 DEF NoLease, Times
<1>9. GrantInv'
      <2> SUFFICES ASSUME numbered
                   PROVE  /\ granted'[id].at >= 0
                          /\ now + life <= granted'[id].at + granted'[id].life
                          /\ now + life <= granted'[id].at + MaxLife
                          /\ \A i \in 1 .. MaxId : i > id => granted'[i] = NoGrant
          BY <1>1, <1>2, <1>8 DEF GrantInv, policyVars
      <2>1. id \in 1 .. MaxId
            BY DEF Ids
      <2>2. /\ granted[id] = NoGrant
            /\ \A i \in 1 .. MaxId : i > id => granted[i] = NoGrant
            <3>1. CASE active = NoLease
                  BY <2>1, <3>1 DEF ControlInv, GrantInv
            <3>2. CASE active # NoLease
                  <4>1. active.id \in 1 .. MaxId
                        BY <1>4, <3>2 DEF ControlTypeOK, Ids
                  <4>2. active.id < id
                        BY <1>1, <2>1, <3>2, <4>1 DEF Stale, NoId
                  <4>3. \A i \in 1 .. MaxId : i > active.id => granted[i] = NoGrant
                        BY <3>2 DEF ControlInv, GrantInv
                  <4> QED BY <2>1, <4>1, <4>2, <4>3
            <3> QED BY <3>1, <3>2
      <2>3. /\ granted'[id] = [at |-> now, life |-> lifespan]
            /\ \A i \in 1 .. MaxId : i > id => granted'[i] = granted[i]
            BY <1>1, <1>2, <1>4, <2>1, <2>2 DEF ControlTypeOK
      <2>4. granted'[id].at = now /\ granted'[id].life = lifespan
            BY <2>3
      <2> QED BY <1>2, <2>2, <2>3, <2>4 DEF Times
<1>10. \A i \in 0 .. MaxId : granted[i] # NoGrant => granted'[i] = granted[i]
      BY <1>1, <1>2, <1>4 DEF ControlTypeOK
<1>11. CASE UNCHANGED <<pending, limitVars, published>>
      <2>1. ControlTypeOK'
            BY <1>1, <1>4, <1>5, <1>6, <1>7, <1>11 DEF ControlTypeOK, limitVars, policyVars
      <2>2. CommandIsFresh'
            BY <1>11 DEF ControlInv, CommandIsFresh
      <2>3. OneLifespan'
            BY <1>1, <1>4, <1>10, <1>11
               DEF ControlInv, OneLifespan, ControlTypeOK, policyVars, NoGrant
      <2> QED BY <1>9, <2>1, <2>2, <2>3 DEF ControlInv
<1>12. CASE Replays(l) /\ pending' = NoCommand /\ Drive(l, pending.speed, pending.at)
      <2>1. pending \in [speed : Commands, at : 0 .. now] /\ now - pending.at <= Window
            BY <1>4, <1>12 DEF Replays, ControlTypeOK
      <2>2. /\ output' \in Int /\ outputAt' = now /\ accel' \in -MaxAccel .. MaxAccel
            /\ published' = [kind |-> "drive", speed |-> output', at |-> now,
                             heard |-> pending.at, id |-> l.id]
            BY <1>4, <1>12, <2>1, DriveFact
      <2>3. ControlTypeOK'
            <3>1. published' \in [kind : {"none", "drive", "stop", "hold"}, speed : Int,
                                  at : 0 .. now, heard : 0 .. now, id : 0 .. MaxId]
                  BY <1>2, <2>1, <2>2 DEF Times
            <3>2. outputAt' \in -1 .. now
                  BY <1>2, <2>2 DEF Times
            <3> QED BY <1>1, <1>4, <1>5, <1>6, <1>7, <1>12, <2>2, <3>1, <3>2
                    DEF ControlTypeOK, policyVars
      <2>4. CommandIsFresh'
            BY <2>1, <2>2 DEF CommandIsFresh
      <2>5. OneLifespan'
            <3>1. numbered' => /\ granted'[id].at >= 0
                               /\ now + life <= granted'[id].at + granted'[id].life
                               /\ now + life <= granted'[id].at + MaxLife
                  BY <1>1, <1>2, <1>8, <1>9 DEF GrantInv
            <3>2. granted'[id].at \in Int /\ granted'[id].life \in Int
                  BY <1>2, <1>7 DEF Times
            <3>3. now <= now + life
                  BY <1>2 DEF Times
            <3>4. numbered' => /\ now <= granted'[id].at + granted'[id].life
                               /\ now <= granted'[id].at + MaxLife
                  BY <1>2, <3>1, <3>2, <3>3 DEF Times
            <3>5. published'.at = now /\ published'.id = id
                  BY <1>2, <2>2
            <3> QED BY <3>1, <3>4, <3>5 DEF OneLifespan
      <2> QED BY <1>9, <2>3, <2>4, <2>5 DEF ControlInv
<1> QED BY <1>1, <1>11, <1>12

\* _expiry_decision publishes nothing that drives.
LEMMA ExpiryStep ==
  ASSUME ControlInv, active # NoLease, ExpiryDecision,
         UNCHANGED <<now, policyVars, active, pending, granted>>
  PROVE  ControlInv'
<1> USE ControlAssumption
<1>1. ControlTypeOK
      BY DEF ControlInv
<1>2. Ids' = Ids /\ active.id \in Ids /\ active.id \in 0 .. MaxId
      BY <1>1 DEF Ids, policyVars, ControlTypeOK, NoId
<1>3. fallback' \subseteq Ids
      BY <1>1, <1>2 DEF ExpiryDecision, ControlTypeOK
<1>4. GrantInv'
      BY DEF ControlInv, GrantInv, policyVars
<1> DEFINE Twists == [kind : {"none", "drive", "stop", "hold"}, speed : Int,
                      at : 0 .. now, heard : 0 .. now, id : 0 .. MaxId]
<1>5. now \in Times /\ now \in 0 .. now
      BY <1>1 DEF ControlTypeOK, Times
<1>6. CASE FallbackStop
      <2>1. published' = [kind |-> "stop", speed |-> 0, at |-> now, heard |-> now, id |-> active.id]
            BY <1>6 DEF FallbackStop, Twist
      <2>2. output' \in Int /\ outputAt' \in -1 .. now /\ accel' \in -MaxAccel .. MaxAccel
            BY <1>5, <1>6 DEF FallbackStop, Times
      <2>3. ControlTypeOK'
            <3>1. published' \in Twists
                  BY <1>2, <1>5, <2>1
            <3> HIDE DEF Twists
            <3> QED BY <1>1, <1>2, <1>3, <2>2, <3>1 DEF ControlTypeOK, policyVars, Twists
      <2>4. CommandIsFresh' /\ OneLifespan'
            BY <2>1 DEF CommandIsFresh, OneLifespan
      <2> QED BY <1>4, <2>3, <2>4 DEF ControlInv
<1>7. CASE FallbackHold
      <2>1. published' = [kind |-> "hold", speed |-> output, at |-> now, heard |-> now, id |-> active.id]
            BY <1>7 DEF FallbackHold, Twist
      <2>2. ControlTypeOK'
            <3>1. output \in Int
                  BY <1>1 DEF ControlTypeOK
            <3>2. published' \in Twists
                  BY <1>2, <1>5, <2>1, <3>1
            <3> HIDE DEF Twists
            <3> QED BY <1>1, <1>2, <1>3, <1>7, <3>2
                    DEF FallbackHold, ControlTypeOK, policyVars, limitVars, Twists
      <2>3. CommandIsFresh' /\ OneLifespan'
            BY <2>1 DEF CommandIsFresh, OneLifespan
      <2> QED BY <1>4, <2>2, <2>3 DEF ControlInv
<1>8. CASE FallbackDrop
      <2>1. ControlTypeOK'
            BY <1>1, <1>2, <1>3, <1>8 DEF FallbackDrop, ControlTypeOK, policyVars, limitVars
      <2>2. CommandIsFresh' /\ OneLifespan'
            BY <1>8 DEF FallbackDrop, ControlInv, CommandIsFresh, OneLifespan, policyVars
      <2> QED BY <1>4, <2>1, <2>2 DEF ControlInv
<1> QED BY <1>6, <1>7, <1>8 DEF ExpiryDecision

LEMMA CommandStep ==
  ASSUME ControlInv, NEW speed \in Commands, CommandCallback(speed)
  PROVE  ControlInv'
<1> USE ControlAssumption
<1>1. UNCHANGED <<now, policyVars, active, granted>>
      BY DEF CommandCallback
<1>2. ControlTypeOK /\ now \in Times /\ now \in 0 .. now
      BY DEF ControlInv, ControlTypeOK, Times
<1>3. GrantInv' /\ Ids' = Ids
      BY <1>1 DEF ControlInv, GrantInv, Ids, policyVars
<1>4. CASE HoldCommand(speed)
      <2>1. pending' \in [speed : Commands, at : 0 .. now]
            BY <1>2, <1>4 DEF HoldCommand
      <2>2. ControlTypeOK'
            BY <1>1, <1>2, <1>3, <1>4, <2>1 DEF HoldCommand, ControlTypeOK, policyVars, limitVars
      <2>3. CommandIsFresh' /\ OneLifespan'
            BY <1>1, <1>4 DEF HoldCommand, ControlInv, CommandIsFresh, OneLifespan, policyVars
      <2> QED BY <1>3, <2>2, <2>3 DEF ControlInv
<1>5. CASE RefuseCommand(speed)
      BY <1>1, <1>5, ExpiryStep DEF RefuseCommand
<1>6. CASE AcceptCommand(speed)
      <2>1. /\ output' \in Int /\ outputAt' = now /\ accel' \in -MaxAccel .. MaxAccel
            /\ published' = [kind |-> "drive", speed |-> output', at |-> now,
                             heard |-> now, id |-> active.id]
            BY <1>2, <1>6, DriveFact DEF AcceptCommand
      <2>2. active # NoLease /\ now <= active.expires /\ active \in [id : Ids, expires : Times]
            BY <1>2, <1>6 DEF AcceptCommand, Expired, ControlTypeOK, Times
      <2>3. active.id \in 0 .. MaxId
            BY <2>2 DEF Ids, NoId
      <2>4. ControlTypeOK'
            <3>1. outputAt' \in -1 .. now
                  BY <1>2, <2>1 DEF Times
            <3> QED BY <1>1, <1>2, <1>3, <1>6, <2>1, <2>3, <3>1
                    DEF AcceptCommand, ControlTypeOK, policyVars
      <2>5. CommandIsFresh'
            BY <1>2, <2>1 DEF CommandIsFresh, Times
      <2>6. OneLifespan'
            <3>1. numbered => /\ granted[active.id].at >= 0
                              /\ active.expires <= granted[active.id].at + granted[active.id].life
                              /\ active.expires <= granted[active.id].at + MaxLife
                  BY <2>2 DEF ControlInv, GrantInv
            <3>2. /\ granted[active.id].at \in Int /\ granted[active.id].life \in Int
                  /\ active.expires \in Int /\ now \in Int
                  BY <1>2, <2>2, <2>3 DEF ControlTypeOK, Times
            <3>3. numbered => /\ now <= granted[active.id].at + granted[active.id].life
                              /\ now <= granted[active.id].at + MaxLife
                  BY <2>2, <3>1, <3>2
            <3> QED BY <1>1, <2>1, <3>1, <3>3 DEF OneLifespan, policyVars
      <2> QED BY <1>3, <2>4, <2>5, <2>6 DEF ControlInv
<1> QED BY <1>4, <1>5, <1>6 DEF CommandCallback

LEMMA AdvanceStep == ControlInv /\ Advance => ControlInv'
<1> SUFFICES ASSUME ControlInv, Advance PROVE ControlInv'
    OBVIOUS
<1> USE ControlAssumption
<1>1. /\ now < MaxTime /\ now' = now + 1
      /\ UNCHANGED <<policyVars, active, limitVars, fallback, pending, published, granted>>
      BY DEF Advance
<1>2. /\ now \in 0 .. MaxTime /\ now' \in 0 .. MaxTime
      /\ -1 .. now \subseteq -1 .. now' /\ 0 .. now \subseteq 0 .. now'
      BY <1>1 DEF ControlInv, ControlTypeOK, Times
<1>3. ControlTypeOK'
      <2>1. Ids' = Ids
            BY <1>1 DEF Ids, policyVars
      <2>2. granted' \in [0 .. MaxId -> [at : -1 .. now', life : Nat]]
            BY <1>1, <1>2 DEF ControlInv, ControlTypeOK
      <2>3. published' \in [kind : {"none", "drive", "stop", "hold"}, speed : Int,
                            at : 0 .. now', heard : 0 .. now', id : 0 .. MaxId]
            BY <1>1, <1>2 DEF ControlInv, ControlTypeOK
      <2>4. pending' = NoCommand \/ pending' \in [speed : Commands, at : 0 .. now']
            BY <1>1, <1>2 DEF ControlInv, ControlTypeOK
      <2> QED BY <1>1, <1>2, <2>1, <2>2, <2>3, <2>4
              DEF ControlInv, ControlTypeOK, Times, policyVars, limitVars
<1>4. CommandIsFresh' /\ OneLifespan' /\ GrantInv'
      BY <1>1 DEF ControlInv, CommandIsFresh, OneLifespan, GrantInv, policyVars
<1> QED BY <1>3, <1>4 DEF ControlInv

LEMMA ControlNext == ControlInv /\ [Next]_vars => ControlInv'
<1> SUFFICES ASSUME ControlInv, [Next]_vars PROVE ControlInv'
    OBVIOUS
<1>1. ASSUME NEW id \in Ids, NEW lifespan \in Lifespans, LeaseCallback(id, lifespan)
      PROVE  ControlInv'
      BY <1>1, LeaseStep
<1>2. ASSUME NEW speed \in Commands, CommandCallback(speed) PROVE ControlInv'
      BY <1>2, CommandStep
<1>3. CASE TimerCallback
      BY <1>3, ExpiryStep DEF TimerCallback
<1>4. CASE Advance
      BY <1>4, AdvanceStep
<1>5. CASE UNCHANGED vars
      BY <1>5 DEF vars, policyVars, limitVars, ControlInv, ControlTypeOK, CommandIsFresh,
                  OneLifespan, GrantInv, Ids
<1> QED BY <1>1, <1>2, <1>3, <1>4, <1>5 DEF Next

LEMMA ControlAlways == Spec => []ControlInv
BY ControlInit, ControlNext, PTL DEF Spec

-----------------------------------------------------------------------------
(* The theorems.                                                           *)

\* The guard's state keeps its type; the acceleration it carries from output to
\* output stays within the limit, whatever the gaps between commands.
THEOREM ControlTypeCorrect == Spec => []ControlTypeOK
<1>1. ControlInv => ControlTypeOK
      BY DEF ControlInv
<1> QED BY <1>1, ControlAlways, PTL

\* ingest_lease replays no command that is older than the pending window.
THEOREM FreshCommands == Spec => []CommandIsFresh
<1>1. ControlInv => CommandIsFresh
      BY DEF ControlInv
<1> QED BY <1>1, ControlAlways, PTL

\* A numbered lease drives the robot for one lifespan, however often it comes.
THEOREM LeaseLastsOnce == Spec => []OneLifespan
<1>1. ControlInv => OneLifespan
      BY DEF ControlInv
<1> QED BY <1>1, ControlAlways, PTL

\* No output differs from the one before by more than the acceleration limit
\* allows for the time between them.
THEOREM AccelerationLimited == Spec => GentleDrive
<1> DEFINE Gentle ==
      published'.kind = "drive" /\ now > outputAt /\ outputAt >= 0 /\ published' # published
      => LET d == output' - output
         IN d <= MaxAccel * (now - outputAt) /\ -d <= MaxAccel * (now - outputAt)
<1>1. ControlInv /\ [Next]_vars => [Gentle]_vars
  <2> SUFFICES ASSUME ControlInv, Next, published'.kind = "drive",
                      now > outputAt, outputAt >= 0, published' # published
               PROVE  /\ output' - output <= MaxAccel * (now - outputAt)
                      /\ -(output' - output) <= MaxAccel * (now - outputAt)
      OBVIOUS
  <2> DEFINE dt == now - outputAt
  <2>0. /\ ControlTypeOK /\ ~Unlimited /\ dt \in Nat /\ MaxAccel \in Nat
        BY ControlAssumption DEF ControlInv, ControlTypeOK, Unlimited, Times
  <2>1. ASSUME NEW l, NEW speed \in Commands, NEW heard, Drive(l, speed, heard)
        PROVE  /\ output' - output <= MaxAccel * dt
               /\ -(output' - output) <= MaxAccel * dt
    <3>1. accel' \in -MaxAccel .. MaxAccel /\ output' - output = accel' * dt
          BY <2>0, <2>1, DriveFact
    <3> HIDE DEF dt
    <3>2. accel' * dt <= MaxAccel * dt /\ -(accel' * dt) <= MaxAccel * dt
          BY <2>0, <3>1, ProductBound
    <3> QED BY <3>1, <3>2
  <2>2. ASSUME NEW id \in Ids, NEW lifespan \in Lifespans, LeaseCallback(id, lifespan)
        PROVE  \E l, heard : \E speed \in Commands : Drive(l, speed, heard)
    <3>1. Replays([id |-> id, expires |-> now + (IF lifespan < MaxLife THEN lifespan ELSE MaxLife)])
          BY <2>2 DEF LeaseCallback
    <3>2. pending.speed \in Commands
          BY <2>0, <3>1 DEF Replays, ControlTypeOK
    <3> QED BY <2>2, <3>1, <3>2 DEF LeaseCallback
  <2>3. ASSUME NEW speed \in Commands, CommandCallback(speed)
        PROVE  \E l, heard : Drive(l, speed, heard)
    <3>1. CASE HoldCommand(speed)
          BY <3>1 DEF HoldCommand
    <3>2. CASE RefuseCommand(speed)
          BY <3>2 DEF RefuseCommand, ExpiryDecision, FallbackStop, FallbackHold, FallbackDrop, Twist
    <3>3. CASE AcceptCommand(speed)
          BY <3>3 DEF AcceptCommand
    <3> QED BY <2>3, <3>1, <3>2, <3>3 DEF CommandCallback
  <2>4. CASE TimerCallback
        BY <2>4 DEF TimerCallback, ExpiryDecision, FallbackStop, FallbackHold, FallbackDrop, Twist
  <2>5. CASE Advance
        BY <2>5 DEF Advance
  <2> QED BY <2>1, <2>2, <2>3, <2>4, <2>5 DEF Next
<1> QED BY <1>1, ControlAlways, PTL DEF Spec, GentleDrive
==============================================================================
