-------------------------- MODULE LocalControlLease --------------------------
(***************************************************************************)
(* LocalControlLeaseState, the robot-side guard of one robot, under the    *)
(* callbacks of run_ros2_local_controller_lease: leases and typed commands *)
(* arrive in any order and number, a timer looks for expiry, and what the  *)
(* guard lets through is published to the robot.  One executor thread runs *)
(* the callbacks, each to its end.  One axis of a Twist is modelled: both  *)
(* limited axes go through the same limiter.                               *)
(***************************************************************************)
EXTENDS Integers

CONSTANTS
  Commands,   \* speeds that are asked for
  Lifespans,  \* lifespan_ms of the leases, in ticks
  MaxId,      \* bound: event ids of a sender that numbers its leases
  MaxTime,    \* bound: ticks of the clock
  MaxSpeed,   \* max_linear_x
  MaxAccel,   \* max_linear_accel_x, per tick
  MaxJerk,    \* max_linear_jerk_x, per tick
  MaxLife,    \* max_local_lifespan_ms
  Window      \* pending_command_window_ms

ASSUME ControlAssumption ==
  /\ Commands \subseteq Int /\ Lifespans \subseteq Nat
  /\ MaxId \in Nat /\ MaxTime \in Nat /\ MaxSpeed \in Nat /\ MaxAccel \in Nat
  /\ MaxJerk \in Nat /\ MaxLife \in Nat /\ Window \in Nat

VARIABLES
  now,        \* monotonic_ms
  action,     \* expiry_action of the policy
  numbered,   \* whether the sender puts event ids into its leases
  active,     \* active_lease: none, or its event id and local_expires_at
  output,     \* _last_output
  outputAt,   \* _last_output_ms, -1 for none
  accel,      \* _last_accel
  fallback,   \* _fallback_event_ids
  pending,    \* _pending_command and when it was received
  published,  \* the last Twist on the robot's topic, and what it stems from
  granted     \* history: when each event id was first accepted, and its lifespan_ms

policyVars == <<action, numbered>>
limitVars == <<output, outputAt, accel>>
vars == <<now, policyVars, active, limitVars, fallback, pending, published, granted>>

NoId == 0
NoLease == [id |-> NoId, expires |-> -1]
NoCommand == [speed |-> 0, at |-> -1]
NoGrant == [at |-> -1, life |-> 0]
Ids == IF numbered THEN 1 .. MaxId ELSE {NoId}

\* What is published: a speed, its kind, when, when the command behind it was
\* received, and under which lease.
Twist(kind, speed, heard, lease) ==
  [kind |-> kind, speed |-> speed, at |-> now, heard |-> heard, id |-> lease.id]

Init ==
  /\ now = 0
  /\ action \in {"stop", "hold_last", "drop"}
  /\ numbered \in BOOLEAN
  /\ active = NoLease
  /\ output = 0 /\ outputAt = -1 /\ accel = 0
  /\ fallback = {}
  /\ pending = NoCommand
  /\ published = [kind |-> "none", speed |-> 0, at |-> 0, heard |-> 0, id |-> NoId]
  /\ granted = [i \in 0 .. MaxId |-> NoGrant]

-----------------------------------------------------------------------------
(* The limiter: clip_command and apply_dynamic_limits.                     *)

Clamp(x, bound) == IF x > bound THEN bound ELSE IF x < -bound THEN -bound ELSE x

StepToward_Overshoots(previous, target, step) ==
  IF target > previous THEN previous + step
  ELSE IF target < previous THEN previous - step ELSE target

\* _step_toward.
StepToward(previous, target, step) ==
  IF step <= 0 THEN previous
  ELSE IF target > previous + step THEN previous + step
  ELSE IF target < previous - step THEN previous - step
  ELSE target

\* Nothing is limited in the first output and within one clock reading.
Unlimited == outputAt < 0 \/ now <= outputAt

LimitedAccel_JerkOnly(speed) ==
  LET dt == now - outputAt
  IN StepToward(accel, (speed - output) \div dt, MaxJerk * dt)

\* The acceleration towards speed, limited and then kept within the jerk limit.
\* The speeds of an instance are multiples of a number that all products of
\* gaps between outputs divide, so that the division is exact.
LimitedAccel(speed) ==
  LET dt == now - outputAt
  IN StepToward(accel, Clamp((speed - output) \div dt, MaxAccel), MaxJerk * dt)

\* A command is let through under lease l: bounded first, then limited.
Drive(l, speed, heard) ==
  LET bounded == Clamp(speed, MaxSpeed)
      a == IF Unlimited THEN 0 ELSE LimitedAccel(bounded)
      safe == IF Unlimited THEN bounded ELSE output + a * (now - outputAt)
  IN /\ output' = safe
     /\ outputAt' = now
     /\ accel' = a
     /\ published' = Twist("drive", safe, heard, l)

-----------------------------------------------------------------------------
(* Expiry.                                                                 *)

Expired(l) == now > l.expires

\* _expiry_decision for the active lease, under each policy.
FallbackStop ==
  /\ action = "stop"
  /\ output' = 0 /\ outputAt' = now /\ accel' = 0
  /\ published' = Twist("stop", 0, now, active)

FallbackHold ==
  /\ action = "hold_last"
  /\ published' = Twist("hold", output, now, active)
  /\ UNCHANGED limitVars

FallbackDrop ==
  /\ action = "drop"
  /\ UNCHANGED <<limitVars, published>>

ExpiryDecision ==
  /\ fallback' = fallback \cup {active.id}
  /\ FallbackStop \/ FallbackHold \/ FallbackDrop

-----------------------------------------------------------------------------
(* The callbacks.                                                          *)

Stale_OlderOnly(id) == active # NoLease /\ active.id # NoId /\ id # NoId /\ id < active.id

\* _stale_or_duplicate_lease_decision: ids are compared when both are there.
Stale(id) == active # NoLease /\ active.id # NoId /\ id # NoId /\ id <= active.id

Replays_Always(l) == pending # NoCommand

\* A command that arrived before the first lease is evaluated with it, if it is
\* not too old.
Replays(l) == pending # NoCommand /\ now - pending.at <= Window

\* lease_callback: from_envelope and ingest_lease.  Bound: no lease outlives the
\* clock.  A refused lease changes nothing.
LeaseCallback(id, lifespan) ==
  LET life == IF lifespan < MaxLife THEN lifespan ELSE MaxLife
      l == [id |-> id, expires |-> now + life]
  IN /\ l.expires < MaxTime
     /\ ~Stale(id)
     /\ active' = l
     /\ granted' = [granted EXCEPT ![id] =
            IF @ = NoGrant THEN [at |-> now, life |-> lifespan] ELSE @]
     /\ IF Replays(l)
        THEN /\ pending' = NoCommand
             /\ Drive(l, pending.speed, pending.at)
        ELSE UNCHANGED <<pending, limitVars, published>>
     /\ UNCHANGED <<now, policyVars, fallback>>

HoldCommand(speed) ==
  /\ active = NoLease
  /\ pending' = [speed |-> speed, at |-> now]
  /\ UNCHANGED <<fallback, limitVars, published>>

RefuseCommand(speed) ==
  /\ active # NoLease
  /\ Expired(active)
  /\ ExpiryDecision
  /\ UNCHANGED pending

AcceptCommand(speed) ==
  /\ active # NoLease
  /\ ~Expired(active)
  /\ Drive(active, speed, now)
  /\ UNCHANGED <<fallback, pending>>

\* command_callback: evaluate_command.
CommandCallback(speed) ==
  /\ HoldCommand(speed) \/ RefuseCommand(speed) \/ AcceptCommand(speed)
  /\ UNCHANGED <<now, policyVars, active, granted>>

TimerCallback_Once ==
  /\ active # NoLease
  /\ Expired(active)
  /\ fallback = {}
  /\ ExpiryDecision
  /\ UNCHANGED <<now, policyVars, active, pending, granted>>

\* timer_callback: tick answers an expiry once per event id, with
\* publish_stop_on_expiry set as it is unless a profile says otherwise.
TimerCallback ==
  /\ active # NoLease
  /\ Expired(active)
  /\ active.id \notin fallback
  /\ ExpiryDecision
  /\ UNCHANGED <<now, policyVars, active, pending, granted>>

Advance ==
  /\ now < MaxTime
  /\ now' = now + 1
  /\ UNCHANGED <<policyVars, active, limitVars, fallback, pending, published, granted>>

Next ==
  \/ \E id \in Ids, lifespan \in Lifespans : LeaseCallback(id, lifespan)
  \/ \E speed \in Commands : CommandCallback(speed)
  \/ TimerCallback
  \/ Advance

Spec == Init /\ [][Next]_vars

\* The clock runs and the timer is called; nobody need send anything.
FairSpec == Spec /\ WF_vars(Advance) /\ WF_vars(TimerCallback)

-----------------------------------------------------------------------------
(* Properties.                                                             *)

Times == 0 .. MaxTime

\* Every part of the state has its type, and the acceleration that is carried
\* over never exceeds the limit.
ControlTypeOK ==
  /\ now \in Times
  /\ action \in {"stop", "hold_last", "drop"}
  /\ numbered \in BOOLEAN
  /\ active = NoLease \/ active \in [id : Ids, expires : Times]
  /\ output \in Int
  /\ outputAt \in -1 .. now
  /\ accel \in -MaxAccel .. MaxAccel
  /\ fallback \subseteq Ids
  /\ pending = NoCommand \/ pending \in [speed : Commands, at : 0 .. now]
  /\ published \in [kind : {"none", "drive", "stop", "hold"}, speed : Int,
                    at : 0 .. now, heard : 0 .. now, id : 0 .. MaxId]
  /\ granted \in [0 .. MaxId -> [at : -1 .. now, life : Nat]]

\* A command that drives the robot was received no longer ago than the window:
\* ingest_lease never replays an old one.
CommandIsFresh ==
  published.kind = "drive" => published.at - published.heard <= Window

\* However often, late or out of order a numbered lease is delivered, and with
\* whatever lifespan, it drives the robot for the lifespan it came with first,
\* and no longer than the local maximum.
OneLifespan ==
  numbered /\ published.kind = "drive"
    => LET grant == granted[published.id]
       IN /\ grant.at >= 0
          /\ published.at <= grant.at + grant.life
          /\ published.at <= grant.at + MaxLife

\* From one output to a later one the speed changes by at most the limit for
\* the time between them, except for a stop.
GentleDrive ==
  [][published'.kind = "drive" /\ now > outputAt /\ outputAt >= 0
       /\ published' # published
     => LET d == output' - output
        IN d <= MaxAccel * (now - outputAt) /\ -d <= MaxAccel * (now - outputAt)]_vars

\* With expiry_action "stop" and numbered leases, a robot left without a lease
\* is stopped, whatever it was last told.
StopsAtExpiry ==
  (numbered /\ action = "stop" /\ active # NoLease /\ Expired(active))
    ~> (published.speed = 0 \/ ~Expired(active))

\* Commands that are published are "inside local safety bounds".
InsideBounds == published.speed <= MaxSpeed /\ -published.speed <= MaxSpeed
=============================================================================
