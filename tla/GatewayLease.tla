---------------------------- MODULE GatewayLease ----------------------------
(***************************************************************************)
(* Gateway processes that share one durable store and take turns writing   *)
(* it under the writer_lease row: acquire, renew, release and _verify of   *)
(* GatewayDurableStore (fleetqox/quic_gateway_state.py), the standby's     *)
(* wait loop (fleetqox/quic_gateway_lease.py) and the service's renewal    *)
(* loop and shutdown (scripts/fleetrmw_quic_gateway_service.py).           *)
(*                                                                         *)
(* A process is one asyncio thread.  Every store call reads the wall clock *)
(* first and then waits for the database lock (BEGIN IMMEDIATE), so time   *)
(* and other processes move between the reading and its use: a call is two *)
(* actions, the reading and the transaction.                               *)
(*                                                                         *)
(* Time is relative, so that it needs no bound: row.left is                *)
(* expires_unix_ms minus the current time, lag[p] is the current time      *)
(* minus the now_unix_ms the pending call of p holds.  Hence               *)
(*      expires > now_unix_ms   is   row.left + lag[p] > 0,                *)
(*      expires = now_unix_ms + lease_ms   is   row.left = Lease - lag[p]. *)
(***************************************************************************)
EXTENDS Integers

CONSTANTS
    Process,   \* gateway processes, each started once
    Instance,  \* --writer-lease-instance-id values
    None,      \* no holder
    Lease,     \* lease_ms, in clock ticks
    Skew,      \* errors of a host's clock when it is read, in ticks
    MaxStall,  \* bound: ticks a call waits for the database lock
    MaxFrames, \* bound on the frames published
    MaxBroken  \* bound: tokens up to which taking the lease may be interrupted

ASSUME LeaseAssumption ==
    /\ None \notin Instance
    /\ Lease \in Nat \ {0}
    /\ Skew \subseteq Int
    /\ {MaxStall, MaxFrames, MaxBroken} \subseteq Nat
    /\ \A s \in Skew : -MaxStall <= s /\ s <= MaxStall

VARIABLES
    row,     \* the writer_lease row
    db,      \* the tables: frames.next is the next offset, and one cursor
    pc,      \* what each process is doing
    holder,  \* _writer_lease_id, from the moment the process is configured
    token,   \* _writer_fence_token, 0 before it is known
    mem,     \* the histories and cursors each process has, while it can write
    lag      \* age of the clock reading of a pending call

vars == <<row, db, pc, holder, token, mem, lag>>

Calling == {"acquiring", "appending", "moving", "renewing"}
Live    == Calling \cup {"waiting", "recovering", "serving", "severed", "closing"}
Stage   == Live \cup {"new", "gone"}

Empty == [next |-> 0, cursor |-> 0]

Init ==
    /\ row    = [holder |-> None, token |-> 0, left |-> 0]
    /\ db     = Empty
    /\ pc     = [p \in Process |-> "new"]
    /\ holder = [p \in Process |-> None]
    /\ token  = [p \in Process |-> 0]
    /\ mem    = [p \in Process |-> Empty]
    /\ lag    = [p \in Process |-> 0]

-----------------------------------------------------------------------------
(* The tests the store makes inside a transaction *)

\* expires_unix_ms > now_unix_ms, by the reading of the pending call.
Unexpired(p) == row.left + lag[p] > 0

Verified_TimeOnly(p) == Unexpired(p)

\* _verify_writer_lease, and the same test in renew_writer_lease.
Verified(p) ==
    /\ row.holder = holder[p]
    /\ row.token  = token[p]
    /\ Unexpired(p)

Refused_NeverExpires(p) == row.holder \notin {None, holder[p]}

\* acquire_writer_lease: another holder's lease still runs.
Refused(p) == row.holder # holder[p] /\ Unexpired(p)

GrantedToken_Reused(p) == IF row.token = 0 THEN 1 ELSE row.token
GrantedToken_FromZero(p) == IF row.holder = None THEN 0 ELSE row.token + 1

\* A holder that comes back before its lease has run out keeps its token.
GrantedToken(p) ==
    IF row.holder = holder[p] /\ Unexpired(p) THEN row.token ELSE row.token + 1

\* _now_unix_ms on the way into a store call.
ReadClock(p, stage) ==
    /\ pc' = [pc EXCEPT ![p] = stage]
    /\ \E s \in Skew : lag' = [lag EXCEPT ![p] = s]

\* The call, if there was one, is over and its reading forgotten.
Become(p, stage) ==
    /\ pc'  = [pc EXCEPT ![p] = stage]
    /\ lag' = [lag EXCEPT ![p] = 0]

\* The process writes no more.
Cease(p, stage) ==
    /\ Become(p, stage)
    /\ mem' = [mem EXCEPT ![p] = Empty]

\* The process ends, and with it all it knew.
Exit(p) ==
    /\ Cease(p, "gone")
    /\ holder' = [holder EXCEPT ![p] = None]
    /\ token'  = [token EXCEPT ![p] = 0]

-----------------------------------------------------------------------------
(* Start and stand by *)

\* The service starts under an instance id no live process uses.
Start(p, id) ==
    /\ pc[p] = "new"
    /\ \A q \in Process : pc[q] \in Live => holder[q] # id
    /\ ReadClock(p, "acquiring")
    /\ holder' = [holder EXCEPT ![p] = id]
    /\ UNCHANGED <<row, db, token, mem>>

\* "durable writer lease is held by ...", or the store is unavailable: sleep
\* retry_ms and try again.
AcquireFails(p) ==
    /\ pc[p] = "acquiring"
    /\ Become(p, "waiting")
    /\ UNCHANGED <<row, db, holder, token, mem>>

Retry(p) ==
    /\ pc[p] = "waiting"
    /\ ReadClock(p, "acquiring")
    /\ UNCHANGED <<row, db, holder, token, mem>>

\* wait_timeout_ms has passed (at once when it is 0).
WaitTimesOut(p) ==
    /\ pc[p] = "waiting"
    /\ Exit(p)
    /\ UNCHANGED <<row, db>>

\* The transaction of acquire_writer_lease.
Grant(p) ==
    /\ pc[p] = "acquiring"
    /\ ~Refused(p)
    /\ row' = [holder |-> holder[p], token |-> GrantedToken(p),
               left |-> Lease - lag[p]]

Acquire(p) ==
    /\ Grant(p)
    /\ token' = [token EXCEPT ![p] = GrantedToken(p)]
    /\ Become(p, "recovering")
    /\ UNCHANGED <<db, holder, mem>>

\* The lease is granted, but the connection breaks before the answer: the next
\* try finds the process's own row.
AcquireUnheard(p) ==
    /\ row.token < MaxBroken
    /\ Grant(p)
    /\ Become(p, "waiting")
    /\ UNCHANGED <<db, holder, token, mem>>

Recover_Skipped(p) ==
    /\ pc[p] = "recovering"
    /\ Become(p, "serving")
    /\ UNCHANGED <<row, db, holder, token, mem>>

\* recover runs in the constructor, after the lease is taken.
Recover(p) ==
    /\ pc[p] = "recovering"
    /\ mem' = [mem EXCEPT ![p] = db]
    /\ Become(p, "serving")
    /\ UNCHANGED <<row, db, holder, token>>

\* The tables are damaged or do not fit the policy: release and give up.
RecoverFails(p) ==
    /\ pc[p] = "recovering"
    /\ Cease(p, "closing")
    /\ UNCHANGED <<row, db, holder, token>>

\* release_writer_lease expires the row if it is still this holder's; a store
\* that is unavailable is ignored.
TryRelease(p) ==
    \/ row' = row
    \/ /\ row.holder = holder[p] /\ row.token = token[p]
       /\ \E s \in Skew : row' = [row EXCEPT !.left = -s]

\* The store is unavailable during recovery: release if that can be done, and
\* try again from the start.
RecoverUnavailable(p) ==
    /\ pc[p] = "recovering"
    /\ row.token <= MaxBroken
    /\ TryRelease(p)
    /\ token' = [token EXCEPT ![p] = 0]
    /\ Become(p, "waiting")
    /\ UNCHANGED <<db, holder, mem>>

-----------------------------------------------------------------------------
(* Serving *)

Publish(p) ==
    /\ pc[p] = "serving"
    /\ ReadClock(p, "appending")
    /\ UNCHANGED <<row, db, holder, token, mem>>

\* append_frame: verified, and inserted under the offset this process knows.
AppendRow(p) ==
    /\ pc[p] = "appending"
    /\ Verified(p)
    /\ mem[p].next < MaxFrames
    /\ db' = [db EXCEPT !.next = mem[p].next + 1]

CommitFrame(p) ==
    /\ AppendRow(p)
    /\ mem' = [mem EXCEPT ![p].next = @ + 1]
    /\ Become(p, "serving")
    /\ UNCHANGED <<row, holder, token>>

TakeRequest(p) ==
    /\ pc[p] = "serving"
    /\ mem[p].cursor < mem[p].next
    /\ ReadClock(p, "moving")
    /\ UNCHANGED <<row, db, holder, token, mem>>

\* set_cursor: the row is overwritten with the cursor this process knows.
MoveRow(p) ==
    /\ pc[p] = "moving"
    /\ Verified(p)
    /\ db' = [db EXCEPT !.cursor = mem[p].cursor + 1]

CommitCursor(p) ==
    /\ MoveRow(p)
    /\ mem' = [mem EXCEPT ![p].cursor = @ + 1]
    /\ Become(p, "serving")
    /\ UNCHANGED <<row, holder, token>>

\* The fence, the store or its lock timeout fails the call: answer 503.
WriteFails(p) ==
    /\ pc[p] \in {"appending", "moving"}
    /\ Become(p, "serving")
    /\ UNCHANGED <<row, db, holder, token, mem>>

\* The renewal task wakes after a third of the lease.
RenewDue(p) ==
    /\ pc[p] = "serving"
    /\ ReadClock(p, "renewing")
    /\ UNCHANGED <<row, db, holder, token, mem>>

RenewRow(p) ==
    /\ pc[p] = "renewing"
    /\ Verified(p)
    /\ row' = [row EXCEPT !.left = Lease - lag[p]]

Renew(p) ==
    /\ RenewRow(p)
    /\ Become(p, "serving")
    /\ UNCHANGED <<db, holder, token, mem>>

RenewFails_KeepsServing(p) ==
    /\ pc[p] = "renewing"
    /\ ~Verified(p)
    /\ Become(p, "serving")
    /\ UNCHANGED <<row, db, holder, token, mem>>

\* Lost, expired, or the store failed: the service stops itself.
RenewFails(p) ==
    /\ pc[p] = "renewing"
    /\ Cease(p, "closing")
    /\ UNCHANGED <<row, db, holder, token>>

\* A write or renewal is committed, but the connection breaks before the answer.
\* The store does not reconnect: every later call of this process fails.
Unheard(p) ==
    /\ \/ (AppendRow(p) \/ MoveRow(p)) /\ UNCHANGED row
       \/ RenewRow(p) /\ UNCHANGED db
    /\ Cease(p, "severed")
    /\ UNCHANGED <<holder, token>>

\* It stops at its next renewal and cannot release the lease.
SeveredStops(p) ==
    /\ pc[p] = "severed"
    /\ Exit(p)
    /\ UNCHANGED <<row, db>>

-----------------------------------------------------------------------------
(* Stopping *)

\* SIGINT or SIGTERM.
Stop(p) ==
    /\ pc[p] = "serving"
    /\ Cease(p, "closing")
    /\ UNCHANGED <<row, db, holder, token>>

Close(p) ==
    /\ pc[p] = "closing"
    /\ TryRelease(p)
    /\ Exit(p)
    /\ UNCHANGED db

\* The process dies.
Crash(p) ==
    /\ pc[p] \in Live
    /\ Exit(p)
    /\ UNCHANGED <<row, db>>

\* A tick of the clock.  What is long expired stays so.
Tick ==
    /\ \A p \in Process : pc[p] \in Calling => lag[p] < MaxStall
    /\ row' = [row EXCEPT !.left = IF @ > -MaxStall THEN @ - 1 ELSE @]
    /\ lag' = [p \in Process |->
                 IF pc[p] \in Calling THEN lag[p] + 1 ELSE lag[p]]
    /\ UNCHANGED <<db, pc, holder, token, mem>>

Step(p) ==
    \/ AcquireFails(p) \/ Retry(p) \/ WaitTimesOut(p)
    \/ Acquire(p) \/ AcquireUnheard(p)
    \/ Recover(p) \/ RecoverFails(p) \/ RecoverUnavailable(p)
    \/ Publish(p) \/ CommitFrame(p) \/ TakeRequest(p) \/ CommitCursor(p)
    \/ WriteFails(p) \/ Unheard(p) \/ SeveredStops(p)
    \/ RenewDue(p) \/ Renew(p) \/ RenewFails(p)
    \/ Stop(p) \/ Close(p) \/ Crash(p)

Next ==
    \/ Tick
    \/ \E p \in Process, id \in Instance : Start(p, id)
    \/ \E p \in Process : Step(p)

Spec == Init /\ [][Next]_vars

\* A call that has the lock ends, a standby tries again, a process that is to
\* stop does.
Proceeds(p) ==
    \/ Retry(p) \/ AcquireFails(p)
    \/ CommitFrame(p) \/ CommitCursor(p) \/ WriteFails(p)
    \/ Renew(p) \/ RenewFails(p)
    \/ Close(p) \/ SeveredStops(p)

\* Time passes, the event loop runs what is ready, and a due renewal is not put
\* off for ever by requests.  A store that is asked for the lease again and again
\* is available in the end.
Fairness ==
    /\ WF_vars(Tick)
    /\ \A p \in Process :
         /\ WF_vars(Proceeds(p))
         /\ SF_vars(Acquire(p))
         /\ SF_vars(RenewDue(p))

FairSpec == Spec /\ Fairness

-----------------------------------------------------------------------------
(* Properties *)

Recovered == {"serving", "appending", "moving", "renewing"}

\* Type correctness of the lease row, the tables and the processes; a process
\* that serves has an instance id and a fence token.
TypeOK ==
    /\ row \in [holder : Instance \cup {None}, token : Nat, left : Int]
    /\ db \in [next : Nat, cursor : Nat]
    /\ pc \in [Process -> Stage]
    /\ holder \in [Process -> Instance \cup {None}]
    /\ token \in [Process -> Nat]
    /\ mem \in [Process -> [next : Nat, cursor : Nat]]
    /\ lag \in [Process -> Int]
    /\ \A p \in Process :
         pc[p] \in Recovered => token[p] > 0 /\ holder[p] # None

\* A process whose writes would pass the fence has seen everything written:
\* no takeover, however timed, lets two processes write from two views.
WriterSeesStore ==
    \A p \in Process :
        pc[p] \in Recovered /\ row.holder = holder[p] /\ row.token = token[p]
            => mem[p] = db

\* Of all live processes at most one holds the row's token.
OneFence ==
    \A p, q \in Process :
        /\ {pc[p], pc[q]} \subseteq Live
        /\ token[p] = row.token /\ token[q] = row.token
        /\ row.token > 0
        => p = q

\* The tables never go back: no offset is reused and no cursor is moved back
\* by a writer that was suspended over another's turn.
StoreGrows == [][db'.next >= db.next /\ db'.cursor >= db.cursor]_vars

Alone(p) == \A q \in Process \ {p} : pc[q] = "gone"

\* A standby that is left alone takes the lease over, unless it is stopped
\* or its own deadline passes first: an abandoned lease always runs out.
TakesOver ==
    \A p \in Process :
        Alone(p) /\ pc[p] \in {"acquiring", "waiting"}
            ~> pc[p] \in {"recovering", "gone"}

\* A process that lost the fence stops serving at one of its renewals.
DeposedStops ==
    \A p \in Process :
        pc[p] = "serving" /\ token[p] < row.token ~> pc[p] \in {"closing", "gone"}

=============================================================================
