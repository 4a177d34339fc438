--------------------------- MODULE GatewayHistory ---------------------------
(***************************************************************************)
(* One topic of a QUIC gateway process, FleetQoxGatewayState over the      *)
(* tables of GatewayDurableStore (fleetqox/quic_gateway_state.py): the     *)
(* bounded history, duplicate suppression, application outcomes, consumer  *)
(* cursors and the admission quota, each kept in memory (mem) and in the   *)
(* store (db), with failed commits, crashes and restarts.  The PostgreSQL  *)
(* store (fleetqox/quic_gateway_postgres.py) runs the same transactions    *)
(* over a connection that may be lost between a commit and its answer.     *)
(*                                                                         *)
(* The service is one asyncio thread: a request runs to its end before the *)
(* next, so only a crash can separate a commit from the in-memory update   *)
(* after it.  A batch is a sequence of publishes, each committed alone.    *)
(* Streams share nothing but the fleet quota, so one topic is modelled.    *)
(***************************************************************************)
EXTENDS Integers, Sequences, FiniteSets

CONSTANTS
    Key,          \* dedup keys: (publisher_id, source_sequence_number)
    Consumer,     \* consumer ids that take from the topic
    Limits,       \* configurations a process may be started with
    MaxAccepted,  \* max_accepted_frames of the admission policy, per epoch
    MaxRepairs,   \* max_admitted_repairs of the policy, per epoch
    MaxBatch,     \* max_batch_frames
    MaxOffset     \* bound on the frames ever accepted

ASSUME LimitsAssumption ==
    \A l \in Limits : /\ l.frames \in Nat \ {0}
                      /\ l.dedup \in Nat
                      /\ l.dedup >= l.frames
ASSUME QuotaAssumption ==
    {MaxAccepted, MaxRepairs, MaxBatch, MaxOffset} \subseteq Nat

VARIABLES
    mem,      \* TopicHistory (open: it exists), cursors, policy counters
    db,       \* the rows of the durable tables
    limit,    \* the limits of the running process
    up,       \* is the process running
    linked,   \* has it a working connection to the store
    batch,    \* keys of the publish request being served
    in_epoch, \* history: frames accepted since the quota epoch began
    counted   \* history: debt updates since a key was last accepted

vars == <<mem, db, limit, up, linked, batch, in_epoch, counted>>

Absent   == -1  \* no row for a consumer
KeysIn(s) == {s[i] : i \in 1..Len(s)}

\* The newest n items of a sequence: what the eviction loops leave.
Newest(s, n) == IF Len(s) <= n THEN s ELSE SubSeq(s, Len(s) - n + 1, Len(s))

\* The positions in a finite set, in increasing order.
InOrder(S) ==
    LET n == Cardinality(S)
    IN  CHOOSE f \in [1..n -> S] :
            /\ \A i, j \in 1..n : i < j => f[i] < f[j]
            /\ \A p \in S : \E i \in 1..n : f[i] = p

\* The items of s that are in K, in their order.
Kept(s, K) ==
    LET at == {i \in 1..Len(s) : s[i] \in K}
    IN  [n \in 1..Cardinality(at) |-> s[InOrder(at)[n]]]

\* OrderedDict.move_to_end.
MoveToEnd(s, k) == Append(Kept(s, KeysIn(s) \ {k}), k)

Cascade_None(outcomes, dedup) == outcomes

\* ON DELETE CASCADE: an outcome goes with the dedup row it refers to.
Cascade(outcomes, dedup) == Kept(outcomes, KeysIn(dedup))

\* The policy's counters: quota and repairs of the epoch, frames ever
\* admitted, and outcome debt updates.
NoCharges == [total |-> 0, repairs |-> 0, cumulative |-> 0, debts |-> 0]

\* A process that has read nothing yet.
Blank == [open |-> FALSE, records |-> <<>>, next_offset |-> 0,
          recent_keys |-> <<>>, outcome_keys |-> <<>>,
          consumer_offsets |-> [c \in Consumer |-> Absent],
          policy |-> NoCharges]

BaseOffset(h) == IF h.records = <<>> THEN h.next_offset
                 ELSE h.records[1].offset

-----------------------------------------------------------------------------
Init ==
    /\ limit \in Limits
    /\ mem = Blank
    /\ db = [frames |-> <<>>, dedup_keys |-> <<>>, outcomes |-> <<>>,
             cursors |-> [c \in Consumer |-> Absent], admission |-> NoCharges]
    /\ up = TRUE
    /\ linked = TRUE
    /\ batch = <<>>
    /\ in_epoch = 0
    /\ counted = [k \in Key |-> 0]

Serving    == up /\ batch = <<>>
Publishing == up /\ batch # <<>>

\* The process ends: memory and the request in hand are gone.
Dies ==
    /\ up' = FALSE
    /\ linked' = FALSE
    /\ mem' = Blank
    /\ batch' = <<>>
    /\ UNCHANGED limit

\* A POST of one frame, or a batch in the order of its admission scores.
Receive(keys) ==
    /\ Serving
    /\ batch' = keys
    /\ UNCHANGED <<mem, db, limit, up, linked, in_epoch, counted>>

\* The key is remembered: refresh its place and answer "duplicate".
PublishDuplicate ==
    LET k == Head(batch)
    IN  /\ Publishing
        /\ k \in KeysIn(mem.recent_keys)
        /\ mem' = [mem EXCEPT !.recent_keys = MoveToEnd(@, k)]
        /\ batch' = Tail(batch)
        /\ UNCHANGED <<db, limit, up, linked, in_epoch, counted>>

\* admit refuses: no rule, wrong class or publisher, low score, or no quota
\* and no repair.  Only statistics change.
PublishRejected ==
    /\ Publishing
    /\ Head(batch) \notin KeysIn(mem.recent_keys)
    /\ batch' = Tail(batch)
    /\ UNCHANGED <<mem, db, limit, up, linked, in_epoch, counted>>

\* The policies admit can leave: a frame within the fleet quota, or a repair,
\* which a low score or an exhausted quota falls back to.
Charge(p) ==
    (IF p.total < MaxAccepted
     THEN {[p EXCEPT !.total = @ + 1, !.cumulative = @ + 1]} ELSE {})
    \cup
    (IF p.repairs < MaxRepairs
     THEN {[p EXCEPT !.repairs = @ + 1, !.cumulative = @ + 1]} ELSE {})

DedupRowFree_Always(k) == k \in Key
StoredCharge_Dropped(charged) == db.admission

\* The UNIQUE constraint on dedup_keys.
DedupRowFree(k) == k \notin KeysIn(db.dedup_keys)

\* The admission_state row an append writes.
StoredCharge(charged) == charged

\* DELETE FROM frames of one offset, part of the primary key.
WithoutRow(rows, offset) ==
    LET at == {i \in 1..Len(rows) : rows[i].offset = offset}
        i  == CHOOSE j \in at : TRUE
    IN  IF at = {} THEN rows
        ELSE SubSeq(rows, 1, i - 1) \o SubSeq(rows, i + 1, Len(rows))

\* append_frame commits: the dedup row is unique, the oldest frame and the
\* oldest dedup rows go, and the quota is stored with the frame.
AppendFrame(k, charged) ==
    LET dedup == Newest(Append(db.dedup_keys, k), limit.dedup)
        kept  == IF Len(mem.records) >= limit.frames
                 THEN WithoutRow(db.frames, mem.records[1].offset)
                 ELSE db.frames
    IN  /\ linked
        /\ DedupRowFree(k)
        /\ db' = [db EXCEPT
             !.frames = Append(kept, [offset |-> mem.next_offset, key |-> k]),
             !.dedup_keys = dedup,
             !.outcomes   = Cascade(@, dedup),
             !.admission  = StoredCharge(charged)]

Admitted(k, charged) ==
    /\ Publishing
    /\ k = Head(batch)
    /\ k \notin KeysIn(mem.recent_keys)
    /\ charged \in Charge(mem.policy)
    /\ mem.next_offset < MaxOffset

\* publish: admitted, committed and then entered in memory.
PublishAccepted(k, charged) ==
    /\ Admitted(k, charged)
    /\ AppendFrame(k, charged)
    /\ mem' = [mem EXCEPT
         !.open        = TRUE,
         !.next_offset = @ + 1,
         !.records     = Newest(Append(@, [offset |-> mem.next_offset,
                                           key |-> k]), limit.frames),
         !.recent_keys = Newest(Append(@, k), limit.dedup),
         !.policy      = charged]
    /\ batch' = Tail(batch)
    /\ in_epoch' = in_epoch + 1
    /\ counted' = [counted EXCEPT ![k] = 0]
    /\ UNCHANGED <<limit, up, linked>>

\* The process dies after the commit, before the client hears of it.
PublishThenCrash(k, charged) ==
    /\ Admitted(k, charged)
    /\ AppendFrame(k, charged)
    /\ Dies
    /\ in_epoch' = in_epoch + 1
    /\ counted' = [counted EXCEPT ![k] = 0]

PolicyAfterFailure_Charged(before, charged) == charged

\* restore_durable_state with the state exported before the call.
PolicyAfterFailure(before, charged) == before

\* append_frame raises, because the key still has a dedup row or because the
\* store fails: the charge is undone and the request, with what is left of
\* its batch, is abandoned.
PublishFails(k, charged) ==
    /\ Admitted(k, charged)
    /\ mem' = [mem EXCEPT !.open   = TRUE,
                          !.policy = PolicyAfterFailure(@, charged)]
    /\ batch' = <<>>
    /\ UNCHANGED <<db, limit, up, linked, in_epoch, counted>>

Reconnected_AtOnce == TRUE

\* psycopg.connect is called when the store is opened and never again.
Reconnected == FALSE

\* The connection breaks while no answer is due.
Disconnect ==
    /\ linked
    /\ linked' = Reconnected
    /\ UNCHANGED <<mem, db, limit, up, batch, in_epoch, counted>>

\* The connection breaks after COMMIT: the frame is stored, append_frame
\* raises, and the process undoes the charge.
PublishUnheard(k, charged) ==
    /\ Admitted(k, charged)
    /\ AppendFrame(k, charged)
    /\ linked' = Reconnected
    /\ mem' = [mem EXCEPT !.open   = TRUE,
                          !.policy = PolicyAfterFailure(@, charged)]
    /\ batch' = <<>>
    /\ in_epoch' = in_epoch + 1
    /\ counted' = [counted EXCEPT ![k] = 0]
    /\ UNCHANGED <<limit, up>>

-----------------------------------------------------------------------------
\* record_application_outcome, for a frame the gateway remembers.

Remembered(k) == Serving /\ k \in KeysIn(mem.recent_keys)

OutcomeDuplicate(k) ==
    /\ Remembered(k)
    /\ k \in KeysIn(mem.outcome_keys)
    /\ mem' = [mem EXCEPT !.outcome_keys = MoveToEnd(@, k)]
    /\ UNCHANGED <<db, limit, up, linked, batch, in_epoch, counted>>

OutcomeFresh(k) == Remembered(k) /\ k \notin KeysIn(mem.outcome_keys)

Indebted_Paid(p) == [p EXCEPT !.debts = @ - 1]

\* update_application_outcome, reduced to the number of updates.
Indebted(p) == [p EXCEPT !.debts = @ + 1]

OutcomeRowFree_Always(k) == k \in Key

\* The UNIQUE constraint INSERT OR IGNORE meets.
OutcomeRowFree(k) == k \notin KeysIn(db.outcomes)

\* INSERT OR IGNORE inserts: the outcome and the debt are stored together.
CommitOutcome(k) ==
    /\ linked
    /\ k \in KeysIn(db.dedup_keys)
    /\ OutcomeRowFree(k)
    /\ db' = [db EXCEPT !.outcomes  = Newest(Append(@, k), limit.dedup),
                        !.admission = Indebted(mem.policy)]

OutcomeStored(k) ==
    /\ OutcomeFresh(k)
    /\ CommitOutcome(k)
    /\ mem' = [mem EXCEPT !.outcome_keys = Newest(Append(@, k), limit.dedup),
                          !.policy       = Indebted(@)]
    /\ counted' = [counted EXCEPT ![k] = @ + 1]
    /\ UNCHANGED <<limit, up, linked, batch, in_epoch>>

OutcomeThenCrash(k) ==
    /\ OutcomeFresh(k)
    /\ CommitOutcome(k)
    /\ Dies
    /\ counted' = [counted EXCEPT ![k] = @ + 1]
    /\ UNCHANGED in_epoch

\* The connection breaks after COMMIT: the debt is stored and undone in memory.
OutcomeUnheard(k) ==
    /\ OutcomeFresh(k)
    /\ CommitOutcome(k)
    /\ linked' = Reconnected
    /\ mem' = [mem EXCEPT !.policy = PolicyAfterFailure(@, Indebted(@))]
    /\ counted' = [counted EXCEPT ![k] = @ + 1]
    /\ UNCHANGED <<limit, up, batch, in_epoch>>

\* The store knows the outcome, memory does not: the debt is undone.
OutcomeIgnored(k) ==
    /\ OutcomeFresh(k)
    /\ linked
    /\ k \in KeysIn(db.dedup_keys) /\ k \in KeysIn(db.outcomes)
    /\ mem' = [mem EXCEPT !.outcome_keys = Append(@, k),
                          !.policy = PolicyAfterFailure(@, Indebted(@))]
    /\ UNCHANGED <<db, limit, up, linked, batch, in_epoch, counted>>

\* The store has no row for the frame, or fails.
OutcomeFails(k) ==
    /\ OutcomeFresh(k)
    /\ mem' = [mem EXCEPT !.policy = PolicyAfterFailure(@, Indebted(@))]
    /\ UNCHANGED <<db, limit, up, linked, batch, in_epoch, counted>>

-----------------------------------------------------------------------------
\* take: where consumer c stands, clipped to what is still retained.
Cursor(c) ==
    IF mem.consumer_offsets[c] < BaseOffset(mem) THEN BaseOffset(mem)
    ELSE mem.consumer_offsets[c]

\* The cursor after a take: past the first retained record at or after the
\* cursor, or at the end of the history.
NextCursor(c) ==
    LET due == {r \in KeysIn(mem.records) : r.offset >= Cursor(c)}
    IN  IF due # {}
        THEN (CHOOSE r \in due : \A s \in due : r.offset <= s.offset).offset + 1
        ELSE IF Cursor(c) > mem.next_offset THEN Cursor(c) ELSE mem.next_offset

\* set_cursor commits.
CommitCursor(c) ==
    /\ Serving /\ mem.open
    /\ linked
    /\ db' = [db EXCEPT !.cursors[c] = NextCursor(c)]

\* Memory follows and the frame is returned.
Take(c) ==
    /\ CommitCursor(c)
    /\ mem' = [mem EXCEPT !.consumer_offsets[c] = NextCursor(c)]
    /\ UNCHANGED <<limit, up, linked, batch, in_epoch, counted>>

TakeThenCrash(c) ==
    /\ CommitCursor(c)
    /\ Dies
    /\ UNCHANGED <<in_epoch, counted>>

\* The connection breaks after COMMIT: _commit_cursor raises before memory
\* is updated and the frame goes to nobody.
TakeUnheard(c) ==
    /\ CommitCursor(c)
    /\ linked' = Reconnected
    /\ UNCHANGED <<mem, limit, up, batch, in_epoch, counted>>

\* _refresh_epoch: the quota of a new epoch.
EpochReset ==
    /\ up
    /\ mem' = [mem EXCEPT !.policy.total = 0, !.policy.repairs = 0]
    /\ in_epoch' = 0
    /\ UNCHANGED <<db, limit, up, linked, batch, counted>>

Crash ==
    /\ up
    /\ Dies
    /\ UNCHANGED <<db, in_epoch, counted>>

RecoveredCursors_Dropped == [c \in Consumer |-> Absent]

\* The consumer_cursors rows recover reads.
RecoveredCursors == db.cursors

\* recover and load_admission_state: what a new process reads.
Recovered(l, dedup) ==
    [open             |-> dedup # <<>>,
     records          |-> Newest(db.frames, l.frames),
     next_offset      |-> IF db.frames = <<>> THEN 0
                          ELSE db.frames[Len(db.frames)].offset + 1,
     recent_keys      |-> dedup,
     outcome_keys     |-> Cascade(db.outcomes, dedup),
     consumer_offsets |-> RecoveredCursors,
     policy           |-> db.admission]

\* A process starts over the store, possibly with other limits: the surplus
\* rows are deleted; an outcome without its frame key aborts the start.
Restart(l) ==
    LET dedup == Newest(db.dedup_keys, l.dedup)
    IN  /\ ~up
        /\ KeysIn(db.outcomes) \subseteq KeysIn(db.dedup_keys)
        /\ up' = TRUE
        /\ linked' = TRUE
        /\ limit' = l
        /\ mem' = Recovered(l, dedup)
        /\ db' = [db EXCEPT !.frames     = Newest(@, l.frames),
                            !.dedup_keys = dedup,
                            !.outcomes   = Cascade(@, dedup)]
        /\ UNCHANGED <<batch, in_epoch, counted>>

Next ==
    \/ \E n \in 1..MaxBatch : \E keys \in [1..n -> Key] : Receive(keys)
    \/ PublishDuplicate
    \/ PublishRejected
    \/ \E k \in Key : \E p \in Charge(mem.policy) : PublishAccepted(k, p)
    \/ \E k \in Key : \E p \in Charge(mem.policy) : PublishThenCrash(k, p)
    \/ \E k \in Key : \E p \in Charge(mem.policy) : PublishFails(k, p)
    \/ \E k \in Key : \E p \in Charge(mem.policy) : PublishUnheard(k, p)
    \/ \E k \in Key : OutcomeDuplicate(k)
    \/ \E k \in Key : OutcomeStored(k)
    \/ \E k \in Key : OutcomeThenCrash(k)
    \/ \E k \in Key : OutcomeUnheard(k)
    \/ \E k \in Key : OutcomeIgnored(k)
    \/ \E k \in Key : OutcomeFails(k)
    \/ \E c \in Consumer : Take(c)
    \/ \E c \in Consumer : TakeThenCrash(c)
    \/ \E c \in Consumer : TakeUnheard(c)
    \/ Disconnect
    \/ EpochReset
    \/ Crash
    \/ \E l \in Limits : Restart(l)

Spec == Init /\ [][Next]_vars

-----------------------------------------------------------------------------
(* Properties *)

Frame  == [offset : Nat, key : Key]
Policy == [total : Nat, repairs : Nat, cumulative : Nat, debts : Nat]
CursorMap == [Consumer -> Nat \cup {Absent}]

\* Type correctness of the process's memory and of the durable rows.
TypeOK ==
    /\ mem \in [open : BOOLEAN, records : Seq(Frame), next_offset : Nat,
                recent_keys : Seq(Key), outcome_keys : Seq(Key),
                consumer_offsets : CursorMap, policy : Policy]
    /\ db \in [frames : Seq(Frame), dedup_keys : Seq(Key),
               outcomes : Seq(Key), cursors : CursorMap, admission : Policy]
    /\ limit \in Limits
    /\ up \in BOOLEAN
    /\ linked \in BOOLEAN
    /\ batch \in Seq(Key)
    /\ in_epoch \in Nat
    /\ counted \in [Key -> Nat]

\* The store holds what a process that can still write decides from: one
\* started over it now would have the same frames, offsets, cursors and
\* charges, whatever commits failed or went unanswered on the way
\* (append_frame, set_cursor, recover).
Recoverable ==
    linked =>
        /\ mem.records = db.frames
        /\ mem.next_offset = Recovered(limit, db.dedup_keys).next_offset
        /\ mem.consumer_offsets = db.cursors
        /\ mem.policy.cumulative = db.admission.cumulative
        /\ mem.policy.debts = db.admission.debts

\* Every frame ever accepted was charged to the admission policy exactly
\* once, failed commits and restarts included (publish, restore_durable_state).
ChargedOnce == db.admission.cumulative = Recovered(limit, <<>>).next_offset

\* No retained history holds a publication twice, though memory may forget a
\* key the store still has: the UNIQUE dedup row refuses it.
RetainedOnce ==
    \A i, j \in 1..Len(db.frames) :
        db.frames[i].key = db.frames[j].key => i = j

\* A frame's outcome raises the publisher's debt at most once, though memory
\* forgets outcome keys in another order than the store.
DebtedOnce == \A k \in Key : counted[k] <= 1

\* recover can always start: no outcome row outlives the dedup row it needs.
OutcomesHaveFrames == KeysIn(db.outcomes) \subseteq KeysIn(db.dedup_keys)

\* The fleet quota of an epoch holds across crashes and restarts.
EpochQuota == in_epoch <= MaxAccepted + MaxRepairs

\* A consumer's durable cursor never goes back, so no frame is delivered
\* twice to it, whatever crashes and restarts come between.
CursorAdvances ==
    \A c \in Consumer : db'.cursors[c] >= db.cursors[c]
DeliveredOnce == [][CursorAdvances]_vars

=============================================================================
