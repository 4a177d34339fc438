------------------------- MODULE GatewayLeaseProofs -------------------------
(***************************************************************************)
(* The writer fence of GatewayLease holds for any number of processes and  *)
(* instance ids, any lease length, any clock skew and any delay between    *)
(* reading the clock and getting the database lock: the argument uses the  *)
(* fence token and the holder id only, never the time.                     *)
(*                                                                         *)
(* The last part is about RaftGateway: a gateway that asks Raft for its    *)
(* right to write takes no step GatewayLease does not allow, whatever Raft *)
(* answers, so the fence theorems hold of it too.                          *)
(***************************************************************************)
EXTENDS RaftGateway, TLAPS

\* Who can hold which token: ids of live processes differ, tokens are handed
\* out by the row, and whoever has the row's token is the row's holder.
TokensIssued ==
    /\ row.token = 0 => row.holder = None
    /\ \A p \in Process : token[p] <= row.token
    /\ \A p \in Process : pc[p] \in {"new", "gone", "acquiring", "waiting"}
                              => token[p] = 0
    /\ \A p \in Process : pc[p] \in Live => holder[p] # None
    /\ \A p \in Process : pc[p] = "recovering" => token[p] > 0
    /\ \A p, q \in Process :
         pc[p] \in Live /\ pc[q] \in Live /\ holder[p] = holder[q] => p = q
    /\ \A p \in Process :
         token[p] > 0 /\ token[p] = row.token => row.holder = holder[p]

\* The fence invariant: WriterSeesStore is not inductive without knowing who
\* can hold the row's token.
FenceInv == TypeOK /\ TokensIssued /\ WriterSeesStore

USE DEF Live, Calling, Recovered, Stage

\* An empty store with no process started satisfies the fence invariant
\* (the schema GatewayDurableStore's constructor creates).
LEMMA InitFence == Init => FenceInv
  BY LeaseAssumption DEF Init, FenceInv, TypeOK, TokensIssued, WriterSeesStore, Empty

\* Releasing the lease changes its expiry only.
LEMMA ReleaseFacts ==
    ASSUME TypeOK, NEW p \in Process, TryRelease(p)
    PROVE  /\ row' \in [holder : Instance \cup {None}, token : Nat, left : Int]
           /\ row'.holder = row.holder /\ row'.token = row.token
  BY LeaseAssumption DEF TypeOK, TryRelease

\* So does renewing it.
LEMMA RenewFacts ==
    ASSUME TypeOK, NEW p \in Process, RenewRow(p)
    PROVE  /\ row' \in [holder : Instance \cup {None}, token : Nat, left : Int]
           /\ row'.holder = row.holder /\ row'.token = row.token
<1> DEFINE left == Lease - lag[p]
<1>1. left \in Int
  BY LeaseAssumption DEF TypeOK
<1>2. row' = [row EXCEPT !.left = left]
  BY DEF RenewRow
<1> HIDE DEF left
<1> QED BY <1>1, <1>2 DEF TypeOK

\* Every step keeps the types of the row, the tables and the processes
\* (acquire, renew, release and the commits under _verify_writer_lease).
LEMMA TypeStep == TypeOK /\ TokensIssued /\ [Next]_vars => TypeOK'
<1> SUFFICES ASSUME TypeOK, TokensIssued, [Next]_vars PROVE TypeOK'
  OBVIOUS
<1> USE LeaseAssumption DEF TypeOK, Become, Cease, ReadClock, Exit, Empty
<1>1. CASE Tick
  BY <1>1 DEF Tick
<1>2. ASSUME NEW p \in Process, NEW id \in Instance, Start(p, id) PROVE TypeOK'
  BY <1>2 DEF Start
<1>3. ASSUME NEW p \in Process, AcquireFails(p) PROVE TypeOK'
  BY <1>3 DEF AcquireFails
<1>4. ASSUME NEW p \in Process, Retry(p) PROVE TypeOK'
  BY <1>4 DEF Retry
<1>5. ASSUME NEW p \in Process, WaitTimesOut(p) PROVE TypeOK'
  BY <1>5 DEF WaitTimesOut
<1>6. ASSUME NEW p \in Process, Acquire(p) \/ AcquireUnheard(p) PROVE TypeOK'
  <2>1. GrantedToken(p) \in Nat /\ GrantedToken(p) >= row.token
    BY DEF GrantedToken
  <2>2. row' = [holder |-> holder[p], token |-> GrantedToken(p),
                left |-> Lease - lag[p]]
    BY <1>6 DEF Acquire, AcquireUnheard, Grant
  <2>3. row' \in [holder : Instance \cup {None}, token : Nat, left : Int]
    BY <2>1, <2>2
  <2>4. token' = token \/ token' = [token EXCEPT ![p] = GrantedToken(p)]
    BY <1>6 DEF Acquire, AcquireUnheard
  <2>5. token' \in [Process -> Nat]
    BY <2>1, <2>4
  <2>6. /\ pc' \in {[pc EXCEPT ![p] = "recovering"], [pc EXCEPT ![p] = "waiting"]}
        /\ lag' = [lag EXCEPT ![p] = 0]
        /\ UNCHANGED <<db, holder, mem>>
    BY <1>6 DEF Acquire, AcquireUnheard
  <2>7. \A q \in Process : pc'[q] \in Recovered => q # p /\ pc'[q] = pc[q]
    BY <2>6
  <2>8. \A q \in Process : q # p => token'[q] = token[q]
    BY <2>4
  <2> QED
    BY <2>3, <2>5, <2>6, <2>7, <2>8
<1>7. ASSUME NEW p \in Process, Recover(p) PROVE TypeOK'
  BY <1>7 DEF Recover, TokensIssued
<1>8. ASSUME NEW p \in Process, RecoverFails(p) PROVE TypeOK'
  BY <1>8 DEF RecoverFails
<1>9. ASSUME NEW p \in Process, Publish(p) PROVE TypeOK'
  BY <1>9 DEF Publish
<1>10. ASSUME NEW p \in Process, CommitFrame(p) PROVE TypeOK'
  BY <1>10 DEF CommitFrame, AppendRow
<1>11. ASSUME NEW p \in Process, TakeRequest(p) PROVE TypeOK'
  BY <1>11 DEF TakeRequest
<1>12. ASSUME NEW p \in Process, CommitCursor(p) PROVE TypeOK'
  BY <1>12 DEF CommitCursor, MoveRow
<1>13. ASSUME NEW p \in Process, WriteFails(p) PROVE TypeOK'
  BY <1>13 DEF WriteFails
<1>14. ASSUME NEW p \in Process, RenewDue(p) PROVE TypeOK'
  BY <1>14 DEF RenewDue
<1>15. ASSUME NEW p \in Process, Renew(p) PROVE TypeOK'
  <2>1. row' \in [holder : Instance \cup {None}, token : Nat, left : Int]
    BY <1>15, RenewFacts DEF Renew
  <2>2. pc[p] = "renewing"
    BY <1>15 DEF Renew, RenewRow
  <2> QED
    BY <1>15, <2>1, <2>2 DEF Renew
<1>16. ASSUME NEW p \in Process, RenewFails(p) PROVE TypeOK'
  BY <1>16 DEF RenewFails
<1>17. ASSUME NEW p \in Process, Stop(p) PROVE TypeOK'
  BY <1>17 DEF Stop
<1>18. ASSUME NEW p \in Process, Close(p) PROVE TypeOK'
  BY <1>18, ReleaseFacts DEF Close
<1>19. ASSUME NEW p \in Process, Crash(p) PROVE TypeOK'
  BY <1>19 DEF Crash
<1>20. CASE UNCHANGED vars
  BY <1>20 DEF vars
<1>21. ASSUME NEW p \in Process, RecoverUnavailable(p) PROVE TypeOK'
  BY <1>21, ReleaseFacts DEF RecoverUnavailable
<1>22. ASSUME NEW p \in Process, Unheard(p) PROVE TypeOK'
  <2>1. row' \in [holder : Instance \cup {None}, token : Nat, left : Int]
    BY <1>22, RenewFacts DEF Unheard
  <2>2. db' \in [next : Nat, cursor : Nat]
    BY <1>22 DEF Unheard, AppendRow, MoveRow
  <2> QED
    BY <1>22, <2>1, <2>2 DEF Unheard
<1>23. ASSUME NEW p \in Process, SeveredStops(p) PROVE TypeOK'
  BY <1>23 DEF SeveredStops
<1> QED
  BY <1>1, <1>2, <1>3, <1>4, <1>5, <1>6, <1>7, <1>8, <1>9, <1>10, <1>11,
     <1>12, <1>13, <1>14, <1>15, <1>16, <1>17, <1>18, <1>19, <1>20, <1>21,
     <1>22, <1>23 DEF Next, Step

-----------------------------------------------------------------------------
\* A step of a live process that stays live and leaves ids and tokens alone.
LEMMA QuietStep ==
    ASSUME TypeOK, TokensIssued, NEW p \in Process, NEW stage \in Live,
           pc[p] \in Live, pc' = [pc EXCEPT ![p] = stage],
           row'.holder = row.holder, row'.token = row.token,
           UNCHANGED <<holder, token>>,
           stage \in {"acquiring", "waiting"} => token[p] = 0,
           stage = "recovering" => token[p] > 0
    PROVE  TokensIssued'
  BY DEF TypeOK, TokensIssued

\* A process that ends gives up its id and its token.
LEMMA ExitStep ==
    ASSUME TypeOK, TokensIssued, NEW p \in Process, Exit(p),
           row'.holder = row.holder, row'.token = row.token
    PROVE  TokensIssued'
  BY DEF TypeOK, TokensIssued, Exit, Cease, Become

\* What acquire_writer_lease hands out: a positive token no smaller than the
\* row's, and the row's own only to the row's own holder.
LEMMA GrantFacts ==
    ASSUME TypeOK, TokensIssued, NEW p \in Process, pc[p] = "acquiring"
    PROVE  /\ GrantedToken(p) \in Nat
           /\ GrantedToken(p) > 0
           /\ GrantedToken(p) >= row.token
           /\ GrantedToken(p) = row.token => row.holder = holder[p]
  BY DEF TypeOK, TokensIssued, GrantedToken

\* Taking the lease over, heard or not: every other live process has a smaller
\* token.
LEMMA AcquireStep ==
    ASSUME TypeOK, TokensIssued, NEW p \in Process, Acquire(p) \/ AcquireUnheard(p)
    PROVE  /\ TokensIssued'
           /\ \A q \in Process \ {p} :
                pc[q] \in Recovered => token[q] < row'.token
<1> DEFINE g == GrantedToken(p)
<1>1. pc[p] = "acquiring" /\ holder' = holder
      /\ row'.holder = holder[p] /\ row'.token = g
      /\ \/ pc' = [pc EXCEPT ![p] = "recovering"] /\ token' = [token EXCEPT ![p] = g]
         \/ pc' = [pc EXCEPT ![p] = "waiting"] /\ token' = token
  BY DEF Acquire, AcquireUnheard, Grant, Become
<1>2. g \in Nat /\ g > 0 /\ g >= row.token
      /\ (g = row.token => row.holder = holder[p])
  BY <1>1, GrantFacts
<1>a. token[p] = 0
  BY <1>1 DEF TokensIssued
<1> HIDE DEF g
<1>3. ASSUME NEW q \in Process, q # p, token[q] > 0 PROVE token[q] < g
  <2>1. pc[q] \in Live /\ token[q] <= row.token
    BY <1>3 DEF TypeOK, TokensIssued
  <2>a. token[q] \in Nat /\ row.token \in Nat
    BY DEF TypeOK
  <2>2. SUFFICES ASSUME token[q] = g PROVE FALSE
    BY <1>2, <2>1, <2>a
  <2>3. g = row.token
    BY <1>2, <2>1, <2>2, <2>a
  <2>4. row.holder = holder[p] /\ row.holder = holder[q]
    BY <1>2, <1>3, <2>2, <2>3 DEF TokensIssued
  <2> QED
    BY <1>1, <1>3, <2>1, <2>4 DEF TokensIssued
<1>4. \A q \in Process \ {p} : pc[q] \in Recovered => token[q] < row'.token
  BY <1>1, <1>3 DEF TypeOK
<1>5. TokensIssued'
  <2>1. row'.token # 0
    BY <1>1, <1>2
  <2>2. \A q \in Process : token'[q] <= row'.token
    BY <1>1, <1>2, <1>a DEF TypeOK, TokensIssued
  <2>3. \A q \in Process : token'[q] > 0 /\ token'[q] = row'.token
                               => row'.holder = holder'[q]
    <3>1. SUFFICES ASSUME NEW q \in Process, token'[q] > 0,
                          token'[q] = row'.token
                   PROVE  q = p
      BY <1>1
    <3>2. SUFFICES ASSUME q # p PROVE FALSE
      OBVIOUS
    <3>3. token'[q] = token[q] /\ token[q] \in Nat
      BY <1>1, <3>2 DEF TypeOK
    <3> QED
      BY <1>1, <1>2, <1>3, <3>1, <3>2, <3>3
  <2>4. \A q \in Process :
          /\ pc'[q] \in {"new", "gone", "acquiring", "waiting"} => token'[q] = 0
          /\ pc'[q] \in Live => holder'[q] # None
          /\ pc'[q] = "recovering" => token'[q] > 0
    BY <1>1, <1>2, <1>a DEF TypeOK, TokensIssued
  <2>5. \A q, r \in Process :
          pc'[q] \in Live /\ pc'[r] \in Live /\ holder'[q] = holder'[r] => q = r
    BY <1>1 DEF TypeOK, TokensIssued
  <2> QED
    BY <2>1, <2>2, <2>3, <2>4, <2>5 DEF TokensIssued
<1> QED
  BY <1>4, <1>5

\* TokensIssued is inductive.
LEMMA TokensStep == TypeOK /\ TokensIssued /\ [Next]_vars => TokensIssued'
<1> SUFFICES ASSUME TypeOK, TokensIssued, [Next]_vars PROVE TokensIssued'
  OBVIOUS
<1>1. CASE Tick
  BY <1>1 DEF Tick, TypeOK, TokensIssued
<1>2. ASSUME NEW p \in Process, NEW id \in Instance, Start(p, id)
      PROVE  TokensIssued'
  BY <1>2, LeaseAssumption DEF Start, ReadClock, TypeOK, TokensIssued
<1>3. ASSUME NEW p \in Process, AcquireFails(p) \/ Retry(p)
      PROVE  TokensIssued'
  BY <1>3, QuietStep DEF AcquireFails, Retry, Become, ReadClock, TokensIssued
<1>4. ASSUME NEW p \in Process, WaitTimesOut(p) \/ SeveredStops(p) \/ Crash(p)
      PROVE  TokensIssued'
  BY <1>4, ExitStep DEF WaitTimesOut, SeveredStops, Crash
<1>5. ASSUME NEW p \in Process, Acquire(p) \/ AcquireUnheard(p) PROVE TokensIssued'
  BY <1>5, AcquireStep
<1>6. ASSUME NEW p \in Process,
             \/ Recover(p) \/ RecoverFails(p) \/ CommitFrame(p)
             \/ CommitCursor(p) \/ WriteFails(p) \/ RenewFails(p) \/ Stop(p)
      PROVE  TokensIssued'
  BY <1>6, QuietStep DEF Recover, RecoverFails, CommitFrame, CommitCursor,
     AppendRow, MoveRow, WriteFails, RenewFails, Stop, Cease, Become
<1>7. ASSUME NEW p \in Process, Publish(p) \/ TakeRequest(p) \/ RenewDue(p)
      PROVE  TokensIssued'
  BY <1>7, QuietStep DEF Publish, TakeRequest, RenewDue, ReadClock
<1>8. ASSUME NEW p \in Process, Renew(p) PROVE TokensIssued'
  <2>1. row'.holder = row.holder /\ row'.token = row.token
    BY <1>8, RenewFacts DEF Renew
  <2> QED
    BY <1>8, <2>1, QuietStep DEF Renew, RenewRow, Become
<1>9. ASSUME NEW p \in Process, Close(p) PROVE TokensIssued'
  <2>1. row'.holder = row.holder /\ row'.token = row.token
    BY <1>9, ReleaseFacts DEF Close
  <2> QED
    BY <1>9, <2>1, ExitStep DEF Close
<1>10. ASSUME NEW p \in Process, RecoverUnavailable(p) PROVE TokensIssued'
  <2>1. row'.holder = row.holder /\ row'.token = row.token
    BY <1>10, ReleaseFacts DEF RecoverUnavailable
  <2> QED
    BY <1>10, <2>1 DEF RecoverUnavailable, Become, TypeOK, TokensIssued
<1>11. ASSUME NEW p \in Process, Unheard(p) PROVE TokensIssued'
  <2>1. row'.holder = row.holder /\ row'.token = row.token
    BY <1>11, RenewFacts DEF Unheard
  <2>2. pc[p] \in Live
    BY <1>11 DEF Unheard, AppendRow, MoveRow, RenewRow
  <2> QED
    BY <1>11, <2>1, <2>2, QuietStep DEF Unheard, Cease, Become
<1>12. CASE UNCHANGED vars
  BY <1>12 DEF vars, TokensIssued
<1> QED
  BY <1>1, <1>2, <1>3, <1>4, <1>5, <1>6, <1>7, <1>8, <1>9, <1>10, <1>11, <1>12
     DEF Next, Step

-----------------------------------------------------------------------------
\* The invariant of the fence follows from who may hold the row's token.
LEMMA OneFenceHolds == TypeOK /\ TokensIssued => OneFence
  BY DEF TypeOK, TokensIssued, OneFence

\* The tables never go back, because whoever passes the fence has seen them.
LEMMA WriteFacts ==
    ASSUME TypeOK, WriterSeesStore, NEW p \in Process, AppendRow(p) \/ MoveRow(p)
    PROVE  /\ pc[p] \in Recovered /\ row.holder = holder[p] /\ row.token = token[p]
           /\ mem[p] = db
           /\ db'.next >= db.next /\ db'.cursor >= db.cursor
<1>1. pc[p] \in Recovered /\ row.holder = holder[p] /\ row.token = token[p]
  BY DEF AppendRow, MoveRow, Verified
<1>2. mem[p] = db
  BY <1>1 DEF WriterSeesStore
<1> QED BY <1>1, <1>2 DEF AppendRow, MoveRow, TypeOK

\* Who passes the fence is the only one who does.
LEMMA OnlyWriter ==
    ASSUME TypeOK, TokensIssued, NEW p \in Process, NEW q \in Process,
           {pc[p], pc[q]} \subseteq Recovered,
           row.holder = holder[p], row.holder = holder[q]
    PROVE  p = q
  BY DEF TokensIssued

\* A process that passes the fence writes what it alone has seen.
LEMMA CommitStep ==
    ASSUME TypeOK, TokensIssued, WriterSeesStore, NEW p \in Process,
           CommitFrame(p) \/ CommitCursor(p)
    PROVE  WriterSeesStore'
<1>1. /\ pc[p] \in Recovered /\ row.holder = holder[p] /\ row.token = token[p]
      /\ mem[p] = db
  BY WriteFacts DEF CommitFrame, CommitCursor
<1>2. mem'[p] = db'
  BY <1>1 DEF CommitFrame, CommitCursor, AppendRow, MoveRow, TypeOK
<1>3. UNCHANGED <<row, holder, token>> /\ pc' = [pc EXCEPT ![p] = "serving"]
  BY DEF CommitFrame, CommitCursor, Become
<1>4. ASSUME NEW q \in Process, pc'[q] \in Recovered, row'.holder = holder'[q]
      PROVE  q = p
  BY <1>1, <1>3, <1>4, OnlyWriter DEF TypeOK
<1> QED
  BY <1>2, <1>4 DEF WriterSeesStore

\* Nobody is left to write from an old view after an answer was lost.
LEMMA UnheardStep ==
    ASSUME TypeOK, TokensIssued, WriterSeesStore, NEW p \in Process, Unheard(p)
    PROVE  WriterSeesStore'
<1>1. /\ row'.holder = row.holder /\ row'.token = row.token
      /\ UNCHANGED <<holder, token>>
      /\ pc' = [pc EXCEPT ![p] = "severed"] /\ mem' = [mem EXCEPT ![p] = Empty]
  BY RenewFacts DEF Unheard, Cease, Become
<1>2. ASSUME NEW q \in Process, pc'[q] \in Recovered,
             row'.holder = holder'[q], row'.token = token'[q]
      PROVE  mem'[q] = db'
  <2>1. q # p /\ pc'[q] = pc[q] /\ mem'[q] = mem[q]
    BY <1>1, <1>2 DEF TypeOK
  <2>2. mem[q] = db
    BY <1>1, <1>2, <2>1 DEF WriterSeesStore
  <2>3. pc[p] \in Recovered /\ row.holder = holder[p]
    BY DEF Unheard, AppendRow, MoveRow, RenewRow, Verified
  <2> QED
    BY <1>1, <1>2, <2>1, <2>3, OnlyWriter
<1> QED
  BY <1>2 DEF WriterSeesStore

\* A step that leaves the tables, the row's holder and token, and the ids and
\* tokens alone, makes no process recovered and keeps the views of those that are.
LEMMA UnseenStep ==
    ASSUME WriterSeesStore, row'.holder = row.holder, row'.token = row.token,
           UNCHANGED <<db, holder, token>>,
           \A p \in Process :
             pc'[p] \in Recovered => pc[p] \in Recovered /\ mem'[p] = mem[p]
    PROVE  WriterSeesStore'
  BY DEF WriterSeesStore

\* WriterSeesStore is inductive relative to TokensIssued.
LEMMA SeesStep ==
    ASSUME TypeOK, TokensIssued, WriterSeesStore, [Next]_vars
    PROVE  WriterSeesStore'
<1>1. CASE Tick
  <2>1. row'.holder = row.holder /\ row'.token = row.token
    BY <1>1 DEF Tick, TypeOK
  <2> QED
    BY <1>1, <2>1, UnseenStep DEF Tick
<1>2. ASSUME NEW p \in Process, NEW id \in Instance, Start(p, id)
      PROVE  WriterSeesStore'
  BY <1>2 DEF Start, ReadClock, TypeOK, WriterSeesStore
<1>3. ASSUME NEW p \in Process,
             \/ AcquireFails(p) \/ Retry(p) \/ RecoverFails(p) \/ Publish(p)
             \/ TakeRequest(p) \/ WriteFails(p) \/ RenewDue(p)
             \/ RenewFails(p) \/ Stop(p)
      PROVE  WriterSeesStore'
  <2>1. UNCHANGED <<row, db, holder, token>>
    BY <1>3 DEF AcquireFails, Retry, RecoverFails, Publish, TakeRequest,
       WriteFails, RenewDue, RenewFails, Stop
  <2>2. \A q \in Process :
          pc'[q] \in Recovered => pc[q] \in Recovered /\ mem'[q] = mem[q]
    BY <1>3 DEF AcquireFails, Retry, RecoverFails, Publish, TakeRequest,
       WriteFails, RenewDue, RenewFails, Stop, Cease, Become, ReadClock, TypeOK
  <2> QED
    BY <2>1, <2>2, UnseenStep
<1>4. ASSUME NEW p \in Process,
             WaitTimesOut(p) \/ SeveredStops(p) \/ Crash(p) \/ Close(p)
      PROVE  WriterSeesStore'
  <2>1. db' = db /\ row'.holder = row.holder /\ row'.token = row.token
    BY <1>4, ReleaseFacts DEF WaitTimesOut, SeveredStops, Crash, Close
  <2>2. Exit(p)
    BY <1>4 DEF WaitTimesOut, SeveredStops, Crash, Close
  <2> QED
    BY <2>1, <2>2 DEF Exit, Cease, Become, TypeOK, WriterSeesStore
<1>5. ASSUME NEW p \in Process, Acquire(p) \/ AcquireUnheard(p) PROVE WriterSeesStore'
  <2>1. \A q \in Process \ {p} : pc[q] \in Recovered => token[q] < row'.token
    BY <1>5, AcquireStep
  <2>2. /\ pc' \in {[pc EXCEPT ![p] = "recovering"], [pc EXCEPT ![p] = "waiting"]}
        /\ token' \in {token, [token EXCEPT ![p] = GrantedToken(p)]}
    BY <1>5 DEF Acquire, AcquireUnheard, Become
  <2>3. \A q \in Process : pc'[q] \in Recovered => token'[q] < row'.token
    BY <2>1, <2>2 DEF TypeOK
  <2>4. \A q \in Process : token'[q] \in Nat
    <3>1. GrantedToken(p) \in Nat
      BY <1>5, GrantFacts DEF Acquire, AcquireUnheard, Grant
    <3> QED
      BY <2>2, <3>1 DEF TypeOK
  <2> QED
    BY <2>3, <2>4 DEF WriterSeesStore
<1>6. ASSUME NEW p \in Process, Recover(p) PROVE WriterSeesStore'
  BY <1>6 DEF Recover, Become, TypeOK, WriterSeesStore
<1>7. ASSUME NEW p \in Process, CommitFrame(p) \/ CommitCursor(p)
      PROVE  WriterSeesStore'
  BY <1>7, CommitStep
<1>8. ASSUME NEW p \in Process, Renew(p) PROVE WriterSeesStore'
  <2>1. row'.holder = row.holder /\ row'.token = row.token
    BY <1>8, RenewFacts DEF Renew
  <2>2. \A q \in Process : pc'[q] \in Recovered => pc[q] \in Recovered
    BY <1>8 DEF Renew, RenewRow, Become, TypeOK
  <2> QED
    BY <1>8, <2>1, <2>2, UnseenStep DEF Renew
<1>9. ASSUME NEW p \in Process, RecoverUnavailable(p) PROVE WriterSeesStore'
  <2>1. row'.holder = row.holder /\ row'.token = row.token
    BY <1>9, ReleaseFacts DEF RecoverUnavailable
  <2> QED
    BY <1>9, <2>1 DEF RecoverUnavailable, Become, TypeOK, WriterSeesStore
<1>10. ASSUME NEW p \in Process, Unheard(p) PROVE WriterSeesStore'
  BY <1>10, UnheardStep
<1>11. CASE UNCHANGED vars
  BY <1>11 DEF vars, WriterSeesStore
<1> QED
  BY <1>1, <1>2, <1>3, <1>4, <1>5, <1>6, <1>7, <1>8, <1>9, <1>10, <1>11
     DEF Next, Step

-----------------------------------------------------------------------------
\* The fence invariant holds in every reachable state.
THEOREM FenceInvariant == Spec => []FenceInv
<1>1. FenceInv /\ [Next]_vars => FenceInv'
  BY TypeStep, TokensStep, SeesStep DEF FenceInv
<1> QED
  BY InitFence, <1>1, PTL DEF Spec

\* The lease row, the tables and the processes keep their types, and whoever
\* serves has an id and a token (GatewayDurableStore's lease state).
THEOREM LeaseTypes == Spec => []TypeOK
<1>1. FenceInv => TypeOK
  BY DEF FenceInv
<1> QED
  BY FenceInvariant, <1>1, PTL

\* At most one live process holds the fence token of the row
\* (acquire_writer_lease).
THEOREM FenceIsExclusive == Spec => []OneFence
<1>1. FenceInv => OneFence
  BY OneFenceHolds DEF FenceInv
<1> QED
  BY FenceInvariant, <1>1, PTL

\* Whoever passes _verify_writer_lease has seen all that was written.
THEOREM WriterIsCurrent == Spec => []WriterSeesStore
<1>1. FenceInv => WriterSeesStore
  BY DEF FenceInv
<1> QED
  BY FenceInvariant, <1>1, PTL

\* No step moves an offset or a cursor of the store back.
THEOREM StoreNeverGoesBack == Spec => StoreGrows
<1>1. ASSUME FenceInv, [Next]_vars
      PROVE  [db'.next >= db.next /\ db'.cursor >= db.cursor]_vars
  <2>1. ASSUME NEW p \in Process, AppendRow(p) \/ MoveRow(p)
        PROVE  db'.next >= db.next /\ db'.cursor >= db.cursor
    BY <1>1, <2>1, WriteFacts DEF FenceInv
  <2>2. CASE db' = db
    BY <1>1, <2>2 DEF FenceInv, TypeOK
  <2>3. \/ db' = db
        \/ \E p \in Process : AppendRow(p) \/ MoveRow(p)
    BY <1>1 DEF Next, Step, vars, Tick, Start, AcquireFails, Retry,
       WaitTimesOut, Acquire, AcquireUnheard, Recover, RecoverFails,
       RecoverUnavailable, Publish, CommitFrame, TakeRequest, CommitCursor,
       WriteFails, Unheard, SeveredStops, RenewDue, Renew, RenewFails, Stop,
       Close, Crash
  <2> QED
    BY <2>1, <2>2, <2>3
<1> QED
  BY FenceInvariant, <1>1, PTL DEF Spec, StoreGrows

-----------------------------------------------------------------------------
(* Gateways coupled to Raft *)

\* Terms come from elections: all that a start-up needs to have a holder id.
TermsIssued ==
    /\ leads \in [Node -> 0..term]
    /\ term \in 0..MaxTerm

\* No node has been elected.
LEMMA InitTerms == RaftInit => TermsIssued
  BY HomeAssumption DEF RaftInit, TermsIssued

\* An election issues the next term, a demotion takes one back, and no
\* gateway touches either.
LEMMA TermsStep == TermsIssued /\ [RaftNext]_allVars => TermsIssued'
<1> SUFFICES ASSUME TermsIssued, [RaftNext]_allVars PROVE TermsIssued'
  OBVIOUS
<1> USE HomeAssumption
<1>1. ASSUME NEW n \in Node, Elect(n) PROVE TermsIssued'
  <2>1. term' = term + 1 /\ term < MaxTerm
    BY <1>1 DEF Elect
  <2>2. term' \in 0..MaxTerm
    BY <2>1 DEF TermsIssued
  <2>3. leads' = [leads EXCEPT ![n] = term + 1]
    BY <1>1 DEF Elect
  <2>4. leads' \in [Node -> 0..term']
    BY <2>1, <2>2, <2>3 DEF TermsIssued
  <2> QED BY <2>2, <2>4 DEF TermsIssued
<1>2. ASSUME NEW n \in Node, Demote(n) PROVE TermsIssued'
  BY <1>2 DEF Demote, TermsIssued
<1>3. CASE leads' = leads /\ term' = term
  BY <1>3 DEF TermsIssued
<1>4. \/ \E n \in Node : Elect(n) \/ Demote(n)
      \/ leads' = leads /\ term' = term
  BY DEF RaftNext, allVars, raftVars, StartAsLeader, AsBefore, Commits,
         RenewalDue, RenewThenAsk, StillLeader, NoLongerLeader, Ends
<1> QED BY <1>1, <1>2, <1>3, <1>4

\* Each step of a gateway under Raft is a step of a gateway, or none: a
\* refusal by Raft stops a service the way a signal does.
LEMMA StepIsLeaseStep == TermsIssued /\ [RaftNext]_allVars => [Next]_vars
<1> SUFFICES ASSUME TermsIssued, [RaftNext]_allVars PROVE [Next]_vars
  OBVIOUS
<1>1. CASE \/ UNCHANGED allVars
           \/ \E n \in Node : Elect(n) \/ Demote(n)
           \/ \E p \in Process : StillLeader(p)
  BY <1>1 DEF Elect, Demote, StillLeader, allVars
<1>2. CASE Tick /\ UNCHANGED raftVars
  BY <1>2 DEF Next
<1>3. ASSUME NEW p \in Process, StartAsLeader(p) PROVE Next
  <2> DEFINE id == <<Home[p], leads[Home[p]]>>
  <2>1. Home[p] \in Node /\ leads[Home[p]] \in 1..MaxTerm
    BY <1>3, HomeAssumption DEF StartAsLeader, TermsIssued
  <2>2. id \in Instance
    BY <2>1, HomeAssumption
  <2>3. Start(p, id)
    BY <1>3 DEF StartAsLeader
  <2> QED BY <2>2, <2>3 DEF Next
<1>4. ASSUME NEW p \in Process, NoLongerLeader(p) PROVE Next
  <2>1. Stop(p)
    BY <1>4 DEF NoLongerLeader, Stop
  <2> QED BY <2>1 DEF Next, Step
<1>5. ASSUME NEW p \in Process,
             AsBefore(p) \/ Commits(p) \/ RenewalDue(p) \/ RenewThenAsk(p)
                 \/ Ends(p)
      PROVE  Next
  <2>1. Step(p)
    BY <1>5 DEF AsBefore, Commits, RenewalDue, RenewThenAsk, Ends, Step
  <2> QED BY <2>1 DEF Next
<1> QED BY <1>1, <1>2, <1>3, <1>4, <1>5 DEF RaftNext

\* The gateways of raft_writer_lease.py implement the lease protocol of
\* quic_gateway_state.py: asking Raft as well never adds a behaviour.
THEOREM RaftImplementsLease == RaftSpec => ImplementsLease
<1>1. RaftInit => Init
  BY DEF RaftInit
<1> QED BY <1>1, InitTerms, TermsStep, StepIsLeaseStep, PTL
     DEF RaftSpec, Spec, ImplementsLease

\* What a step can do to the holder ids: a start-up makes one of the term its
\* node reports, an exit takes one back (run_service, require_leadership).
LEMMA HolderStep ==
  ASSUME [RaftNext]_allVars
  PROVE  \/ holder' = holder
         \/ \E p \in Process : holder' = [holder EXCEPT ![p] = None]
         \/ \E p \in Process :
              /\ leads[Home[p]] > 0
              /\ UNCHANGED <<leads, term>>
              /\ holder' = [holder EXCEPT ![p] = <<Home[p], leads[Home[p]]>>]
<1>1. CASE UNCHANGED allVars \/ (Tick /\ UNCHANGED raftVars)
  BY <1>1 DEF allVars, vars, Tick
<1>2. CASE \E n \in Node : Elect(n) \/ Demote(n)
  BY <1>2 DEF Elect, Demote, vars
<1>3. ASSUME NEW p \in Process, StartAsLeader(p)
      PROVE  /\ leads[Home[p]] > 0
             /\ UNCHANGED <<leads, term>>
             /\ holder' = [holder EXCEPT ![p] = <<Home[p], leads[Home[p]]>>]
  BY <1>3 DEF StartAsLeader, Start, raftVars
<1>4. ASSUME NEW p \in Process, AsBefore(p)
      PROVE  holder' = holder \/ holder' = [holder EXCEPT ![p] = None]
  BY <1>4 DEF AsBefore, AcquireFails, Retry, Acquire, AcquireUnheard, Recover,
              RecoverFails, RecoverUnavailable, Publish, TakeRequest, WriteFails, RenewFails, Exit
<1>5. ASSUME NEW p \in Process,
             Commits(p) \/ RenewalDue(p) \/ RenewThenAsk(p) \/ StillLeader(p)
                 \/ NoLongerLeader(p)
      PROVE  holder' = holder
  BY <1>5 DEF Commits, CommitFrame, CommitCursor, Unheard, RenewalDue, RenewDue,
              RenewThenAsk, Renew, StillLeader, NoLongerLeader, vars
<1>6. ASSUME NEW p \in Process, Ends(p)
      PROVE  holder' = holder \/ holder' = [holder EXCEPT ![p] = None]
  BY <1>6 DEF Ends, WaitTimesOut, Stop, Close, SeveredStops, Crash, Exit
<1> QED BY <1>1, <1>2, <1>3, <1>4, <1>5, <1>6 DEF RaftNext

\* Every step keeps the types of the Raft side: terms in holder ids were
\* issued, because a gateway only takes a term its own node leads in.
LEMMA RaftTypeStep ==
  TypeOK /\ TermsIssued /\ TermsIssued' /\ RaftTypeOK /\ [RaftNext]_allVars => RaftTypeOK'
<1> SUFFICES ASSUME TypeOK, TermsIssued, TermsIssued', RaftTypeOK, [RaftNext]_allVars
             PROVE  RaftTypeOK'
  OBVIOUS
<1>1. asking' \subseteq Process
  BY DEF RaftTypeOK, RaftNext, allVars, raftVars, Elect, Demote, StartAsLeader,
         AsBefore, Commits, RenewalDue, RenewThenAsk, StillLeader,
         NoLongerLeader, Ends
<1>2. term \in Nat /\ term' \in Nat /\ term <= term'
  <2>1. term' = term \/ term' = term + 1
    BY DEF RaftNext, allVars, raftVars, Elect, Demote, StartAsLeader,
           AsBefore, Commits, RenewalDue, RenewThenAsk, StillLeader,
           NoLongerLeader, Ends
  <2> QED BY <2>1, HomeAssumption DEF TermsIssued
<1>3. ASSUME NEW p \in Process, holder'[p] # None
      PROVE  holder'[p][1] = Home[p] /\ holder'[p][2] \in 1..term'
  <2>1. CASE holder'[p] = holder[p]
    BY <1>2, <1>3, <2>1 DEF RaftTypeOK, TermOf
  <2>2. CASE leads[Home[p]] > 0 /\ holder'[p] = <<Home[p], leads[Home[p]]>>
    BY <1>2, <2>2, HomeAssumption DEF TermsIssued
  <2>3. \/ holder'[p] = holder[p] \/ holder'[p] = None
        \/ leads[Home[p]] > 0 /\ holder'[p] = <<Home[p], leads[Home[p]]>>
    BY HolderStep DEF TypeOK
  <2> QED BY <1>3, <2>1, <2>2, <2>3
<1> QED BY <1>1, <1>3 DEF RaftTypeOK, TermsIssued, TermOf

\* The Raft side of the gateways keeps its types, and no gateway ever serves
\* under a term that was not issued or under another node's name.
THEOREM RaftTypes == RaftSpec => []RaftTypeOK
<1>1. RaftInit => RaftTypeOK
  BY HomeAssumption DEF RaftInit, Init, RaftTypeOK
<1>2. RaftSpec => []TypeOK
  BY RaftImplementsLease, LeaseTypes, PTL DEF ImplementsLease
<1>3. RaftSpec => []TermsIssued
  BY InitTerms, TermsStep, PTL DEF RaftSpec
<1> QED BY <1>1, <1>2, <1>3, RaftTypeStep, PTL DEF RaftSpec

\* A gateway whose writes pass the fence has seen everything written, even
\* one whose Raft term is over.
THEOREM RaftWriterIsCurrent == RaftSpec => []WriterSeesStore
  BY RaftImplementsLease, WriterIsCurrent, PTL DEF ImplementsLease

=============================================================================
