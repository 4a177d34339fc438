------------------------ MODULE GatewayHistoryProofs ------------------------
(***************************************************************************)
(* What GatewayHistory promises for any keys, consumers, limits and quota. *)
(* The inductive invariant has two halves: what the tables satisfy on      *)
(* their own (StoreInv), and how the memory of a process that can still    *)
(* write relates to them (MemoryInv).                                      *)
(***************************************************************************)
EXTENDS GatewayHistory, NatFacts, SequenceTheorems, FiniteSetTheorems

Distinct(s) == \A i, j \in 1..Len(s) : s[i] = s[j] => i = j

\* The offset after the last stored frame.
StoreNext == IF db.frames = <<>> THEN 0
             ELSE db.frames[Len(db.frames)].offset + 1

StoreType ==
    /\ db \in [frames : Seq(Frame), dedup_keys : Seq(Key),
               outcomes : Seq(Key), cursors : CursorMap, admission : Policy]
    /\ limit \in Limits
    /\ in_epoch \in Nat
    /\ counted \in [Key -> Nat]

\* The tables are within the limits of the process that wrote them last.
Trimmed ==
    /\ Len(db.frames) <= limit.frames
    /\ Len(db.dedup_keys) <= limit.dedup

\* Frames have consecutive offsets.
Contiguous ==
    \A i \in 1..Len(db.frames) :
        db.frames[i].offset = StoreNext - Len(db.frames) + i - 1

\* The retained frames are the newest dedup rows.
FramesRemembered ==
    /\ Len(db.frames) <= Len(db.dedup_keys)
    /\ \A i \in 1..Len(db.frames) :
          db.frames[i].key
            = db.dedup_keys[Len(db.dedup_keys) - Len(db.frames) + i]

\* A frame that raised the debt has an outcome row while it has a dedup row.
DebtsRecorded ==
    \A k \in Key : /\ counted[k] <= 1
                   /\ counted[k] = 1 /\ k \in KeysIn(db.dedup_keys)
                        => k \in KeysIn(db.outcomes)

Within(p) == p.total <= MaxAccepted /\ p.repairs <= MaxRepairs
Spent(p)  == p.total + p.repairs

StoreInv ==
    /\ StoreType
    /\ Trimmed
    /\ Contiguous
    /\ FramesRemembered
    /\ Distinct(db.dedup_keys)
    /\ Distinct(db.outcomes)
    /\ OutcomesHaveFrames
    /\ DebtsRecorded
    /\ db.admission.cumulative = StoreNext
    /\ Within(db.admission)
    /\ in_epoch <= Spent(db.admission)

Memory == [open : BOOLEAN, records : Seq(Frame), next_offset : Nat,
           recent_keys : Seq(Key), outcome_keys : Seq(Key),
           consumer_offsets : CursorMap, policy : Policy]

MemoryType ==
    /\ mem \in Memory
    /\ up \in BOOLEAN
    /\ linked \in BOOLEAN
    /\ batch \in Seq(Key)

\* Memory agrees with the store as long as it can write to it.
Agrees ==
    /\ mem.records = db.frames
    /\ mem.next_offset = StoreNext
    /\ mem.consumer_offsets = db.cursors
    /\ mem.policy.cumulative = db.admission.cumulative
    /\ mem.policy.debts = db.admission.debts
    /\ in_epoch <= Spent(mem.policy)

MemoryInv ==
    /\ MemoryType
    /\ Within(mem.policy)
    /\ linked => Agrees

-----------------------------------------------------------------------------
(* The operators on sequences *)

\* A set of positions of a sequence is finite.
LEMMA PositionsFinite ==
    ASSUME NEW L \in Nat, NEW S \in SUBSET (1..L)
    PROVE  IsFiniteSet(S) /\ Cardinality(S) \in Nat
<1>1. 1 \in Int /\ L \in Int
  OBVIOUS
<1>2. IsFiniteSet(1..L)
  BY <1>1, FS_Interval
<1>3. IsFiniteSet(S)
  BY <1>2, FS_Subset
<1> QED BY <1>3, FS_CardinalityType

Enumerates(f, S) ==
    LET n == Cardinality(S)
    IN  /\ f \in [1..n -> S]
        /\ \A i, j \in 1..n : i < j => f[i] < f[j]
        /\ \A p \in S : \E i \in 1..n : f[i] = p

\* A finite set of positions can be enumerated in increasing order: the
\* least size without an enumeration would have one, by the set without its
\* greatest position.
LEMMA EnumerationExists ==
    ASSUME NEW L \in Nat, NEW S \in SUBSET (1..L)
    PROVE  \E f : Enumerates(f, S)
<1> DEFINE Bad == {n \in Nat : \E T \in SUBSET (1..L) :
                      Cardinality(T) = n /\ ~ \E f : Enumerates(f, T)}
<1>1. \A T \in SUBSET (1..L) : IsFiniteSet(T) /\ Cardinality(T) \in Nat
  BY PositionsFinite
<1>2. Bad = {}
  <2> SUFFICES ASSUME Bad # {} PROVE FALSE
    OBVIOUS
  <2>1. Bad \in SUBSET Nat
    OBVIOUS
  <2> HIDE DEF Bad
  <2>2. PICK n \in Bad : \A m \in Bad : n <= m
    BY <2>1, NatMin
  <2>3. PICK T \in SUBSET (1..L) :
            Cardinality(T) = n /\ ~ \E f : Enumerates(f, T)
    BY <2>2 DEF Bad
  <2>4. n \in Nat
    BY <2>1, <2>2
  <2>5. CASE T = {}
    <3>1. Cardinality(T) = 0
      BY <2>5, FS_EmptySet
    <3>2. Enumerates([i \in 1..0 |-> 0], T)
      BY <3>1, <2>5 DEF Enumerates
    <3> QED BY <3>2, <2>3
  <2>6. CASE T # {}
    <3>1. T \in SUBSET Nat /\ \A i \in T : i <= L
      OBVIOUS
    <3>2. PICK m \in T : \A j \in T : j <= m
      BY <3>1, <2>6, NatBoundedMax
    <3> DEFINE U == T \ {m}
    <3>3. U \in SUBSET (1..L) /\ Cardinality(U) = n - 1
      BY <1>1, <2>3, <3>2, FS_RemoveElement
    <3>4. n - 1 \in Nat /\ n - 1 \notin Bad
      BY <1>1, <2>2, <2>4, <3>3
    <3>5. PICK g : Enumerates(g, U)
      BY <3>3, <3>4 DEF Bad
    <3> DEFINE f == [i \in 1..n |-> IF i = n THEN m ELSE g[i]]
    <3>6. g \in [1..(n - 1) -> U]
      BY <3>3, <3>5 DEF Enumerates
    <3>6a. \A i \in 1..n : i # n => i \in 1..(n - 1)
      BY <2>4
    <3>7. f \in [1..n -> T]
      BY <3>2, <3>6, <3>6a
    <3>8. ASSUME NEW i \in 1..n, NEW j \in 1..n, i < j PROVE f[i] < f[j]
      <4>1. i \in 1..(n - 1)
        BY <2>4, <3>8
      <4>2. g[i] \in T /\ g[i] # m /\ g[i] \in Nat /\ m \in Nat /\ g[i] <= m
        BY <4>1, <3>1, <3>2, <3>6
      <4>3. CASE j = n
        BY <4>1, <4>2, <4>3, <2>4
      <4>4. CASE j # n
        <5>1. j \in 1..(n - 1)
          BY <4>4, <3>6a
        <5>2. g[i] < g[j]
          BY <5>1, <4>1, <3>3, <3>5, <3>8 DEF Enumerates
        <5> QED BY <5>1, <5>2, <4>1, <2>4
      <4> QED BY <4>3, <4>4
    <3>9. ASSUME NEW p \in T PROVE \E i \in 1..n : f[i] = p
      <4>1. CASE p = m
        <5>1. n \in 1..n
          BY <3>4, <2>4
        <5> QED BY <5>1, <4>1
      <4>2. CASE p # m
        <5>1. PICK i \in 1..(n - 1) : g[i] = p
          BY <4>2, <3>3, <3>5 DEF Enumerates
        <5>2. i \in 1..n /\ i # n
          BY <2>4
        <5> QED BY <5>1, <5>2
      <4> QED BY <4>1, <4>2
    <3> HIDE DEF f
    <3>10. Enumerates(f, T)
      BY <2>3, <3>7, <3>8, <3>9 DEF Enumerates
    <3> QED BY <3>10, <2>3
  <2> QED BY <2>5, <2>6
<1>3. Cardinality(S) \in Nat /\ Cardinality(S) \notin Bad
  BY <1>1, <1>2
<1> QED BY <1>3 DEF Bad

\* InOrder lists every position once, in increasing order.
LEMMA InOrderFacts ==
    ASSUME NEW L \in Nat, NEW S \in SUBSET (1..L)
    PROVE  /\ Cardinality(S) \in Nat
           /\ InOrder(S) \in [1..Cardinality(S) -> S]
           /\ \A i, j \in 1..Cardinality(S) : i < j => InOrder(S)[i] < InOrder(S)[j]
           /\ \A p \in S : \E i \in 1..Cardinality(S) : InOrder(S)[i] = p
<1>1. Cardinality(S) \in Nat
  BY PositionsFinite
<1> DEFINE n == Cardinality(S)
           Good(f) == /\ \A i, j \in 1..n : i < j => f[i] < f[j]
                      /\ \A p \in S : \E i \in 1..n : f[i] = p
<1>2. \E f \in [1..n -> S] : Good(f)
  <2>1. PICK f : Enumerates(f, S)
    BY EnumerationExists
  <2>2. f \in [1..n -> S] /\ Good(f)
    BY <2>1 DEF Enumerates
  <2> QED BY <2>2
<1>3. InOrder(S) = CHOOSE f \in [1..n -> S] : Good(f)
  BY DEF InOrder
<1> HIDE DEF Good
<1>4. InOrder(S) \in [1..n -> S] /\ Good(InOrder(S))
  BY <1>2, <1>3
<1> QED BY <1>1, <1>4 DEF Good

\* Kept is a sequence of the items of s in K, and keeps distinct items distinct.
LEMMA KeptFacts ==
    ASSUME NEW T, NEW s \in Seq(T), NEW K
    PROVE  /\ Kept(s, K) \in Seq(T)
           /\ KeysIn(Kept(s, K)) = KeysIn(s) \cap K
           /\ Distinct(s) => Distinct(Kept(s, K))
<1> DEFINE at == {i \in 1..Len(s) : s[i] \in K}
           n  == Cardinality(at)
           f  == InOrder(at)
           t  == Kept(s, K)
<1>1. Len(s) \in Nat /\ at \in SUBSET (1..Len(s))
  OBVIOUS
<1> HIDE DEF at
<1>2. /\ n \in Nat
      /\ f \in [1..n -> at]
      /\ \A i, j \in 1..n : i < j => f[i] < f[j]
      /\ \A p \in at : \E i \in 1..n : f[i] = p
  BY <1>1, InOrderFacts
<1>3. t = [i \in 1..n |-> s[f[i]]]
  BY DEF Kept, at
<1> HIDE DEF n, f, t
<1>4. \A i \in 1..n : f[i] \in 1..Len(s) /\ s[f[i]] \in K /\ s[f[i]] \in T
  BY <1>1, <1>2 DEF at
<1>5. t \in Seq(T) /\ Len(t) = n
  BY <1>2, <1>3, <1>4
<1>6. KeysIn(t) = KeysIn(s) \cap K
  <2>1. ASSUME NEW x \in KeysIn(t) PROVE x \in KeysIn(s) \cap K
    BY <1>3, <1>4, <1>5, <2>1 DEF KeysIn
  <2>2. ASSUME NEW x \in KeysIn(s), x \in K PROVE x \in KeysIn(t)
    <3>1. PICK p \in 1..Len(s) : s[p] = x
      BY <2>2 DEF KeysIn
    <3>2. PICK i \in 1..n : f[i] = p
      BY <3>1, <2>2, <1>2 DEF at
    <3> QED BY <3>1, <3>2, <1>3, <1>5 DEF KeysIn
  <2> QED BY <2>1, <2>2
<1>7. ASSUME Distinct(s), NEW i \in 1..n, NEW j \in 1..n, t[i] = t[j]
      PROVE  i = j
  <2>1. f[i] = f[j]
    BY <1>3, <1>4, <1>7 DEF Distinct
  <2>2. f[i] \in Nat /\ f[j] \in Nat /\ i \in Nat /\ j \in Nat
    BY <1>1, <1>2, <1>4
  <2>3. ~(i < j) /\ ~(j < i)
    BY <2>1, <2>2, <1>2
  <2> QED BY <2>2, <2>3
<1> QED BY <1>5, <1>6, <1>7 DEF Distinct, t

\* Newest is the tail of a sequence: shorter, of the same items, distinct if
\* they were.
LEMMA NewestFacts ==
    ASSUME NEW T, NEW s \in Seq(T), NEW n \in Nat
    PROVE  LET t == Newest(s, n)
           IN  /\ t \in Seq(T)
               /\ Len(t) = IF Len(s) <= n THEN Len(s) ELSE n
               /\ \A i \in 1..Len(t) : t[i] = s[Len(s) - Len(t) + i]
               /\ KeysIn(t) \subseteq KeysIn(s)
               /\ Distinct(s) => Distinct(t)
<1> DEFINE t == Newest(s, n)
<1>1. /\ t \in Seq(T)
      /\ Len(t) = IF Len(s) <= n THEN Len(s) ELSE n
      /\ \A i \in 1..Len(t) : t[i] = s[Len(s) - Len(t) + i]
  <2>1. CASE Len(s) <= n
    BY <2>1 DEF Newest
  <2>2. CASE ~(Len(s) <= n)
    <3> DEFINE m == Len(s) - n + 1
    <3>1. m \in 1..(Len(s) + 1) /\ Len(s) \in Nat
      BY <2>2
    <3>2. \A i \in m..Len(s) : s[i] \in T
      BY <3>1
    <3>3. t = SubSeq(s, m, Len(s))
      BY <2>2 DEF Newest
    <3>4. /\ t \in Seq(T)
          /\ Len(t) = IF m <= Len(s) THEN Len(s) - m + 1 ELSE 0
          /\ \A i \in 1..(Len(s) - m + 1) : t[i] = s[m + i - 1]
      BY <3>1, <3>2, <3>3, SubSeqProperties
    <3>5. Len(t) = n
      BY <3>1, <3>4, <2>2
    <3>6. \A i \in 1..Len(t) : t[i] = s[Len(s) - Len(t) + i]
      <4> TAKE i \in 1..Len(t)
      <4>1. i \in 1..(Len(s) - m + 1) /\ m + i - 1 = Len(s) - Len(t) + i
        BY <3>1, <3>5
      <4> QED BY <4>1, <3>4
    <3> HIDE DEF t
    <3> QED BY <3>4, <3>5, <3>6, <2>2
  <2> QED BY <2>1, <2>2
<1> HIDE DEF t
<1>2. \A i \in 1..Len(t) : Len(s) - Len(t) + i \in 1..Len(s)
  BY <1>1
<1>3. KeysIn(t) \subseteq KeysIn(s)
  BY <1>1, <1>2 DEF KeysIn
<1>4. ASSUME Distinct(s), NEW i \in 1..Len(t), NEW j \in 1..Len(t), t[i] = t[j]
      PROVE  i = j
  <2>1. Len(s) - Len(t) + i = Len(s) - Len(t) + j
    BY <1>1, <1>2, <1>4 DEF Distinct
  <2>2. Len(s) \in Nat /\ Len(t) \in Nat /\ i \in Nat /\ j \in Nat
    BY <1>1
  <2> QED BY <2>1, <2>2
<1> QED BY <1>1, <1>3, <1>4 DEF Distinct, t

\* What Append does to the items and to their being distinct.
LEMMA AppendKeys ==
    ASSUME NEW T, NEW s \in Seq(T), NEW x \in T
    PROVE  /\ Append(s, x) \in Seq(T)
           /\ KeysIn(Append(s, x)) = KeysIn(s) \cup {x}
           /\ Distinct(s) /\ x \notin KeysIn(s) => Distinct(Append(s, x))
<1> DEFINE t == Append(s, x)
<1>1. /\ t \in Seq(T)
      /\ Len(t) = Len(s) + 1
      /\ \A i \in 1..Len(s) : t[i] = s[i]
      /\ t[Len(s) + 1] = x
  BY AppendProperties
<1> HIDE DEF t
<1>2. KeysIn(t) = KeysIn(s) \cup {x}
  <2>1. \A i \in 1..Len(t) : i \in 1..Len(s) \/ i = Len(s) + 1
    BY <1>1
  <2>2. \A i \in 1..Len(s) : i \in 1..Len(t)
    BY <1>1
  <2>3. Len(s) + 1 \in 1..Len(t)
    BY <1>1
  <2> QED BY <1>1, <2>1, <2>2, <2>3 DEF KeysIn
<1>3. ASSUME Distinct(s), x \notin KeysIn(s) PROVE Distinct(t)
  BY <1>1, <1>3 DEF Distinct, KeysIn
<1> QED BY <1>1, <1>2, <1>3 DEF t
-----------------------------------------------------------------------------
(* The commits *)

\* With distinct offsets, deleting the row of the first deletes the first.
LEMMA EvictFirst ==
    ASSUME NEW rows \in Seq(Frame), rows # <<>>,
           \A i, j \in 1..Len(rows) : rows[i].offset = rows[j].offset => i = j
    PROVE  LET t == WithoutRow(rows, rows[1].offset)
           IN  /\ t \in Seq(Frame)
               /\ Len(t) = Len(rows) - 1
               /\ \A i \in 1..Len(t) : t[i] = rows[i + 1]
<1> DEFINE at == {i \in 1..Len(rows) : rows[i].offset = rows[1].offset}
           i  == CHOOSE j \in at : TRUE
           t  == WithoutRow(rows, rows[1].offset)
           u  == SubSeq(rows, 2, Len(rows))
<1>1. Len(rows) \in Nat /\ Len(rows) >= 1 /\ 1 \in 1..Len(rows)
  OBVIOUS
<1>2. at = {1}
  BY <1>1
<1>3. i = 1
  BY <1>2
<1>4. t = SubSeq(rows, 1, i - 1) \o SubSeq(rows, i + 1, Len(rows))
  BY <1>2 DEF WithoutRow
<1> HIDE DEF i, at, t
<1>5. t = SubSeq(rows, 1, 0) \o u
  <2>1. i - 1 = 0 /\ i + 1 = 2
    BY <1>3
  <2> QED BY <2>1, <1>4
<1>6. SubSeq(rows, 1, 0) = <<>>
  BY SubSeqEmpty
<1>7. \A j \in 2..Len(rows) : rows[j] \in Frame
  BY <1>1
<1>8. /\ u \in Seq(Frame)
      /\ Len(u) = IF 2 <= Len(rows) THEN Len(rows) - 2 + 1 ELSE 0
      /\ \A j \in 1..(Len(rows) - 2 + 1) : u[j] = rows[2 + j - 1]
  BY <1>1, <1>7, SubSeqProperties
<1> HIDE DEF u
<1>9. t = u
  BY <1>5, <1>6, <1>8
<1>10. Len(u) = Len(rows) - 1
  <2>1. \A x \in Nat : x >= 1 =>
            (IF 2 <= x THEN x - 2 + 1 ELSE 0) = x - 1
    OBVIOUS
  <2> QED BY <1>1, <1>8, <2>1
<1>11. \A j \in 1..Len(u) : u[j] = rows[j + 1]
  <2> TAKE j \in 1..Len(u)
  <2>1. j \in 1..(Len(rows) - 2 + 1) /\ 2 + j - 1 = j + 1
    BY <1>1, <1>10
  <2> QED BY <2>1, <1>8
<1> QED BY <1>8, <1>9, <1>10, <1>11 DEF t

\* The limits of the running process are those of a configuration.
LEMMA LimitFacts ==
    ASSUME limit \in Limits
    PROVE  /\ limit.frames \in Nat \ {0}
           /\ limit.dedup \in Nat
           /\ limit.dedup >= limit.frames
BY LimitsAssumption

\* admit charges one frame and stays within the quota it checked.
LEMMA ChargeFacts ==
    ASSUME NEW p \in Policy, Within(p), NEW charged \in Charge(p)
    PROVE  /\ charged \in Policy
           /\ Within(charged)
           /\ Spent(charged) = Spent(p) + 1
           /\ charged.cumulative = p.cumulative + 1
           /\ charged.debts = p.debts
<1>1. MaxAccepted \in Nat /\ MaxRepairs \in Nat
  BY QuotaAssumption
<1>2. CASE p.total < MaxAccepted
           /\ charged = [p EXCEPT !.total = @ + 1, !.cumulative = @ + 1]
  <2>1. charged = [total |-> p.total + 1, repairs |-> p.repairs,
                   cumulative |-> p.cumulative + 1, debts |-> p.debts]
    BY <1>2 DEF Policy
  <2>2. /\ p.total \in Nat /\ p.repairs \in Nat
        /\ p.cumulative \in Nat /\ p.debts \in Nat
    BY DEF Policy
  <2>3. charged \in Policy
    BY <2>1, <2>2 DEF Policy
  <2> QED BY <1>1, <1>2, <2>1, <2>2, <2>3 DEF Within, Spent
<1>3. CASE p.repairs < MaxRepairs
           /\ charged = [p EXCEPT !.repairs = @ + 1, !.cumulative = @ + 1]
  <2>1. charged = [total |-> p.total, repairs |-> p.repairs + 1,
                   cumulative |-> p.cumulative + 1, debts |-> p.debts]
    BY <1>3 DEF Policy
  <2>2. /\ p.total \in Nat /\ p.repairs \in Nat
        /\ p.cumulative \in Nat /\ p.debts \in Nat
    BY DEF Policy
  <2>3. charged \in Policy
    BY <2>1, <2>2 DEF Policy
  <2> QED BY <1>1, <1>3, <2>1, <2>2, <2>3 DEF Within, Spent
<1> QED BY <1>2, <1>3 DEF Charge

Row(k) == [offset |-> StoreNext, key |-> k]

\* The next offset in terms of the stored frames.
LEMMA StoreNextFacts ==
    ASSUME StoreType
    PROVE  /\ StoreNext \in Nat
           /\ \A l, d : Recovered(l, d).next_offset = StoreNext
<1>1. db.frames \in Seq(Frame)
  BY DEF StoreType
<1>2. StoreNext \in Nat
  <2>1. CASE db.frames = <<>>
    BY <2>1 DEF StoreNext
  <2>2. CASE db.frames # <<>>
    <3>1. Len(db.frames) \in 1..Len(db.frames)
      BY <1>1, <2>2
    <3>2. db.frames[Len(db.frames)] \in Frame
      BY <1>1, <3>1
    <3> QED BY <2>2, <3>2 DEF StoreNext, Frame
  <2> QED BY <2>1, <2>2
<1>3. \A l, d : Recovered(l, d).next_offset = StoreNext
  BY DEF Recovered, StoreNext
<1> QED BY <1>2, <1>3

\* What append_frame leaves in the frames table is what memory keeps.
LEMMA AppendedFrames ==
    ASSUME StoreInv, MemoryInv, NEW k \in Key, NEW charged,
           AppendFrame(k, charged)
    PROVE  /\ Row(k) \in Frame
           /\ db'.frames = Newest(Append(db.frames, Row(k)), limit.frames)
           /\ db' = [db EXCEPT
                !.frames     = Newest(Append(db.frames, Row(k)), limit.frames),
                !.dedup_keys = Newest(Append(db.dedup_keys, k), limit.dedup),
                !.outcomes   = Cascade(db.outcomes,
                                 Newest(Append(db.dedup_keys, k), limit.dedup)),
                !.admission  = charged]
<1> DEFINE kept == IF Len(mem.records) >= limit.frames
                   THEN WithoutRow(db.frames, mem.records[1].offset)
                   ELSE db.frames
           a == Append(db.frames, Row(k))
           t == Newest(a, limit.frames)
           u == Append(kept, Row(k))
<1>1. /\ db.frames \in Seq(Frame) /\ StoreNext \in Nat
      /\ limit.frames \in Nat \ {0}
      /\ Len(db.frames) \in Nat /\ Len(db.frames) <= limit.frames
  BY LimitFacts, StoreNextFacts DEF StoreInv, StoreType, Trimmed
<1>2. mem.records = db.frames /\ mem.next_offset = StoreNext
  BY DEF AppendFrame, MemoryInv, Agrees
<1>3. Row(k) \in Frame
  BY <1>1 DEF Row, Frame
<1>4. /\ a \in Seq(Frame) /\ Len(a) = Len(db.frames) + 1
      /\ \A i \in 1..Len(db.frames) : a[i] = db.frames[i]
      /\ a[Len(db.frames) + 1] = Row(k)
  BY <1>1, <1>3, AppendProperties
<1>5. /\ t \in Seq(Frame)
      /\ Len(t) = IF Len(a) <= limit.frames THEN Len(a) ELSE limit.frames
      /\ \A i \in 1..Len(t) : t[i] = a[Len(a) - Len(t) + i]
  <2>1. limit.frames \in Nat
    BY <1>1
  <2>2. a \in Seq(Frame)
    BY <1>4
  <2> HIDE DEF a
  <2> QED BY <2>1, <2>2, NewestFacts
<1>6. u = t
  <2>1. CASE Len(db.frames) < limit.frames
    <3>1. kept = db.frames
      BY <2>1, <1>1, <1>2
    <3>2. t = a
      <4> HIDE DEF a
      <4>1. Len(a) <= limit.frames
        BY <1>1, <1>4, <2>1
      <4> QED BY <4>1 DEF Newest
    <3> QED BY <3>1, <3>2
  <2>2. CASE ~(Len(db.frames) < limit.frames)
    <3>1. kept = WithoutRow(db.frames, db.frames[1].offset)
      BY <2>2, <1>1, <1>2
    <3>2. db.frames # <<>> /\ Len(db.frames) = limit.frames
      BY <2>2, <1>1
    <3>3. \A i, j \in 1..Len(db.frames) :
              db.frames[i].offset = db.frames[j].offset => i = j
      <4> TAKE i, j \in 1..Len(db.frames)
      <4>1. /\ db.frames[i].offset = StoreNext - Len(db.frames) + i - 1
            /\ db.frames[j].offset = StoreNext - Len(db.frames) + j - 1
        BY DEF StoreInv, Contiguous
      <4>2. StoreNext - Len(db.frames) \in Int /\ i \in Int /\ j \in Int
        BY <1>1
      <4> QED BY <4>1, <4>2
    <3>3a. LET w == WithoutRow(db.frames, db.frames[1].offset)
           IN  /\ w \in Seq(Frame)
               /\ Len(w) = Len(db.frames) - 1
               /\ \A i \in 1..Len(w) : w[i] = db.frames[i + 1]
      BY <1>1, <3>2, <3>3, EvictFirst
    <3> HIDE DEF kept
    <3>4. /\ kept \in Seq(Frame)
          /\ Len(kept) = Len(db.frames) - 1
          /\ \A i \in 1..Len(kept) : kept[i] = db.frames[i + 1]
      BY <3>1, <3>3a
    <3> HIDE DEF a, t
    <3>5. /\ u \in Seq(Frame) /\ Len(u) = Len(kept) + 1
          /\ \A i \in 1..Len(kept) : u[i] = kept[i]
          /\ u[Len(kept) + 1] = Row(k)
      BY <3>4, <1>3, AppendProperties
    <3> HIDE DEF u
    <3>6. Len(u) = limit.frames /\ Len(t) = limit.frames
          /\ Len(a) = limit.frames + 1
      BY <1>1, <1>4, <1>5, <3>2, <3>4, <3>5
    <3>7. ASSUME NEW i \in 1..Len(u) PROVE u[i] = t[i]
      <4>1. t[i] = a[i + 1]
        BY <1>1, <1>5, <3>6
      <4>2. CASE i = Len(u)
        BY <4>1, <4>2, <1>1, <1>4, <3>2, <3>4, <3>5, <3>6
      <4>3. CASE i # Len(u)
        <5>1. i \in 1..Len(kept) /\ i + 1 \in 1..Len(db.frames)
          BY <4>3, <1>1, <3>2, <3>4, <3>6
        <5> QED BY <4>1, <5>1, <1>4, <3>4, <3>5
      <4> QED BY <4>2, <4>3
    <3> QED BY <1>5, <3>5, <3>6, <3>7, SeqEqual
  <2> QED BY <2>1, <2>2
<1>7. db' = [db EXCEPT
                !.frames     = u,
                !.dedup_keys = Newest(Append(db.dedup_keys, k), limit.dedup),
                !.outcomes   = Cascade(db.outcomes,
                                 Newest(Append(db.dedup_keys, k), limit.dedup)),
                !.admission  = charged]
  BY <1>2 DEF AppendFrame, StoredCharge, Row
<1> HIDE DEF u, t
<1>8. db'.frames = u
  BY <1>7 DEF StoreInv, StoreType
<1> QED BY <1>3, <1>6, <1>7, <1>8 DEF t

\* A committed frame preserves what the tables satisfy.
LEMMA AppendStore ==
    ASSUME StoreInv, MemoryInv, NEW k \in Key, NEW charged \in Charge(mem.policy),
           AppendFrame(k, charged), limit' = limit, in_epoch' = in_epoch + 1,
           counted' = [counted EXCEPT ![k] = 0]
    PROVE  /\ StoreInv'
           /\ StoreNext' = StoreNext + 1
           /\ db'.frames = Newest(Append(db.frames, Row(k)), limit.frames)
           /\ db'.cursors = db.cursors
           /\ db'.admission = charged
<1> DEFINE a == Append(db.frames, Row(k))
           F == Newest(a, limit.frames)
           b == Append(db.dedup_keys, k)
           D == Newest(b, limit.dedup)
           O == Cascade(db.outcomes, D)
<1>1. /\ limit.frames \in Nat \ {0} /\ limit.dedup \in Nat
      /\ limit.dedup >= limit.frames
  BY LimitFacts DEF StoreInv, StoreType
<1>2. /\ db.frames \in Seq(Frame) /\ db.dedup_keys \in Seq(Key)
      /\ db.outcomes \in Seq(Key) /\ db.cursors \in CursorMap
      /\ StoreNext \in Nat
  BY StoreNextFacts DEF StoreInv, StoreType
<1>3. /\ mem.policy \in Policy /\ Within(mem.policy)
      /\ mem.policy.cumulative = StoreNext
      /\ in_epoch <= Spent(mem.policy) /\ in_epoch \in Nat
  BY DEF AppendFrame, MemoryInv, MemoryType, Memory, Agrees, StoreInv, StoreType
<1>4. /\ charged \in Policy /\ Within(charged)
      /\ Spent(charged) = Spent(mem.policy) + 1
      /\ charged.cumulative = StoreNext + 1
  BY <1>3, ChargeFacts
<1>5. /\ Row(k) \in Frame
      /\ db'.frames = F
      /\ db' = [frames |-> F, dedup_keys |-> D, outcomes |-> O,
                cursors |-> db.cursors, admission |-> charged]
  <2>1. Row(k) \in Frame /\ db'.frames = F
        /\ db' = [db EXCEPT !.frames = F, !.dedup_keys = D, !.outcomes = O,
                            !.admission = charged]
    BY AppendedFrames
  <2> HIDE DEF F, D, O
  <2> QED BY <2>1 DEF StoreInv, StoreType
<1>6. /\ a \in Seq(Frame) /\ Len(a) = Len(db.frames) + 1
      /\ \A i \in 1..Len(db.frames) : a[i] = db.frames[i]
      /\ a[Len(db.frames) + 1] = Row(k)
  BY <1>2, <1>5, AppendProperties
<1>7. /\ b \in Seq(Key) /\ Len(b) = Len(db.dedup_keys) + 1
      /\ \A i \in 1..Len(db.dedup_keys) : b[i] = db.dedup_keys[i]
      /\ b[Len(db.dedup_keys) + 1] = k
  BY <1>2, AppendProperties
<1>8. /\ KeysIn(b) = KeysIn(db.dedup_keys) \cup {k}
      /\ Distinct(b)
  BY <1>2, AppendKeys DEF AppendFrame, DedupRowFree, StoreInv
<1> HIDE DEF a, b
<1>9. /\ F \in Seq(Frame)
      /\ Len(F) = IF Len(a) <= limit.frames THEN Len(a) ELSE limit.frames
      /\ \A i \in 1..Len(F) : F[i] = a[Len(a) - Len(F) + i]
  <2>1. limit.frames \in Nat
    BY <1>1
  <2>2. a \in Seq(Frame)
    BY <1>6
  <2> QED BY <2>1, <2>2, NewestFacts
<1>10. /\ D \in Seq(Key)
       /\ Len(D) = IF Len(b) <= limit.dedup THEN Len(b) ELSE limit.dedup
       /\ \A i \in 1..Len(D) : D[i] = b[Len(b) - Len(D) + i]
       /\ KeysIn(D) \subseteq KeysIn(b)
       /\ Distinct(D)
  <2>1. limit.dedup \in Nat
    BY <1>1
  <2>2. b \in Seq(Key)
    BY <1>7
  <2> QED BY <2>1, <2>2, <1>8, NewestFacts
<1> HIDE DEF F, D
<1>11. /\ O \in Seq(Key)
       /\ KeysIn(O) = KeysIn(db.outcomes) \cap KeysIn(D)
       /\ Distinct(O)
  BY <1>2, <1>10, KeptFacts DEF Cascade, StoreInv
<1> HIDE DEF O
<1>12. /\ Len(db.frames) \in Nat /\ Len(db.dedup_keys) \in Nat
       /\ Len(db.frames) <= limit.frames
       /\ Len(db.dedup_keys) <= limit.dedup
       /\ Len(db.frames) <= Len(db.dedup_keys)
  BY <1>2 DEF StoreInv, Trimmed, FramesRemembered
<1>13. /\ Len(F) \in Nat /\ Len(F) >= 1 /\ Len(F) <= limit.frames
       /\ Len(F) <= Len(D) /\ Len(D) <= limit.dedup /\ Len(D) \in Nat
       /\ Len(F) <= Len(db.frames) + 1
       /\ Len(D) <= Len(db.dedup_keys) + 1
  <2>1. /\ Len(a) = Len(db.frames) + 1
        /\ Len(F) = IF Len(a) <= limit.frames THEN Len(a) ELSE limit.frames
    BY <1>6, <1>9
  <2>2. /\ Len(b) = Len(db.dedup_keys) + 1
        /\ Len(D) = IF Len(b) <= limit.dedup THEN Len(b) ELSE limit.dedup
    BY <1>7, <1>10
  <2>3. /\ Len(F) \in Nat /\ Len(F) >= 1 /\ Len(F) <= limit.frames
        /\ Len(F) <= Len(db.frames) + 1
    BY <2>1, <1>1, <1>12
  <2>4. /\ Len(D) \in Nat /\ Len(D) <= limit.dedup
        /\ Len(D) <= Len(db.dedup_keys) + 1
    BY <2>2, <1>1, <1>12
  <2>5. Len(F) <= Len(D)
    BY <2>1, <2>2, <1>1, <1>12
  <2> QED BY <2>3, <2>4, <2>5
<1>14. F # <<>> /\ F[Len(F)] = Row(k)
  <2>1. F # <<>>
    BY <1>9, <1>13
  <2>2. Len(F) \in 1..Len(F) /\ Len(a) - Len(F) + Len(F) = Len(db.frames) + 1
    BY <1>6, <1>12, <1>13
  <2> QED BY <2>1, <2>2, <1>6, <1>9
<1>15. /\ db'.frames = F /\ db'.dedup_keys = D /\ db'.outcomes = O
       /\ db'.cursors = db.cursors /\ db'.admission = charged
  BY <1>5
<1>16. StoreNext' = StoreNext + 1
  BY <1>14, <1>15 DEF StoreNext, Row
<1>17. StoreType'
  <2>1. db' \in [frames : Seq(Frame), dedup_keys : Seq(Key),
                 outcomes : Seq(Key), cursors : CursorMap, admission : Policy]
    BY <1>2, <1>4, <1>5, <1>9, <1>10, <1>11
  <2>2. counted' \in [Key -> Nat] /\ in_epoch' \in Nat /\ limit' \in Limits
    BY <1>3 DEF StoreInv, StoreType
  <2> QED BY <2>1, <2>2 DEF StoreType
<1>18. Trimmed'
  BY <1>13, <1>15 DEF Trimmed
<1>18a. PICK lf \in Nat, ld \in Nat, nf \in Nat, nd \in Nat :
            /\ lf = Len(db.frames) /\ ld = Len(db.dedup_keys)
            /\ nf = Len(F) /\ nd = Len(D)
  BY <1>12, <1>13
<1>18b. /\ lf <= ld /\ 1 <= nf /\ nf <= nd /\ nf <= lf + 1
        /\ Len(a) = lf + 1 /\ Len(b) = ld + 1
  BY <1>6, <1>7, <1>12, <1>13, <1>18a
<1>19. \A i \in 1..nf : i # nf =>
           /\ lf + 1 - nf + i \in 1..lf
           /\ F[i] = db.frames[lf + 1 - nf + i]
  <2> SUFFICES ASSUME NEW i \in 1..nf, i # nf
               PROVE  /\ lf + 1 - nf + i \in 1..lf
                      /\ F[i] = db.frames[lf + 1 - nf + i]
    OBVIOUS
  <2>1. lf + 1 - nf + i \in 1..lf
    BY <1>18b
  <2>2. F[i] = a[lf + 1 - nf + i]
    <3>1. F[i] = a[Len(a) - Len(F) + i]
      BY <1>9, <1>18a
    <3> QED BY <3>1, <1>18a, <1>18b
  <2> QED BY <2>1, <2>2, <1>6, <1>18a
<1>20. Contiguous'
  <2>1. Contiguous' <=> \A i \in 1..nf :
            F[i].offset = (StoreNext + 1) - nf + i - 1
    <3>1. db'.frames = F /\ Len(F) = nf /\ StoreNext' = StoreNext + 1
      BY <1>15, <1>16, <1>18a
    <3> QED BY <3>1, Zenon DEF Contiguous
  <2> SUFFICES ASSUME NEW i \in 1..nf
               PROVE  F[i].offset = (StoreNext + 1) - nf + i - 1
    BY <2>1
  <2>2. PICK sn \in Nat : sn = StoreNext
    BY <1>2
  <2>3. CASE i = nf
    <3>1. (sn + 1) - nf + i - 1 = sn
      BY <2>3
    <3> QED BY <2>2, <2>3, <3>1, <1>14, <1>18a DEF Row
  <2>4. CASE i # nf
    <3>1. PICK j \in 1..lf : j = lf + 1 - nf + i /\ F[i] = db.frames[j]
      BY <2>4, <1>19
    <3>2. db.frames[j].offset = sn - lf + j - 1
      <4>1. Contiguous
        BY DEF StoreInv
      <4> QED BY <4>1, <2>2, <1>18a DEF Contiguous
    <3>3. sn - lf + j - 1 = (sn + 1) - nf + i - 1
      BY <3>1
    <3> QED BY <3>1, <3>2, <3>3, <2>2
  <2> QED BY <2>3, <2>4
<1>21. FramesRemembered'
  <2> SUFFICES ASSUME NEW i \in 1..nf
               PROVE  F[i].key = D[nd - nf + i]
    BY <1>15, <1>18a, <1>18b DEF FramesRemembered
  <2>1. nd - nf + i \in 1..nd /\ (ld + 1) - nd + (nd - nf + i) = ld + 1 - nf + i
    BY <1>18b
  <2>2. D[nd - nf + i] = b[(ld + 1) - nd + (nd - nf + i)]
    BY <2>1, <1>10, <1>18a, <1>18b
  <2>3. D[nd - nf + i] = b[ld + 1 - nf + i]
    BY <2>1, <2>2
  <2>4. CASE i = nf
    <3>1. ld + 1 - nf + i = ld + 1
      BY <2>4
    <3> QED BY <3>1, <2>3, <2>4, <1>7, <1>14, <1>18a DEF Row
  <2>5. CASE i # nf
    <3>1. PICK m \in 1..lf : m = lf + 1 - nf + i /\ F[i] = db.frames[m]
      BY <2>5, <1>19
    <3>2. PICK n \in 1..ld : n = ld + 1 - nf + i
      BY <2>5, <1>18b
    <3>3. ld - lf + m = n
      BY <3>1, <3>2
    <3>4. db.frames[m].key = db.dedup_keys[ld - lf + m]
      <4>1. FramesRemembered
        BY DEF StoreInv
      <4> QED BY <4>1, <1>18a DEF FramesRemembered
    <3>5. b[n] = db.dedup_keys[n]
      BY <1>7, <1>18a
    <3> QED BY <3>1, <3>2, <3>3, <3>4, <3>5, <2>3
  <2> QED BY <2>4, <2>5
<1>22. Distinct(db.dedup_keys)' /\ Distinct(db.outcomes)' /\ OutcomesHaveFrames'
  BY <1>10, <1>11, <1>15 DEF Distinct, OutcomesHaveFrames
<1>23. DebtsRecorded'
  <2> SUFFICES ASSUME NEW x \in Key
               PROVE  /\ counted'[x] <= 1
                      /\ counted'[x] = 1 /\ x \in KeysIn(D) => x \in KeysIn(O)
    BY <1>15 DEF DebtsRecorded
  <2>1. counted \in [Key -> Nat]
    BY DEF StoreInv, StoreType
  <2>2. CASE x = k
    BY <2>1, <2>2
  <2>3. CASE x # k
    <3>1. counted'[x] = counted[x]
      BY <2>1, <2>3
    <3>2. x \in KeysIn(D) => x \in KeysIn(db.dedup_keys)
      BY <2>3, <1>8, <1>10
    <3>3. /\ counted[x] <= 1
          /\ counted[x] = 1 /\ x \in KeysIn(db.dedup_keys) => x \in KeysIn(db.outcomes)
      BY DEF StoreInv, DebtsRecorded
    <3> QED BY <3>1, <3>2, <3>3, <1>11
  <2> QED BY <2>2, <2>3
<1>24. /\ db'.admission.cumulative = StoreNext'
       /\ Within(db.admission)' /\ in_epoch' <= Spent(db'.admission)
  <2>1. Spent(mem.policy) \in Nat
    BY <1>3 DEF Spent, Policy
  <2> QED BY <2>1, <1>3, <1>4, <1>15, <1>16 DEF Within, Spent
<1> QED
  BY <1>15, <1>16, <1>17, <1>18, <1>20, <1>21, <1>22, <1>23, <1>24
  DEF StoreInv, Spent, F, a

\* A sequence of distinct items is as long as the set of its items.
LEMMA DistinctCount ==
    ASSUME NEW T, NEW s \in Seq(T), Distinct(s)
    PROVE  IsFiniteSet(KeysIn(s)) /\ Cardinality(KeysIn(s)) = Len(s)
<1> DEFINE f == [i \in 1..Len(s) |-> s[i]]
<1>1. f \in Bijection(1..Len(s), KeysIn(s))
  BY DEF Distinct, KeysIn, Bijection, Injection, Surjection, IsInjective
<1>2. 1 \in Int /\ Len(s) \in Int /\ Len(s) \in Nat
  OBVIOUS
<1>3. IsFiniteSet(1..Len(s)) /\ Cardinality(1..Len(s)) = Len(s)
  BY <1>2, FS_Interval
<1> HIDE DEF f
<1>4. ExistsBijection(1..Len(s), KeysIn(s))
  BY <1>1 DEF ExistsBijection
<1> QED BY <1>3, <1>4, FS_Bijection

\* An outcome changes nothing of the policy but the debts.
LEMMA IndebtedFacts ==
    ASSUME NEW p \in Policy
    PROVE  /\ Indebted(p) \in Policy
           /\ Within(p) => Within(Indebted(p))
           /\ Spent(Indebted(p)) = Spent(p)
           /\ Indebted(p).cumulative = p.cumulative
           /\ Indebted(p).debts = p.debts + 1
<1>1. Indebted(p) = [total |-> p.total, repairs |-> p.repairs,
                     cumulative |-> p.cumulative, debts |-> p.debts + 1]
  BY DEF Indebted, Policy
<1>2. /\ p.total \in Nat /\ p.repairs \in Nat
      /\ p.cumulative \in Nat /\ p.debts \in Nat
  BY DEF Policy
<1>3. Indebted(p) \in Policy
  BY <1>1, <1>2 DEF Policy
<1> QED BY <1>1, <1>3 DEF Within, Spent

\* A committed outcome preserves what the tables satisfy.  It evicts none:
\* outcomes are fewer than dedup rows while one of those has none.
LEMMA OutcomeStore ==
    ASSUME StoreInv, MemoryInv, NEW k \in Key, CommitOutcome(k),
           limit' = limit, in_epoch' = in_epoch,
           counted' = [counted EXCEPT ![k] = @ + 1]
    PROVE  /\ StoreInv'
           /\ StoreNext' = StoreNext
           /\ db'.frames = db.frames
           /\ db'.cursors = db.cursors
           /\ db'.admission = Indebted(mem.policy)
<1> DEFINE b == Append(db.outcomes, k)
           N == Newest(b, limit.dedup)
<1>1. /\ db.frames \in Seq(Frame) /\ db.dedup_keys \in Seq(Key)
      /\ db.outcomes \in Seq(Key) /\ db.cursors \in CursorMap
      /\ limit.dedup \in Nat
  BY LimitFacts DEF StoreInv, StoreType
<1>2. /\ mem.policy \in Policy /\ Within(mem.policy)
      /\ mem.policy.cumulative = StoreNext
      /\ in_epoch <= Spent(mem.policy)
  BY DEF CommitOutcome, MemoryInv, MemoryType, Memory, Agrees, StoreInv
<1>3. /\ Indebted(mem.policy) \in Policy /\ Within(Indebted(mem.policy))
      /\ in_epoch <= Spent(Indebted(mem.policy))
      /\ Indebted(mem.policy).cumulative = StoreNext
  BY <1>2, IndebtedFacts
<1>4. /\ k \in KeysIn(db.dedup_keys) /\ k \notin KeysIn(db.outcomes)
      /\ KeysIn(db.outcomes) \subseteq KeysIn(db.dedup_keys)
      /\ Distinct(db.dedup_keys) /\ Distinct(db.outcomes)
      /\ Len(db.dedup_keys) <= limit.dedup
  BY DEF CommitOutcome, OutcomeRowFree, StoreInv, OutcomesHaveFrames, Trimmed
<1>5. /\ IsFiniteSet(KeysIn(db.dedup_keys))
      /\ Cardinality(KeysIn(db.dedup_keys)) = Len(db.dedup_keys)
      /\ Cardinality(KeysIn(db.outcomes)) = Len(db.outcomes)
  BY <1>1, <1>4, DistinctCount
<1>6. Len(db.outcomes) + 1 <= limit.dedup
  <2> DEFINE S == KeysIn(db.dedup_keys) \ {k}
  <2>1. IsFiniteSet(S) /\ Cardinality(S) = Len(db.dedup_keys) - 1
    BY <1>4, <1>5, FS_RemoveElement
  <2>2. KeysIn(db.outcomes) \subseteq S
    BY <1>4
  <2> HIDE DEF S
  <2>3. Cardinality(KeysIn(db.outcomes)) <= Cardinality(S)
    BY <2>1, <2>2, FS_Subset
  <2>4. PICK x \in Nat, y \in Nat, z \in Nat :
            x = Len(db.outcomes) /\ y = Len(db.dedup_keys) /\ z = limit.dedup
    BY <1>1
  <2>5. x <= y - 1 /\ y <= z
    BY <2>1, <2>3, <2>4, <1>4, <1>5
  <2>6. x + 1 <= z
    BY <2>5
  <2> QED BY <2>4, <2>6
<1>7. /\ b \in Seq(Key) /\ Len(b) = Len(db.outcomes) + 1
      /\ KeysIn(b) = KeysIn(db.outcomes) \cup {k} /\ Distinct(b)
  BY <1>1, <1>4, AppendKeys, AppendProperties
<1>8. N = b
  <2>1. Len(b) <= limit.dedup
    BY <1>6, <1>7
  <2> HIDE DEF b
  <2> QED BY <2>1 DEF Newest
<1>9. db' = [frames |-> db.frames, dedup_keys |-> db.dedup_keys, outcomes |-> b,
             cursors |-> db.cursors, admission |-> Indebted(mem.policy)]
  <2>1. db' = [db EXCEPT !.outcomes = b, !.admission = Indebted(mem.policy)]
    BY <1>8 DEF CommitOutcome
  <2> HIDE DEF b
  <2> QED BY <2>1 DEF StoreInv, StoreType
<1> HIDE DEF b
<1>10. /\ db'.frames = db.frames /\ db'.dedup_keys = db.dedup_keys
       /\ db'.outcomes = b /\ db'.cursors = db.cursors
       /\ db'.admission = Indebted(mem.policy)
  BY <1>9
<1>11. StoreNext' = StoreNext
  BY <1>10 DEF StoreNext
<1>12. StoreType'
  <2>1. db' \in [frames : Seq(Frame), dedup_keys : Seq(Key),
                 outcomes : Seq(Key), cursors : CursorMap, admission : Policy]
    BY <1>1, <1>3, <1>7, <1>9
  <2>2. counted' \in [Key -> Nat] /\ in_epoch' \in Nat /\ limit' \in Limits
    BY DEF StoreInv, StoreType
  <2> QED BY <2>1, <2>2 DEF StoreType
<1>13. Trimmed' /\ Contiguous' /\ FramesRemembered'
  BY <1>10, <1>11 DEF StoreInv, Trimmed, Contiguous, FramesRemembered
<1>14. Distinct(db.dedup_keys)' /\ Distinct(db.outcomes)' /\ OutcomesHaveFrames'
  BY <1>4, <1>7, <1>10 DEF Distinct, OutcomesHaveFrames
<1>15. DebtsRecorded'
  <2> SUFFICES ASSUME NEW x \in Key
               PROVE  /\ counted'[x] <= 1
                      /\ counted'[x] = 1 /\ x \in KeysIn(db.dedup_keys)
                           => x \in KeysIn(b)
    BY <1>10 DEF DebtsRecorded
  <2>1. counted \in [Key -> Nat]
    BY DEF StoreInv, StoreType
  <2>2. /\ counted[x] <= 1
        /\ counted[x] = 1 /\ x \in KeysIn(db.dedup_keys) => x \in KeysIn(db.outcomes)
    BY DEF StoreInv, DebtsRecorded
  <2>3. CASE x = k
    <3>1. counted[k] = 0
      BY <2>1, <2>2, <2>3, <1>4
    <3> QED BY <3>1, <2>1, <2>3, <1>7
  <2>4. CASE x # k
    BY <2>1, <2>2, <2>4, <1>7
  <2> QED BY <2>3, <2>4
<1>16. /\ db'.admission.cumulative = StoreNext'
       /\ Within(db.admission)' /\ in_epoch' <= Spent(db'.admission)
  BY <1>3, <1>10, <1>11 DEF Within, Spent
<1> QED
  BY <1>10, <1>11, <1>12, <1>13, <1>14, <1>15, <1>16 DEF StoreInv, Spent

\* A take moves the cursor forward.
LEMMA CursorForward ==
    ASSUME MemoryType, NEW c \in Consumer
    PROVE  NextCursor(c) \in Nat /\ NextCursor(c) >= mem.consumer_offsets[c]
<1> DEFINE due == {r \in KeysIn(mem.records) : r.offset >= Cursor(c)}
           Least(r) == \A s \in due : r.offset <= s.offset
<1>1. /\ mem.records \in Seq(Frame) /\ mem.next_offset \in Nat
      /\ mem.consumer_offsets[c] \in Nat \cup {Absent}
  BY DEF MemoryType, Memory, CursorMap
<1>2. BaseOffset(mem) \in Nat
  <2>1. CASE mem.records = <<>>
    BY <2>1, <1>1 DEF BaseOffset
  <2>2. CASE mem.records # <<>>
    <3>1. mem.records[1] \in Frame
      BY <2>2, <1>1
    <3> QED BY <2>2, <3>1 DEF BaseOffset, Frame
  <2> QED BY <2>1, <2>2
<1>3. Cursor(c) \in Nat /\ Cursor(c) >= mem.consumer_offsets[c]
  <2>1. PICK x \in Int, y \in Nat :
            x = mem.consumer_offsets[c] /\ y = BaseOffset(mem)
    BY <1>1, <1>2 DEF Absent
  <2>2. Cursor(c) = IF x < y THEN y ELSE x
    BY <2>1 DEF Cursor
  <2> QED BY <2>1, <2>2
<1>4. \A r \in due : r.offset \in Nat /\ r.offset >= Cursor(c)
  <2>1. \A r \in KeysIn(mem.records) : r \in Frame
    BY <1>1 DEF KeysIn
  <2>2. \A r \in Frame : r.offset \in Nat
    BY DEF Frame
  <2> QED BY <2>1, <2>2
<1>5. CASE due # {}
  <2>1. \E r \in due : Least(r)
    <3> DEFINE S == {r.offset : r \in due}
    <3>1. S \in SUBSET Nat /\ S # {}
      BY <1>4, <1>5
    <3> HIDE DEF S
    <3>2. PICK o \in S : \A p \in S : o <= p
      BY <3>1, NatMin
    <3> QED BY <3>2 DEF S
  <2> DEFINE first == CHOOSE r \in due : Least(r)
  <2> HIDE DEF Least, due
  <2>2. first \in due
    BY <2>1
  <2>3. NextCursor(c) = first.offset + 1
    BY <1>5 DEF NextCursor, due, Least
  <2> HIDE DEF first
  <2>4. PICK o \in Nat : o = first.offset /\ o >= Cursor(c)
    BY <2>2, <1>4
  <2>5. PICK x \in Int, y \in Nat :
            x = mem.consumer_offsets[c] /\ y = Cursor(c)
    BY <1>1, <1>3 DEF Absent
  <2>6. o + 1 \in Nat /\ o + 1 >= x
    BY <2>4, <2>5, <1>3
  <2> QED BY <2>3, <2>4, <2>5, <2>6
<1>6. CASE due = {}
  <2>1. NextCursor(c) = IF Cursor(c) > mem.next_offset THEN Cursor(c)
                        ELSE mem.next_offset
    BY <1>6 DEF NextCursor
  <2>2. PICK x \in Int, y \in Nat, z \in Nat :
            x = mem.consumer_offsets[c] /\ y = Cursor(c) /\ z = mem.next_offset
    BY <1>1, <1>3 DEF Absent
  <2> QED BY <2>1, <2>2, <1>3
<1> QED BY <1>5, <1>6

\* A committed cursor leaves the rest of the tables alone.
LEMMA CursorStore ==
    ASSUME StoreInv, MemoryInv, NEW c \in Consumer, CommitCursor(c),
           limit' = limit, in_epoch' = in_epoch, counted' = counted
    PROVE  /\ StoreInv'
           /\ StoreNext' = StoreNext
           /\ db'.frames = db.frames
           /\ db'.cursors = [db.cursors EXCEPT ![c] = NextCursor(c)]
           /\ db'.admission = db.admission
           /\ db'.cursors \in CursorMap
           /\ CursorAdvances
<1> DEFINE m == [db.cursors EXCEPT ![c] = NextCursor(c)]
<1>1. /\ db.cursors \in CursorMap
      /\ mem.consumer_offsets = db.cursors
  BY DEF CommitCursor, StoreInv, StoreType, MemoryInv, Agrees
<1>2. NextCursor(c) \in Nat /\ NextCursor(c) >= db.cursors[c]
  BY <1>1, CursorForward DEF MemoryInv
<1>3. m \in CursorMap
  BY <1>1, <1>2 DEF CursorMap
<1>4. db' = [frames |-> db.frames, dedup_keys |-> db.dedup_keys,
             outcomes |-> db.outcomes, cursors |-> m, admission |-> db.admission]
  BY DEF CommitCursor, StoreInv, StoreType
<1>5. \A d \in Consumer : m[d] >= db.cursors[d]
  <2> SUFFICES ASSUME NEW d \in Consumer PROVE m[d] >= db.cursors[d]
    OBVIOUS
  <2>1. CASE d = c
    BY <2>1, <1>1, <1>2 DEF CursorMap
  <2>2. CASE d # c
    <3>1. PICK x \in Int : x = db.cursors[d]
      BY <1>1 DEF CursorMap, Absent
    <3>2. m[d] = db.cursors[d]
      BY <2>2, <1>1 DEF CursorMap
    <3> QED BY <3>1, <3>2
  <2> QED BY <2>1, <2>2
<1> HIDE DEF m
<1>6. /\ db'.frames = db.frames /\ db'.dedup_keys = db.dedup_keys
      /\ db'.outcomes = db.outcomes /\ db'.cursors = m
      /\ db'.admission = db.admission
  BY <1>4
<1>7. StoreNext' = StoreNext
  BY <1>6 DEF StoreNext
<1>8. StoreType'
  <2>1. db' \in [frames : Seq(Frame), dedup_keys : Seq(Key),
                 outcomes : Seq(Key), cursors : CursorMap, admission : Policy]
    BY <1>3, <1>4 DEF StoreInv, StoreType
  <2> QED BY <2>1 DEF StoreInv, StoreType
<1>9. Trimmed' /\ Contiguous' /\ FramesRemembered' /\ DebtsRecorded'
  BY <1>6, <1>7
  DEF StoreInv, Trimmed, Contiguous, FramesRemembered, DebtsRecorded
<1>10. Distinct(db.dedup_keys)' /\ Distinct(db.outcomes)' /\ OutcomesHaveFrames'
  BY <1>6 DEF StoreInv, Distinct, OutcomesHaveFrames
<1>11. /\ db'.admission.cumulative = StoreNext'
       /\ Within(db.admission)' /\ in_epoch' <= Spent(db'.admission)
  BY <1>6, <1>7 DEF StoreInv, Within, Spent
<1> QED
  BY <1>3, <1>5, <1>6, <1>7, <1>8, <1>9, <1>10, <1>11
  DEF StoreInv, Spent, CursorAdvances, m

\* A restart trims the tables to the new limits and starts from them.
LEMMA RestartStep ==
    ASSUME StoreInv, MemoryInv, NEW l \in Limits, Restart(l)
    PROVE  StoreInv' /\ MemoryInv' /\ db'.cursors = db.cursors
<1> DEFINE F == Newest(db.frames, l.frames)
           D == Newest(db.dedup_keys, l.dedup)
           O == Cascade(db.outcomes, D)
<1>1. l.frames \in Nat \ {0} /\ l.dedup \in Nat /\ l.dedup >= l.frames
  BY LimitsAssumption
<1>2. /\ db.frames \in Seq(Frame) /\ db.dedup_keys \in Seq(Key)
      /\ db.outcomes \in Seq(Key) /\ db.cursors \in CursorMap
      /\ db.admission \in Policy /\ StoreNext \in Nat
  BY StoreNextFacts DEF StoreInv, StoreType
<1>3. /\ F \in Seq(Frame)
      /\ Len(F) = IF Len(db.frames) <= l.frames THEN Len(db.frames) ELSE l.frames
      /\ \A i \in 1..Len(F) : F[i] = db.frames[Len(db.frames) - Len(F) + i]
  <2>1. l.frames \in Nat
    BY <1>1
  <2> QED BY <2>1, <1>2, NewestFacts
<1>4. /\ D \in Seq(Key)
      /\ Len(D) = IF Len(db.dedup_keys) <= l.dedup THEN Len(db.dedup_keys) ELSE l.dedup
      /\ \A i \in 1..Len(D) : D[i] = db.dedup_keys[Len(db.dedup_keys) - Len(D) + i]
      /\ KeysIn(D) \subseteq KeysIn(db.dedup_keys)
      /\ Distinct(D)
  <2>1. l.dedup \in Nat /\ Distinct(db.dedup_keys)
    BY <1>1 DEF StoreInv
  <2> QED BY <2>1, <1>2, NewestFacts
<1> HIDE DEF F, D
<1>5. /\ O \in Seq(Key)
      /\ KeysIn(O) = KeysIn(db.outcomes) \cap KeysIn(D)
      /\ Distinct(O)
  BY <1>2, <1>4, KeptFacts DEF Cascade, StoreInv
<1>6. /\ db' = [frames |-> F, dedup_keys |-> D, outcomes |-> O,
                cursors |-> db.cursors, admission |-> db.admission]
      /\ mem' = [open |-> D # <<>>, records |-> F, next_offset |-> StoreNext,
                 recent_keys |-> D, outcome_keys |-> O,
                 consumer_offsets |-> db.cursors, policy |-> db.admission]
      /\ limit' = l /\ up' = TRUE /\ linked' = TRUE
      /\ batch' = batch /\ in_epoch' = in_epoch /\ counted' = counted
  <2>1. db' = [db EXCEPT !.frames = F, !.dedup_keys = D, !.outcomes = O]
    BY DEF Restart, F, D
  <2>2. db' = [frames |-> F, dedup_keys |-> D, outcomes |-> O,
               cursors |-> db.cursors, admission |-> db.admission]
    <3> HIDE DEF O
    <3> QED BY <2>1 DEF StoreInv, StoreType
  <2> QED BY <2>2 DEF Restart, Recovered, RecoveredCursors, StoreNext, F, D
<1> HIDE DEF O
<1>7. /\ db'.frames = F /\ db'.dedup_keys = D /\ db'.outcomes = O
      /\ db'.cursors = db.cursors /\ db'.admission = db.admission
  BY <1>6
<1>8. PICK lf \in Nat, ld \in Nat, nf \in Nat, nd \in Nat :
          /\ lf = Len(db.frames) /\ ld = Len(db.dedup_keys)
          /\ nf = Len(F) /\ nd = Len(D)
  <2>1. Len(db.frames) \in Nat /\ Len(db.dedup_keys) \in Nat
    BY <1>2
  <2>2. F \in Seq(Frame) /\ D \in Seq(Key)
    BY <1>3, <1>4
  <2>3. Len(F) \in Nat /\ Len(D) \in Nat
    BY <2>2
  <2> QED BY <2>1, <2>3
<1>9. /\ lf <= ld /\ nf <= nd /\ nf <= lf /\ nd <= ld
      /\ nf <= l.frames /\ nd <= l.dedup
      /\ lf > 0 => nf > 0
  <2>1. PICK x \in Nat, y \in Nat : x = l.frames /\ y = l.dedup /\ x > 0 /\ y >= x
    BY <1>1
  <2>2. nf = IF lf <= x THEN lf ELSE x
    BY <1>3, <1>8, <2>1
  <2>3. nd = IF ld <= y THEN ld ELSE y
    BY <1>4, <1>8, <2>1
  <2>4. lf <= ld
    BY <1>8 DEF StoreInv, FramesRemembered
  <2>5. nf <= nd /\ nf <= lf /\ nd <= ld /\ nf <= x /\ nd <= y /\ (lf > 0 => nf > 0)
    BY <2>1, <2>2, <2>3, <2>4
  <2> QED BY <2>1, <2>4, <2>5
<1>10. \A i \in 1..nf : lf - nf + i \in 1..lf /\ F[i] = db.frames[lf - nf + i]
  <2> SUFFICES ASSUME NEW i \in 1..nf
               PROVE  lf - nf + i \in 1..lf /\ F[i] = db.frames[lf - nf + i]
    OBVIOUS
  <2>1. lf - nf + i \in 1..lf
    BY <1>9
  <2>2. F[i] = db.frames[Len(db.frames) - Len(F) + i]
    BY <1>3, <1>8
  <2> QED BY <2>1, <2>2, <1>8
<1>11. StoreNext' = StoreNext
  <2>1. CASE db.frames = <<>>
    <3>1. lf = 0
      BY <2>1, <1>8
    <3>2. nf = 0
      BY <3>1, <1>9
    <3>3. F = <<>>
      BY <3>2, <1>3, <1>8
    <3> QED BY <2>1, <3>3, <1>7 DEF StoreNext
  <2>2. CASE db.frames # <<>>
    <3>1. lf > 0
      BY <2>2, <1>2, <1>8
    <3>2. nf \in 1..nf /\ lf - nf + nf = lf
      BY <3>1, <1>9
    <3>3. F # <<>>
      BY <3>2, <1>3, <1>8
    <3>4. F[nf] = db.frames[lf]
      BY <3>2, <1>10
    <3> QED BY <2>2, <3>3, <3>4, <1>7, <1>8 DEF StoreNext
  <2> QED BY <2>1, <2>2
<1>12. StoreType'
  <2>1. db' \in [frames : Seq(Frame), dedup_keys : Seq(Key),
                 outcomes : Seq(Key), cursors : CursorMap, admission : Policy]
    BY <1>2, <1>3, <1>4, <1>5, <1>6
  <2>2. counted' \in [Key -> Nat] /\ in_epoch' \in Nat /\ limit' \in Limits
    BY <1>6 DEF StoreInv, StoreType
  <2> QED BY <2>1, <2>2 DEF StoreType
<1>13. Trimmed'
  BY <1>6, <1>7, <1>8, <1>9 DEF Trimmed
<1>14. Contiguous'
  <2>1. Contiguous' <=> \A i \in 1..nf : F[i].offset = StoreNext - nf + i - 1
    <3>1. db'.frames = F /\ Len(F) = nf /\ StoreNext' = StoreNext
      BY <1>7, <1>8, <1>11
    <3> QED BY <3>1, Zenon DEF Contiguous
  <2> SUFFICES ASSUME NEW i \in 1..nf
               PROVE  F[i].offset = StoreNext - nf + i - 1
    BY <2>1
  <2>2. PICK sn \in Nat : sn = StoreNext
    BY <1>2
  <2>3. PICK j \in 1..lf : j = lf - nf + i /\ F[i] = db.frames[j]
    BY <1>10
  <2>4. db.frames[j].offset = sn - lf + j - 1
    <3>1. Contiguous
      BY DEF StoreInv
    <3> QED BY <3>1, <2>2, <1>8 DEF Contiguous
  <2>5. sn - lf + j - 1 = sn - nf + i - 1
    BY <2>3
  <2> QED BY <2>2, <2>3, <2>4, <2>5
<1>15. FramesRemembered'
  <2> SUFFICES ASSUME NEW i \in 1..nf
               PROVE  F[i].key = D[nd - nf + i]
    BY <1>7, <1>8, <1>9 DEF FramesRemembered
  <2>1. PICK j \in 1..lf : j = lf - nf + i /\ F[i] = db.frames[j]
    BY <1>10
  <2>2. PICK n \in 1..nd : n = nd - nf + i
    BY <1>9
  <2>3. D[n] = db.dedup_keys[ld - nd + n]
    <3>1. D[n] = db.dedup_keys[Len(db.dedup_keys) - Len(D) + n]
      BY <1>4, <1>8
    <3> QED BY <3>1, <1>8
  <2>4. db.frames[j].key = db.dedup_keys[ld - lf + j]
    <3>1. FramesRemembered
      BY DEF StoreInv
    <3> QED BY <3>1, <1>8 DEF FramesRemembered
  <2>5. ld - nd + n = ld - lf + j
    BY <2>1, <2>2
  <2> QED BY <2>1, <2>2, <2>3, <2>4, <2>5
<1>16. Distinct(db.dedup_keys)' /\ Distinct(db.outcomes)' /\ OutcomesHaveFrames'
  BY <1>4, <1>5, <1>7 DEF Distinct, OutcomesHaveFrames
<1>17. DebtsRecorded'
  BY <1>4, <1>5, <1>6, <1>7 DEF StoreInv, DebtsRecorded
<1>18. /\ db'.admission.cumulative = StoreNext'
       /\ Within(db.admission)' /\ in_epoch' <= Spent(db'.admission)
  BY <1>6, <1>7, <1>11 DEF StoreInv, Within, Spent
<1>19. StoreInv'
  BY <1>12, <1>13, <1>14, <1>15, <1>16, <1>17, <1>18 DEF StoreInv, Spent
<1>20. MemoryType'
  <2>1. mem' \in Memory
    BY <1>2, <1>3, <1>4, <1>5, <1>6 DEF Memory
  <2>2. up' \in BOOLEAN /\ linked' \in BOOLEAN /\ batch' \in Seq(Key)
    BY <1>6 DEF MemoryInv, MemoryType
  <2> QED BY <2>1, <2>2 DEF MemoryType
<1>21. /\ mem'.records = F /\ mem'.next_offset = StoreNext
       /\ mem'.consumer_offsets = db.cursors /\ mem'.policy = db.admission
  BY <1>6
<1>22. Within(mem.policy)' /\ Agrees'
  BY <1>7, <1>11, <1>18, <1>21 DEF Agrees, Within, Spent
<1> QED BY <1>7, <1>19, <1>20, <1>22 DEF MemoryInv, Within
-----------------------------------------------------------------------------
(* The steps *)

\* A step that leaves the tables alone, and at most begins an epoch, keeps
\* what they satisfy.
LEMMA StoreKept ==
    ASSUME StoreInv, db' = db, limit' = limit, counted' = counted,
           in_epoch' = in_epoch \/ in_epoch' = 0
    PROVE  StoreInv' /\ StoreNext' = StoreNext /\ db'.cursors = db.cursors
<1>1. StoreNext' = StoreNext
  BY DEF StoreNext
<1>2. StoreType'
  BY DEF StoreInv, StoreType
<1>3. Trimmed' /\ Contiguous' /\ FramesRemembered' /\ DebtsRecorded'
  BY <1>1 DEF StoreInv, Trimmed, Contiguous, FramesRemembered, DebtsRecorded
<1>4. Distinct(db.dedup_keys)' /\ Distinct(db.outcomes)' /\ OutcomesHaveFrames'
  BY DEF StoreInv, Distinct, OutcomesHaveFrames
<1>5. in_epoch' <= Spent(db.admission)
  <2>0. db.admission \in Policy /\ in_epoch \in Nat
    BY DEF StoreInv, StoreType
  <2>1. PICK x \in Nat, y \in Nat : x = in_epoch /\ y = Spent(db.admission)
    <3>1. db.admission.total \in Nat /\ db.admission.repairs \in Nat
      BY <2>0 DEF Policy
    <3> QED BY <3>1, <2>0 DEF Spent
  <2>2. x <= y
    BY <2>1 DEF StoreInv
  <2> QED BY <2>1, <2>2
<1>6. db'.admission.cumulative = StoreNext' /\ Within(db.admission)'
  BY <1>1 DEF StoreInv, Within
<1> QED BY <1>1, <1>2, <1>3, <1>4, <1>5, <1>6 DEF StoreInv, Spent

\* Memory changes in nothing the store has to agree with.
LEMMA MemoryKept ==
    ASSUME MemoryInv, StoreNext' = StoreNext, db' = db, in_epoch' = in_epoch,
           mem' \in Memory, mem'.records = mem.records,
           mem'.next_offset = mem.next_offset,
           mem'.consumer_offsets = mem.consumer_offsets,
           mem'.policy = mem.policy,
           up' \in BOOLEAN, linked' \in BOOLEAN, linked' => linked,
           batch' \in Seq(Key)
    PROVE  MemoryInv'
<1>1. MemoryType'
  BY DEF MemoryType
<1>2. Within(mem.policy)'
  BY DEF MemoryInv, Within
<1>3. linked' => Agrees'
  BY DEF MemoryInv, Agrees, Spent
<1> QED BY <1>1, <1>2, <1>3 DEF MemoryInv, Within

\* A process without a connection, or a dead one, has to agree with nothing.
LEMMA MemoryCut ==
    ASSUME mem' \in Memory, Within(mem'.policy), linked' = FALSE,
           up' \in BOOLEAN, batch' \in Seq(Key)
    PROVE  MemoryInv'
BY DEF MemoryInv, MemoryType, Within

\* A process that ends leaves blank memory.
LEMMA MemoryDies ==
    ASSUME Dies
    PROVE  MemoryInv'
<1>1. Blank \in Memory
  <2>1. [c \in Consumer |-> Absent] \in CursorMap
    BY DEF CursorMap
  <2>2. <<>> \in Seq(Frame) /\ <<>> \in Seq(Key)
    OBVIOUS
  <2>3. NoCharges \in Policy
    BY DEF NoCharges, Policy
  <2> QED BY <2>1, <2>2, <2>3 DEF Blank, Memory
<1>2. Within(Blank.policy)
  BY QuotaAssumption DEF Within, Blank, NoCharges
<1>3. mem' = Blank /\ linked' = FALSE /\ up' = FALSE /\ batch' = <<>>
  BY DEF Dies
<1>4. batch' \in Seq(Key)
  BY <1>3
<1> QED BY <1>1, <1>2, <1>3, <1>4, MemoryCut

\* Cursors that are not written do not go back.
LEMMA CursorsKept ==
    ASSUME StoreInv, db'.cursors = db.cursors
    PROVE  CursorAdvances
<1>1. \A c \in Consumer : db.cursors[c] \in Int
  BY DEF StoreInv, StoreType, CursorMap, Absent
<1> QED BY <1>1 DEF CursorAdvances

\* Refreshing a key yields a sequence of keys.
LEMMA MoveToEndType ==
    ASSUME NEW s \in Seq(Key), NEW k \in Key
    PROVE  MoveToEnd(s, k) \in Seq(Key)
BY KeptFacts, AppendKeys DEF MoveToEnd

\* Requests that are received, refused, answered as duplicates or cut off.
LEMMA RequestSteps ==
    ASSUME StoreInv, MemoryInv,
           \/ \E n \in 1..MaxBatch : \E keys \in [1..n -> Key] : Receive(keys)
           \/ PublishDuplicate
           \/ PublishRejected
           \/ \E k \in Key : OutcomeDuplicate(k)
           \/ Disconnect
    PROVE  StoreInv' /\ MemoryInv' /\ CursorAdvances
<1>1. db' = db /\ limit' = limit /\ counted' = counted /\ in_epoch' = in_epoch
  BY DEF Receive, PublishDuplicate, PublishRejected, OutcomeDuplicate, Disconnect
<1>2. StoreInv' /\ StoreNext' = StoreNext /\ CursorAdvances
  BY <1>1, StoreKept, CursorsKept
<1>3. /\ mem \in Memory /\ up \in BOOLEAN /\ linked \in BOOLEAN /\ batch \in Seq(Key)
      /\ mem.recent_keys \in Seq(Key) /\ mem.outcome_keys \in Seq(Key)
  BY DEF MemoryInv, MemoryType, Memory
<1>4. batch # <<>> => Head(batch) \in Key /\ Tail(batch) \in Seq(Key)
  BY <1>3
<1>5. ASSUME NEW n \in 1..MaxBatch, NEW keys \in [1..n -> Key], Receive(keys)
      PROVE  MemoryInv'
  <2>1. keys \in Seq(Key)
    <3>1. n \in Nat
      BY QuotaAssumption
    <3> QED BY <3>1
  <2> QED BY <1>1, <1>2, <1>3, <1>5, <2>1, MemoryKept DEF Receive
<1>6. ASSUME PublishDuplicate PROVE MemoryInv'
  <2> DEFINE R == MoveToEnd(mem.recent_keys, Head(batch))
  <2>1. R \in Seq(Key) /\ Tail(batch) \in Seq(Key)
    BY <1>3, <1>4, <1>6, MoveToEndType DEF PublishDuplicate, Publishing
  <2>2. /\ mem' = [mem EXCEPT !.recent_keys = R]
        /\ batch' = Tail(batch) /\ up' = up /\ linked' = linked
    BY <1>6 DEF PublishDuplicate
  <2> HIDE DEF R
  <2>3. /\ mem' \in Memory /\ mem'.records = mem.records
        /\ mem'.next_offset = mem.next_offset
        /\ mem'.consumer_offsets = mem.consumer_offsets
        /\ mem'.policy = mem.policy
    BY <1>3, <2>1, <2>2 DEF Memory
  <2> QED BY <1>1, <1>2, <1>3, <2>1, <2>2, <2>3, MemoryKept
<1>7. ASSUME PublishRejected PROVE MemoryInv'
  BY <1>1, <1>2, <1>3, <1>4, <1>7, MemoryKept DEF PublishRejected, Publishing
<1>8. ASSUME NEW k \in Key, OutcomeDuplicate(k) PROVE MemoryInv'
  <2> DEFINE R == MoveToEnd(mem.outcome_keys, k)
  <2>1. R \in Seq(Key)
    BY <1>3, MoveToEndType
  <2>2. /\ mem' = [mem EXCEPT !.outcome_keys = R]
        /\ batch' = batch /\ up' = up /\ linked' = linked
    BY <1>8 DEF OutcomeDuplicate
  <2> HIDE DEF R
  <2>3. /\ mem' \in Memory /\ mem'.records = mem.records
        /\ mem'.next_offset = mem.next_offset
        /\ mem'.consumer_offsets = mem.consumer_offsets
        /\ mem'.policy = mem.policy
    BY <1>3, <2>1, <2>2 DEF Memory
  <2> QED BY <1>1, <1>2, <1>3, <2>2, <2>3, MemoryKept
<1>9. ASSUME Disconnect PROVE MemoryInv'
  <2>1. Within(mem.policy)
    BY DEF MemoryInv
  <2> QED BY <1>3, <1>9, <2>1, MemoryCut DEF Disconnect, Reconnected
<1> QED BY <1>2, <1>5, <1>6, <1>7, <1>8, <1>9

\* The ways a publish that was admitted may end.
LEMMA PublishSteps ==
    ASSUME StoreInv, MemoryInv, NEW k \in Key, NEW p \in Charge(mem.policy),
           \/ PublishAccepted(k, p) \/ PublishThenCrash(k, p)
           \/ PublishFails(k, p) \/ PublishUnheard(k, p)
    PROVE  StoreInv' /\ MemoryInv' /\ CursorAdvances
<1>1. /\ mem \in Memory /\ up \in BOOLEAN /\ linked \in BOOLEAN /\ batch \in Seq(Key)
      /\ mem.policy \in Policy /\ Within(mem.policy)
      /\ mem.records \in Seq(Frame) /\ mem.next_offset \in Nat
      /\ mem.recent_keys \in Seq(Key) /\ limit \in Limits
  BY DEF MemoryInv, MemoryType, Memory, StoreInv, StoreType
<1>2. /\ p \in Policy /\ Within(p) /\ Spent(p) = Spent(mem.policy) + 1
      /\ p.cumulative = mem.policy.cumulative + 1
      /\ p.debts = mem.policy.debts
  BY <1>1, ChargeFacts
<1>3. batch # <<>> => Tail(batch) \in Seq(Key)
  BY <1>1
<1>4. ASSUME PublishFails(k, p) PROVE StoreInv' /\ MemoryInv' /\ CursorAdvances
  <2>1. /\ db' = db /\ limit' = limit /\ counted' = counted /\ in_epoch' = in_epoch
        /\ up' = up /\ linked' = linked /\ batch' = <<>>
        /\ mem' = [mem EXCEPT !.open = TRUE, !.policy = mem.policy]
    BY <1>4 DEF PublishFails, PolicyAfterFailure
  <2>2. StoreInv' /\ StoreNext' = StoreNext /\ CursorAdvances
    BY <2>1, StoreKept, CursorsKept
  <2>3. /\ mem' \in Memory /\ mem'.records = mem.records
        /\ mem'.next_offset = mem.next_offset
        /\ mem'.consumer_offsets = mem.consumer_offsets
        /\ mem'.policy = mem.policy
    BY <1>1, <2>1 DEF Memory
  <2>4. batch' \in Seq(Key)
    BY <2>1
  <2> QED BY <1>1, <2>1, <2>2, <2>3, <2>4, MemoryKept
<1>5. ASSUME PublishAccepted(k, p) \/ PublishThenCrash(k, p) \/ PublishUnheard(k, p)
      PROVE  /\ StoreInv' /\ CursorAdvances
             /\ StoreNext' = StoreNext + 1
             /\ db'.frames = Newest(Append(db.frames, Row(k)), limit.frames)
             /\ db'.cursors = db.cursors
             /\ db'.admission = p
             /\ in_epoch' = in_epoch + 1 /\ linked
  <2>1. /\ AppendFrame(k, p) /\ limit' = limit /\ in_epoch' = in_epoch + 1
        /\ counted' = [counted EXCEPT ![k] = 0]
    BY <1>5 DEF PublishAccepted, PublishThenCrash, PublishUnheard, Dies
  <2>2. linked
    BY <2>1 DEF AppendFrame
  <2> QED BY <2>1, <2>2, AppendStore, CursorsKept
<1>6. ASSUME PublishThenCrash(k, p) PROVE MemoryInv'
  BY <1>6, MemoryDies DEF PublishThenCrash
<1>7. ASSUME PublishUnheard(k, p) PROVE MemoryInv'
  <2>1. /\ linked' = FALSE /\ up' = up /\ batch' \in Seq(Key)
        /\ mem' = [mem EXCEPT !.open = TRUE, !.policy = mem.policy]
    BY <1>7 DEF PublishUnheard, Reconnected, PolicyAfterFailure
  <2>2. mem' \in Memory /\ mem'.policy = mem.policy
    BY <1>1, <2>1 DEF Memory
  <2> QED BY <1>1, <2>1, <2>2, MemoryCut
<1>8. ASSUME PublishAccepted(k, p) PROVE MemoryInv'
  <2> DEFINE new == [offset |-> mem.next_offset, key |-> k]
             R == Newest(Append(mem.records, new), limit.frames)
             K == Newest(Append(mem.recent_keys, k), limit.dedup)
  <2>1. Agrees /\ new = Row(k)
    <3>1. Agrees
      BY <1>5, <1>8 DEF MemoryInv
    <3> QED BY <3>1 DEF Agrees, Row
  <2>2. new \in Frame
    BY <1>1 DEF Frame
  <2>3. limit.frames \in Nat /\ limit.dedup \in Nat
    BY <1>1, LimitFacts
  <2>4. R \in Seq(Frame)
    <3>1. Append(mem.records, new) \in Seq(Frame)
      BY <1>1, <2>2, AppendProperties
    <3> HIDE DEF new
    <3> QED BY <3>1, <2>3, NewestFacts
  <2>5. K \in Seq(Key)
    <3>1. Append(mem.recent_keys, k) \in Seq(Key)
      BY <1>1, AppendProperties
    <3> QED BY <3>1, <2>3, NewestFacts
  <2>6. R = db'.frames
    BY <1>5, <1>8, <2>1 DEF Agrees
  <2>7. /\ mem' = [mem EXCEPT !.open = TRUE, !.next_offset = mem.next_offset + 1,
                              !.records = R, !.recent_keys = K, !.policy = p]
        /\ batch' \in Seq(Key) /\ up' = up /\ linked' = linked
    BY <1>3, <1>8 DEF PublishAccepted, Admitted, Publishing
  <2> HIDE DEF R, K
  <2>8. mem' = [open |-> TRUE, records |-> R, next_offset |-> mem.next_offset + 1,
                recent_keys |-> K, outcome_keys |-> mem.outcome_keys,
                consumer_offsets |-> mem.consumer_offsets, policy |-> p]
    BY <1>1, <2>7 DEF Memory
  <2>9. mem.next_offset + 1 \in Nat
    BY <1>1
  <2>10. mem' \in Memory
    BY <1>1, <1>2, <2>4, <2>5, <2>8, <2>9 DEF Memory
  <2>11. /\ mem'.records = R /\ mem'.next_offset = mem.next_offset + 1
         /\ mem'.consumer_offsets = mem.consumer_offsets /\ mem'.policy = p
    BY <2>8
  <2>12. in_epoch' <= Spent(p)
    <3>1. mem.policy.total \in Nat /\ mem.policy.repairs \in Nat /\ in_epoch \in Nat
      BY <1>1 DEF Policy, StoreInv, StoreType
    <3>2. PICK x \in Nat, y \in Nat : x = in_epoch /\ y = Spent(mem.policy)
      BY <3>1 DEF Spent
    <3>3. x <= y
      BY <3>2, <2>1 DEF Agrees
    <3> QED BY <3>2, <3>3, <1>2, <1>5, <1>8
  <2>13. Agrees'
    <3>1. mem'.next_offset = StoreNext'
      BY <1>5, <1>8, <2>1, <2>11 DEF Agrees
    <3>2. mem'.consumer_offsets = db'.cursors
      BY <1>5, <1>8, <2>1, <2>11 DEF Agrees
    <3>3. mem'.records = db'.frames /\ mem'.policy = db'.admission
      BY <1>5, <1>8, <2>6, <2>11
    <3> QED BY <3>1, <3>2, <3>3, <2>11, <2>12 DEF Agrees, Spent
  <2>14. MemoryType'
    BY <1>1, <2>7, <2>10 DEF MemoryType
  <2>15. Within(mem.policy)'
    BY <1>2, <2>11 DEF Within
  <2> QED BY <2>13, <2>14, <2>15 DEF MemoryInv, Within
<1> QED BY <1>4, <1>5, <1>6, <1>7, <1>8

\* The ways record_application_outcome may end.
LEMMA OutcomeSteps ==
    ASSUME StoreInv, MemoryInv, NEW k \in Key,
           \/ OutcomeStored(k) \/ OutcomeThenCrash(k) \/ OutcomeUnheard(k)
           \/ OutcomeIgnored(k) \/ OutcomeFails(k)
    PROVE  StoreInv' /\ MemoryInv' /\ CursorAdvances
<1>1. /\ mem \in Memory /\ up \in BOOLEAN /\ linked \in BOOLEAN /\ batch \in Seq(Key)
      /\ mem.policy \in Policy /\ Within(mem.policy)
      /\ mem.outcome_keys \in Seq(Key) /\ limit \in Limits
  BY DEF MemoryInv, MemoryType, Memory, StoreInv, StoreType
<1>2. /\ Indebted(mem.policy) \in Policy /\ Within(Indebted(mem.policy))
      /\ Spent(Indebted(mem.policy)) = Spent(mem.policy)
  BY <1>1, IndebtedFacts
<1>3. Append(mem.outcome_keys, k) \in Seq(Key)
  BY <1>1, AppendProperties
<1>4. ASSUME OutcomeIgnored(k) \/ OutcomeFails(k)
      PROVE  StoreInv' /\ MemoryInv' /\ CursorAdvances
  <2>1. /\ db' = db /\ limit' = limit /\ counted' = counted /\ in_epoch' = in_epoch
        /\ up' = up /\ linked' = linked /\ batch' = batch
        /\ \/ mem' = [mem EXCEPT !.outcome_keys = Append(mem.outcome_keys, k),
                                 !.policy = mem.policy]
           \/ mem' = [mem EXCEPT !.policy = mem.policy]
    BY <1>4 DEF OutcomeIgnored, OutcomeFails, PolicyAfterFailure
  <2>2. StoreInv' /\ StoreNext' = StoreNext /\ CursorAdvances
    BY <2>1, StoreKept, CursorsKept
  <2>3. /\ mem' \in Memory /\ mem'.records = mem.records
        /\ mem'.next_offset = mem.next_offset
        /\ mem'.consumer_offsets = mem.consumer_offsets
        /\ mem'.policy = mem.policy
    BY <1>1, <1>3, <2>1 DEF Memory
  <2> QED BY <1>1, <2>1, <2>2, <2>3, MemoryKept
<1>5. ASSUME OutcomeStored(k) \/ OutcomeThenCrash(k) \/ OutcomeUnheard(k)
      PROVE  /\ StoreInv' /\ CursorAdvances
             /\ StoreNext' = StoreNext
             /\ db'.frames = db.frames
             /\ db'.cursors = db.cursors
             /\ db'.admission = Indebted(mem.policy)
             /\ in_epoch' = in_epoch /\ linked
  <2>1. /\ CommitOutcome(k) /\ limit' = limit /\ in_epoch' = in_epoch
        /\ counted' = [counted EXCEPT ![k] = @ + 1]
    BY <1>5 DEF OutcomeStored, OutcomeThenCrash, OutcomeUnheard, Dies
  <2>2. linked
    BY <2>1 DEF CommitOutcome
  <2> QED BY <2>1, <2>2, OutcomeStore, CursorsKept
<1>6. ASSUME OutcomeThenCrash(k) PROVE MemoryInv'
  BY <1>6, MemoryDies DEF OutcomeThenCrash
<1>7. ASSUME OutcomeUnheard(k) PROVE MemoryInv'
  <2>1. /\ linked' = FALSE /\ up' = up /\ batch' = batch
        /\ mem' = [mem EXCEPT !.policy = mem.policy]
    BY <1>7 DEF OutcomeUnheard, Reconnected, PolicyAfterFailure
  <2>2. mem' \in Memory /\ mem'.policy = mem.policy
    BY <1>1, <2>1 DEF Memory
  <2> QED BY <1>1, <2>1, <2>2, MemoryCut
<1>8. ASSUME OutcomeStored(k) PROVE MemoryInv'
  <2> DEFINE K == Newest(Append(mem.outcome_keys, k), limit.dedup)
             q == Indebted(mem.policy)
  <2>1. Agrees
    BY <1>5, <1>8 DEF MemoryInv
  <2>2. limit.dedup \in Nat
    BY <1>1, LimitFacts
  <2>3. K \in Seq(Key)
    BY <1>3, <2>2, NewestFacts
  <2>4. /\ mem' = [mem EXCEPT !.outcome_keys = K, !.policy = q]
        /\ batch' = batch /\ up' = up /\ linked' = linked
    BY <1>8 DEF OutcomeStored
  <2> HIDE DEF K, q
  <2>5. mem' = [open |-> mem.open, records |-> mem.records,
                next_offset |-> mem.next_offset, recent_keys |-> mem.recent_keys,
                outcome_keys |-> K, consumer_offsets |-> mem.consumer_offsets,
                policy |-> q]
    BY <1>1, <2>4 DEF Memory
  <2>6. mem' \in Memory
    BY <1>1, <1>2, <2>3, <2>5 DEF Memory, q
  <2>7. /\ mem'.records = mem.records /\ mem'.next_offset = mem.next_offset
        /\ mem'.consumer_offsets = mem.consumer_offsets /\ mem'.policy = q
    BY <2>5
  <2>8. Agrees'
    <3>1. /\ mem'.records = db'.frames /\ mem'.next_offset = StoreNext'
          /\ mem'.consumer_offsets = db'.cursors
      BY <1>5, <1>8, <2>1, <2>7 DEF Agrees
    <3>2. mem'.policy = db'.admission
      BY <1>5, <1>8, <2>7 DEF q
    <3>3. in_epoch' <= Spent(mem'.policy)
      BY <1>2, <1>5, <1>8, <2>1, <2>7 DEF Agrees, q
    <3> QED BY <3>1, <3>2, <3>3 DEF Agrees, Spent
  <2>9. MemoryType' /\ Within(mem.policy)'
    BY <1>1, <1>2, <2>4, <2>6, <2>7 DEF MemoryType, Within, q
  <2> QED BY <2>8, <2>9 DEF MemoryInv, Within
<1> QED BY <1>4, <1>5, <1>6, <1>7, <1>8

\* The ways a take may end.
LEMMA TakeSteps ==
    ASSUME StoreInv, MemoryInv, NEW c \in Consumer,
           Take(c) \/ TakeThenCrash(c) \/ TakeUnheard(c)
    PROVE  StoreInv' /\ MemoryInv' /\ CursorAdvances
<1>1. /\ mem \in Memory /\ up \in BOOLEAN /\ linked \in BOOLEAN /\ batch \in Seq(Key)
      /\ Within(mem.policy)
  BY DEF MemoryInv, MemoryType
<1>2. /\ CommitCursor(c) /\ limit' = limit /\ in_epoch' = in_epoch
      /\ counted' = counted
  BY DEF Take, TakeThenCrash, TakeUnheard, Dies
<1>3. /\ StoreInv'
      /\ StoreNext' = StoreNext
      /\ db'.frames = db.frames
      /\ db'.cursors = [db.cursors EXCEPT ![c] = NextCursor(c)]
      /\ db'.admission = db.admission
      /\ db'.cursors \in CursorMap
      /\ CursorAdvances
  BY <1>2, CursorStore
<1>4. ASSUME TakeThenCrash(c) PROVE MemoryInv'
  BY <1>4, MemoryDies DEF TakeThenCrash
<1>5. ASSUME TakeUnheard(c) PROVE MemoryInv'
  BY <1>1, <1>5, MemoryCut DEF TakeUnheard, Reconnected
<1>6. ASSUME Take(c) PROVE MemoryInv'
  <2>1. Agrees
    BY <1>2 DEF MemoryInv, CommitCursor
  <2>2. mem' = [mem EXCEPT !.consumer_offsets = db'.cursors]
    <3>1. mem' = [mem EXCEPT !.consumer_offsets[c] = NextCursor(c)]
      BY <1>6 DEF Take
    <3>2. mem.consumer_offsets = db.cursors
      BY <2>1 DEF Agrees
    <3> QED BY <1>1, <1>3, <3>1, <3>2 DEF Memory
  <2>3. batch' = batch /\ up' = up /\ linked' = linked
    BY <1>6 DEF Take
  <2>4. /\ mem' \in Memory /\ mem'.records = mem.records
        /\ mem'.next_offset = mem.next_offset
        /\ mem'.consumer_offsets = db'.cursors /\ mem'.policy = mem.policy
    BY <1>1, <1>3, <2>2 DEF Memory
  <2>5. Agrees'
    BY <1>2, <1>3, <2>1, <2>4 DEF Agrees, Spent
  <2>6. MemoryType' /\ Within(mem.policy)'
    BY <1>1, <2>3, <2>4 DEF MemoryType, Within
  <2> QED BY <2>5, <2>6 DEF MemoryInv, Within
<1> QED BY <1>3, <1>4, <1>5, <1>6

\* A new epoch resets the quota in memory and the count of its frames.
LEMMA EpochStep ==
    ASSUME StoreInv, MemoryInv, EpochReset
    PROVE  StoreInv' /\ MemoryInv' /\ CursorAdvances
<1> DEFINE q == [mem.policy EXCEPT !.total = 0, !.repairs = 0]
<1>1. /\ mem \in Memory /\ up \in BOOLEAN /\ linked \in BOOLEAN /\ batch \in Seq(Key)
      /\ mem.policy \in Policy
  BY DEF MemoryInv, MemoryType, Memory
<1>2. /\ db' = db /\ limit' = limit /\ counted' = counted /\ in_epoch' = 0
      /\ up' = up /\ linked' = linked /\ batch' = batch
      /\ mem' = [mem EXCEPT !.policy.total = 0, !.policy.repairs = 0]
  BY DEF EpochReset
<1>3. StoreInv' /\ StoreNext' = StoreNext /\ CursorAdvances
  BY <1>2, StoreKept, CursorsKept
<1>4. mem' = [mem EXCEPT !.policy = q]
  BY <1>1, <1>2 DEF Memory, Policy
<1>5. q \in Policy /\ Within(q) /\ 0 <= Spent(q)
  <2>1. q \in Policy /\ q.total = 0 /\ q.repairs = 0
    BY <1>1 DEF Policy
  <2> QED BY <2>1, QuotaAssumption DEF Within, Spent
<1>6. q.cumulative = mem.policy.cumulative /\ q.debts = mem.policy.debts
  BY <1>1 DEF Policy
<1> HIDE DEF q
<1>7. /\ mem' \in Memory /\ mem'.records = mem.records
      /\ mem'.next_offset = mem.next_offset
      /\ mem'.consumer_offsets = mem.consumer_offsets /\ mem'.policy = q
  BY <1>1, <1>4, <1>5 DEF Memory
<1>8. linked' => Agrees'
  <2>1. linked' => Agrees
    BY <1>2 DEF MemoryInv
  <2>2. in_epoch' <= Spent(mem'.policy)
    BY <1>2, <1>5, <1>7
  <2> QED BY <1>2, <1>3, <1>6, <1>7, <2>1, <2>2 DEF Agrees, Spent
<1>9. MemoryType' /\ Within(mem.policy)'
  BY <1>1, <1>2, <1>5, <1>7 DEF MemoryType, Within
<1> QED BY <1>3, <1>8, <1>9 DEF MemoryInv, Within

\* A process over empty tables satisfies the invariant.
LEMMA InitInv ==
    ASSUME Init
    PROVE  StoreInv /\ MemoryInv
<1>1. /\ limit \in Limits /\ mem = Blank /\ up = TRUE /\ linked = TRUE
      /\ batch = <<>> /\ in_epoch = 0 /\ counted = [k \in Key |-> 0]
      /\ db = [frames |-> <<>>, dedup_keys |-> <<>>, outcomes |-> <<>>,
               cursors |-> [c \in Consumer |-> Absent], admission |-> NoCharges]
  BY DEF Init
<1>2. /\ [c \in Consumer |-> Absent] \in CursorMap /\ NoCharges \in Policy
      /\ <<>> \in Seq(Frame) /\ <<>> \in Seq(Key)
  BY DEF CursorMap, NoCharges, Policy
<1>3. StoreType
  BY <1>1, <1>2 DEF StoreType
<1>4. /\ db.frames = <<>> /\ db.dedup_keys = <<>> /\ db.outcomes = <<>>
      /\ db.admission = NoCharges
      /\ Len(db.frames) = 0 /\ Len(db.dedup_keys) = 0 /\ Len(db.outcomes) = 0
  BY <1>1
<1>5. StoreNext = 0
  BY <1>4 DEF StoreNext
<1>6. Within(NoCharges) /\ Spent(NoCharges) = 0 /\ NoCharges.cumulative = 0
  BY QuotaAssumption DEF NoCharges, Within, Spent
<1>7. Trimmed
  BY <1>1, <1>4, LimitFacts DEF Trimmed
<1>8. Contiguous /\ FramesRemembered /\ OutcomesHaveFrames
      /\ Distinct(db.dedup_keys) /\ Distinct(db.outcomes)
  BY <1>4 DEF Contiguous, FramesRemembered, OutcomesHaveFrames, Distinct, KeysIn
<1>9. DebtsRecorded
  BY <1>1 DEF DebtsRecorded
<1>10. StoreInv
  BY <1>1, <1>3, <1>4, <1>5, <1>6, <1>7, <1>8, <1>9 DEF StoreInv
<1>11. MemoryType
  BY <1>1, <1>2 DEF MemoryType, Memory, Blank
<1>12. Agrees /\ Within(mem.policy)
  BY <1>1, <1>4, <1>5, <1>6 DEF Agrees, Blank
<1> QED BY <1>10, <1>11, <1>12 DEF MemoryInv

\* Every step preserves the invariant and moves no cursor back.
LEMMA NextInv ==
    ASSUME StoreInv, MemoryInv, [Next]_vars
    PROVE  StoreInv' /\ MemoryInv' /\ (CursorAdvances \/ UNCHANGED vars)
<1>1. CASE UNCHANGED vars
  <2>1. StoreInv' /\ StoreNext' = StoreNext
    BY <1>1, StoreKept DEF vars
  <2>2. mem \in Memory /\ up \in BOOLEAN /\ linked \in BOOLEAN /\ batch \in Seq(Key)
    BY DEF MemoryInv, MemoryType
  <2> QED BY <1>1, <2>1, <2>2, MemoryKept DEF vars
<1>2. ASSUME Crash PROVE StoreInv' /\ MemoryInv' /\ CursorAdvances
  BY <1>2, StoreKept, MemoryDies, CursorsKept DEF Crash, Dies
<1>3. ASSUME NEW l \in Limits, Restart(l)
      PROVE  StoreInv' /\ MemoryInv' /\ CursorAdvances
  BY <1>3, RestartStep, CursorsKept
<1>4. CASE Next
  BY <1>2, <1>3, <1>4, RequestSteps, PublishSteps, OutcomeSteps, TakeSteps, EpochStep
  DEF Next
<1> QED BY <1>1, <1>4
-----------------------------------------------------------------------------
(* Theorems *)

\* The tables stay consistent and memory agrees with them while the process
\* can write, over every commit, failure, crash, lost answer and restart of
\* publish, record_application_outcome, take and recover.
THEOREM HistoryInvariant == Spec => [](StoreInv /\ MemoryInv)
<1>1. Init => StoreInv /\ MemoryInv
  BY InitInv
<1>2. StoreInv /\ MemoryInv /\ [Next]_vars => (StoreInv /\ MemoryInv)'
  BY NextInv
<1> QED BY <1>1, <1>2, PTL DEF Spec

\* Memory and tables of FleetQoxGatewayState keep their types, whatever the
\* limits of the configuration.
THEOREM GatewayTypes == Spec => []TypeOK
<1>1. StoreInv /\ MemoryInv => TypeOK
  BY DEF StoreInv, StoreType, MemoryInv, MemoryType, Memory, TypeOK
<1> QED BY <1>1, HistoryInvariant, PTL

\* A process that can still write holds what one started now would recover
\* (append_frame, set_cursor, recover), after any failed or unheard commits.
THEOREM MemoryRecoverable == Spec => []Recoverable
<1>1. StoreInv /\ MemoryInv => Recoverable
  BY StoreNextFacts DEF StoreInv, MemoryInv, Agrees, Recoverable
<1> QED BY <1>1, HistoryInvariant, PTL

\* Every frame ever accepted was charged once (publish, restore_durable_state).
THEOREM FramesChargedOnce == Spec => []ChargedOnce
<1>1. StoreInv /\ MemoryInv => ChargedOnce
  BY StoreNextFacts DEF StoreInv, ChargedOnce
<1> QED BY <1>1, HistoryInvariant, PTL

\* No history holds a publication twice: the retained frames are the newest
\* dedup rows, and those are unique (append_frame, recover).
THEOREM FramesRetainedOnce == Spec => []RetainedOnce
<1>1. ASSUME StoreInv, NEW i \in 1..Len(db.frames), NEW j \in 1..Len(db.frames),
             db.frames[i].key = db.frames[j].key
      PROVE  i = j
  <2>1. PICK lf \in Nat, ld \in Nat : lf = Len(db.frames) /\ ld = Len(db.dedup_keys)
    BY <1>1 DEF StoreInv, StoreType
  <2>2. /\ lf <= ld
        /\ db.frames[i].key = db.dedup_keys[ld - lf + i]
        /\ db.frames[j].key = db.dedup_keys[ld - lf + j]
    BY <1>1, <2>1 DEF StoreInv, FramesRemembered
  <2>3. i \in 1..lf /\ j \in 1..lf
    BY <2>1
  <2>4. PICK m \in 1..ld, n \in 1..ld : m = ld - lf + i /\ n = ld - lf + j
    BY <2>2, <2>3
  <2>5. m = n
    BY <1>1, <2>1, <2>2, <2>4 DEF StoreInv, Distinct
  <2> QED BY <2>3, <2>4, <2>5
<1>2. StoreInv /\ MemoryInv => RetainedOnce
  BY <1>1 DEF RetainedOnce
<1> QED BY <1>2, HistoryInvariant, PTL

\* A frame's outcome raises the debt once (commit_application_outcome): the
\* outcome row lasts as long as the dedup row that a repetition needs.
THEOREM OutcomesDebtedOnce == Spec => []DebtedOnce
<1>1. StoreInv /\ MemoryInv => DebtedOnce
  BY DEF StoreInv, DebtsRecorded, DebtedOnce
<1> QED BY <1>1, HistoryInvariant, PTL

\* recover never finds an outcome without its dedup row.
THEOREM OutcomesRecoverable == Spec => []OutcomesHaveFrames
<1>1. StoreInv /\ MemoryInv => OutcomesHaveFrames
  BY DEF StoreInv
<1> QED BY <1>1, HistoryInvariant, PTL

\* The quota of an epoch holds over restarts and unheard commits (admit,
\* export_durable_state).
THEOREM QuotaHolds == Spec => []EpochQuota
<1>1. ASSUME StoreInv PROVE EpochQuota
  <2>1. db.admission \in Policy /\ in_epoch \in Nat
    BY <1>1 DEF StoreInv, StoreType
  <2>2. PICK a \in Nat, b \in Nat, x \in Nat, y \in Nat :
            /\ a = db.admission.total /\ b = db.admission.repairs
            /\ x = MaxAccepted /\ y = MaxRepairs
    BY <2>1, QuotaAssumption DEF Policy
  <2>3. a <= x /\ b <= y /\ in_epoch <= a + b
    BY <1>1, <2>2 DEF StoreInv, Within, Spent
  <2>4. in_epoch <= x + y
    BY <2>1, <2>3
  <2> QED BY <2>2, <2>4 DEF EpochQuota
<1>2. StoreInv /\ MemoryInv => EpochQuota
  BY <1>1
<1> QED BY <1>2, HistoryInvariant, PTL

\* A durable cursor never goes back (take, set_cursor, recover).
THEOREM FramesDeliveredOnce == Spec => DeliveredOnce
<1>1. StoreInv /\ MemoryInv /\ [Next]_vars => [CursorAdvances]_vars
  BY NextInv
<1> QED BY <1>1, HistoryInvariant, PTL DEF Spec, DeliveredOnce

=============================================================================
