---------------------------- MODULE ReliableStream ----------------------------
(***************************************************************************)
(* What a reliable stream of FleetRMW promises, without messages: samples  *)
(* are published in sequence, the writer gives some up for a reader, a     *)
(* reader sees a sample, given up or not, or is told that one that was     *)
(* given up for it is lost, and the writer credits a reader only with      *)
(* samples of which the reader knows the fate.                             *)
(***************************************************************************)
EXTENDS Integers

CONSTANTS Readers, MaxSeq

Seqs == 1 .. MaxSeq

VARIABLES
  published,  \* samples published so far
  gone,       \* samples the writer need no longer repair for each reader
  seen,       \* samples each reader has received
  lost,       \* samples each reader was told are lost
  credited    \* samples each reader has acknowledged, as the writer knows

vars == <<published, gone, seen, lost, credited>>

Init ==
  /\ published = 0
  /\ gone = [r \in Readers |-> {}]
  /\ seen = [r \in Readers |-> {}]
  /\ lost = [r \in Readers |-> {}]
  /\ credited = [r \in Readers |-> {}]

\* More samples are given up, for any reader; none is taken back.
MoreGone ==
  /\ gone' \in [Readers -> SUBSET (1 .. published)]
  /\ \A r \in Readers : gone[r] \subseteq gone'[r]

\* A sample is published; the writer may give up others to make room.
Publish ==
  /\ published' = published + 1
  /\ MoreGone
  /\ UNCHANGED <<seen, lost, credited>>

See(r) ==
  /\ \E s \in 1 .. published : seen' = [seen EXCEPT ![r] = @ \cup {s}]
  /\ UNCHANGED <<published, gone, lost, credited>>

Lose(r) ==
  /\ \E S \in SUBSET gone[r] : lost' = [lost EXCEPT ![r] = @ \cup S]
  /\ UNCHANGED <<published, gone, seen, credited>>

\* The writer credits a reader, and may give samples up at that moment: the same
\* feedback acknowledges some and asks for others.
Credit(r) ==
  /\ \E S \in SUBSET (seen[r] \cup lost[r]) :
       credited' = [credited EXCEPT ![r] = @ \cup S]
  /\ MoreGone
  /\ UNCHANGED <<published, seen, lost>>

\* The writer retires samples that everyone has acknowledged.
GiveUp ==
  /\ MoreGone
  /\ UNCHANGED <<published, seen, lost, credited>>

Next == Publish \/ GiveUp \/ \E r \in Readers : See(r) \/ Lose(r) \/ Credit(r)

Spec == Init /\ [][Next]_vars
=============================================================================
