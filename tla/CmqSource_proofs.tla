--------------------------- MODULE CmqSource_proofs ---------------------------
(***************************************************************************)
(* What the cmq_queue event source guarantees for every set of messages,   *)
(* every capacity of the rulebook's queue and every number of failures.    *)
(***************************************************************************)
EXTENDS CmqSource, TLAPS

USE DEF Visible, Queued, source, rulebook, service

\* The message in hand is still in CMQ until it is deleted, and it is deleted
\* only after it was yielded.
InHand ==
  /\ pc \in {"put", "delete"} => held \in stored
  /\ pc = "delete" => yields[held] > 0
  /\ pc = "delete" => acknowledge

\* A delivery in progress and a delivery to come are each paid for by a timeout.
Deliveries(m) ==
  yields[m] + (IF pc = "put" /\ held = m THEN 1 ELSE 0)
            + (IF m \in Visible THEN 1 ELSE 0)

Paid == \A m \in Messages : Deliveries(m) <= 1 + expiries[m]

\* The inductive invariant: each part is preserved by every step.
IInv ==
  /\ TypeOK /\ InHand /\ Paid
  /\ YieldedFirst /\ OnlyACrashLoses /\ LeavesUnacknowledged

-----------------------------------------------------------------------------
\* An appended event is queued, and so is everything that was.
LEMMA AppendQueued ==
  ASSUME NEW S, NEW q \in Seq(S), NEW e \in S
  PROVE  /\ Append(q, e) \in Seq(S) /\ Len(Append(q, e)) = Len(q) + 1
         /\ \E i \in DOMAIN Append(q, e) : Append(q, e)[i] = e
         /\ \A m : (\E i \in DOMAIN q : q[i] = m)
                     => \E i \in DOMAIN Append(q, e) : Append(q, e)[i] = m
<1>1. /\ Append(q, e) \in Seq(S) /\ Len(Append(q, e)) = Len(q) + 1
      /\ DOMAIN Append(q, e) = 1..(Len(q) + 1) /\ DOMAIN q = 1..Len(q) /\ Len(q) \in Nat
  OBVIOUS
<1>2. /\ Append(q, e)[Len(q) + 1] = e
      /\ \A i \in 1..Len(q) : Append(q, e)[i] = q[i]
  OBVIOUS
<1> QED BY <1>1, <1>2

\* What the rulebook takes is the head; the rest stays queued.
LEMMA TailQueued ==
  ASSUME NEW S, NEW q \in Seq(S), q # <<>>
  PROVE  /\ Tail(q) \in Seq(S) /\ Len(Tail(q)) <= Len(q) /\ Head(q) \in S
         /\ \A m : (\E i \in DOMAIN q : q[i] = m)
                     => m = Head(q) \/ \E i \in DOMAIN Tail(q) : Tail(q)[i] = m
<1>1. /\ Tail(q) \in Seq(S) /\ Len(Tail(q)) = Len(q) - 1 /\ Head(q) = q[1] /\ Head(q) \in S
      /\ DOMAIN Tail(q) = 1..(Len(q) - 1) /\ DOMAIN q = 1..Len(q) /\ Len(q) \in Nat \ {0}
  OBVIOUS
<1>2. \A i \in 1..(Len(q) - 1) : Tail(q)[i] = q[i + 1]
  OBVIOUS
<1>3. ASSUME NEW m, NEW i \in DOMAIN q, q[i] = m, m # Head(q)
      PROVE  \E j \in DOMAIN Tail(q) : Tail(q)[j] = m
  <2>1. i - 1 \in 1..(Len(q) - 1) /\ Tail(q)[i - 1] = m
    BY <1>1, <1>2, <1>3
  <2> QED BY <2>1, <1>1
<1> QED BY <1>1, <1>3

LEMMA InitEstablishes == Init => IInv
BY CmqAssumption
   DEF Init, IInv, TypeOK, InHand, Paid, Deliveries, YieldedFirst, OnlyACrashLoses,
       LeavesUnacknowledged

\* A failed call changes the program counter and the count of faults.
LEMMA RaiseCounts == ASSUME TypeOK, Raise
                     PROVE  pc' = "report" /\ faults' \in 0..MaxFaults
BY CmqAssumption DEF TypeOK, Raise

LEMMA ReceivePreserves ==
  ASSUME IInv, NEW m \in Messages, Receive(m) PROVE IInv'
<1> USE DEF IInv, Receive
<1>1. /\ stored' = stored /\ yields' = yields /\ expiries' = expiries /\ queue' = queue
      /\ processed' = processed /\ crashes' = crashes /\ acknowledge' = acknowledge
      /\ slow' = slow /\ hidden' = hidden \cup {m} /\ m \in stored /\ m \notin hidden
      /\ pc = "receive"
  OBVIOUS
<1>2. \/ pc' = "put" /\ held' = m
      \/ pc' = "report" /\ held' = held
  BY RaiseCounts
<1>3. TypeOK'
  BY RaiseCounts DEF TypeOK
<1>4. InHand'
  BY <1>1, <1>2 DEF InHand
<1>5. Paid'
  BY <1>1, <1>2 DEF Paid, Deliveries, TypeOK
<1>6. YieldedFirst' /\ OnlyACrashLoses' /\ LeavesUnacknowledged'
  BY <1>1 DEF YieldedFirst, OnlyACrashLoses, LeavesUnacknowledged
<1> QED BY <1>3, <1>4, <1>5, <1>6

LEMMA PutPreserves == ASSUME IInv, Put PROVE IInv'
<1> USE DEF IInv, Put
<1>1. held \in stored /\ held \in Messages /\ pc = "put"
  BY DEF InHand, TypeOK
<1>2. /\ yields' \in [Messages -> Nat] /\ yields'[held] = yields[held] + 1
      /\ \A m \in Messages \ {held} : yields'[m] = yields[m]
  BY <1>1 DEF TypeOK
<1>3. /\ queue' \in Seq(Messages \cup {Failure}) /\ Len(queue') = Len(queue) + 1
      /\ Queued(held)' /\ \A m \in Messages : Queued(m) => Queued(m)'
  <2> DEFINE S == Messages \cup {Failure}
  <2>1. queue \in Seq(S) /\ held \in S /\ queue' = Append(queue, held)
    BY <1>1 DEF TypeOK
  <2> HIDE DEF S
  <2>2. /\ queue' \in Seq(S) /\ Len(queue') = Len(queue) + 1 /\ Queued(held)'
        /\ \A m : Queued(m) => Queued(m)'
    BY <2>1, AppendQueued
  <2> QED BY <2>2 DEF S
<1>4. TypeOK'
  <2>1. Len(queue') <= Room
    BY <1>3, CmqAssumption DEF TypeOK
  <2> QED BY <1>2, <1>3, <2>1 DEF TypeOK
<1>5. InHand'
  BY <1>1, <1>2 DEF InHand, TypeOK
<1>6. Paid'
  <2> SUFFICES ASSUME NEW m \in Messages
               PROVE  Deliveries(m)' <= 1 + expiries[m]
    BY DEF Paid
  <2>1. Deliveries(m) <= 1 + expiries[m] /\ yields[m] \in Nat /\ expiries[m] \in Nat
    BY DEF Paid, TypeOK
  <2> QED BY <1>1, <1>2, <2>1 DEF Deliveries
<1>7. YieldedFirst' /\ LeavesUnacknowledged'
  BY <1>1, <1>2 DEF YieldedFirst, LeavesUnacknowledged
<1>8. OnlyACrashLoses'
  BY <1>1, <1>2, <1>3 DEF OnlyACrashLoses
<1> QED BY <1>4, <1>5, <1>6, <1>7, <1>8

LEMMA DeletePreserves == ASSUME IInv, Delete PROVE IInv'
<1> USE DEF IInv, Delete
<1>1. pc = "delete" /\ held \in stored /\ yields[held] > 0 /\ acknowledge
  BY DEF InHand
<1>2. pc' \in {"receive", "report"} /\ faults' \in 0..MaxFaults
  BY RaiseCounts DEF TypeOK
<1>3. TypeOK'
  BY <1>1, <1>2 DEF TypeOK
<1>4. InHand'
  BY <1>2 DEF InHand
<1>5. Paid'
  <2> SUFFICES ASSUME NEW m \in Messages
               PROVE  Deliveries(m)' <= 1 + expiries[m]
    BY DEF Paid
  <2>1. Deliveries(m) <= 1 + expiries[m] /\ yields[m] \in Nat /\ expiries[m] \in Nat
    BY DEF Paid, TypeOK
  <2> QED BY <1>1, <1>2, <2>1 DEF Deliveries
<1>6. YieldedFirst' /\ OnlyACrashLoses' /\ LeavesUnacknowledged'
  BY <1>1 DEF YieldedFirst, OnlyACrashLoses, LeavesUnacknowledged
<1> QED BY <1>3, <1>4, <1>5, <1>6

\* A step that only moves on to a pause, to the handler or to the next poll.
LEMMA MoveOnPreserves ==
  ASSUME IInv, ReceiveNothing \/ ReceiveFails \/ DeleteFails \/ Wake PROVE IInv'
<1> USE DEF IInv
<1>1. /\ UNCHANGED <<held, acknowledge, rulebook, service, crashes>>
      /\ pc' \in {"receive", "report", "sleep"} /\ faults' \in 0..MaxFaults
  BY RaiseCounts DEF TypeOK, ReceiveNothing, ReceiveFails, DeleteFails, Wake
<1>2. TypeOK' /\ InHand'
  BY <1>1 DEF TypeOK, InHand
<1>3. Paid'
  BY <1>1 DEF Paid, Deliveries, TypeOK
<1>4. YieldedFirst' /\ OnlyACrashLoses' /\ LeavesUnacknowledged'
  BY <1>1 DEF YieldedFirst, OnlyACrashLoses, LeavesUnacknowledged
<1> QED BY <1>2, <1>3, <1>4

LEMMA ReportPreserves == ASSUME IInv, Report PROVE IInv'
<1> USE DEF IInv, Report
<1>1. /\ queue' \in Seq(Messages \cup {Failure}) /\ Len(queue') = Len(queue) + 1
      /\ \A m \in Messages : Queued(m) => Queued(m)'
  BY AppendQueued DEF TypeOK
<1>2. TypeOK'
  <2>1. Len(queue') <= Room
    BY <1>1, CmqAssumption DEF TypeOK
  <2> QED BY <1>1, <2>1 DEF TypeOK
<1>3. InHand' /\ Paid'
  BY DEF InHand, Paid, Deliveries, TypeOK
<1>4. YieldedFirst' /\ OnlyACrashLoses' /\ LeavesUnacknowledged'
  BY <1>1 DEF YieldedFirst, OnlyACrashLoses, LeavesUnacknowledged
<1> QED BY <1>2, <1>3, <1>4

LEMMA ExpirePreserves ==
  ASSUME IInv, NEW m \in Messages, Expire(m) PROVE IInv'
<1> USE DEF IInv, Expire
<1>1. /\ UNCHANGED <<source, rulebook, stored, faults, crashes>>
      /\ hidden' = hidden \ {m} /\ m \in hidden /\ slow' \in 0..MaxSlow
  BY CmqAssumption DEF TypeOK
<1>2. /\ expiries' \in [Messages -> Nat] /\ expiries'[m] = expiries[m] + 1
      /\ \A n \in Messages \ {m} : expiries'[n] = expiries[n]
  BY DEF TypeOK
<1>3. TypeOK' /\ InHand'
  BY <1>1, <1>2 DEF TypeOK, InHand
<1>4. Paid'
  <2> SUFFICES ASSUME NEW n \in Messages
               PROVE  Deliveries(n)' <= 1 + expiries'[n]
    BY DEF Paid
  <2>1. Deliveries(n) <= 1 + expiries[n] /\ yields[n] \in Nat /\ expiries[n] \in Nat
    BY DEF Paid, TypeOK
  <2> QED BY <1>1, <1>2, <2>1 DEF Deliveries
<1>5. YieldedFirst' /\ OnlyACrashLoses' /\ LeavesUnacknowledged'
  BY <1>1 DEF YieldedFirst, OnlyACrashLoses, LeavesUnacknowledged
<1> QED BY <1>3, <1>4, <1>5

LEMMA ConsumePreserves == ASSUME IInv, Consume PROVE IInv'
<1> USE DEF IInv, Consume
<1>1. /\ queue' \in Seq(Messages \cup {Failure}) /\ Len(queue') <= Len(queue)
      /\ \A m \in Messages : Queued(m) => m = Head(queue) \/ Queued(m)'
  <2> DEFINE S == Messages \cup {Failure}
  <2>1. queue \in Seq(S) /\ queue # <<>> /\ queue' = Tail(queue)
    BY DEF TypeOK
  <2> HIDE DEF S
  <2>2. /\ queue' \in Seq(S) /\ Len(queue') <= Len(queue)
        /\ \A m : Queued(m) => m = Head(queue) \/ Queued(m)'
    BY <2>1, TailQueued
  <2> QED BY <2>2 DEF S
<1>2. TypeOK'
  <2>1. Len(queue') <= Room
    BY <1>1, CmqAssumption DEF TypeOK
  <2> QED BY <1>1, <2>1 DEF TypeOK
<1>3. InHand' /\ Paid'
  BY DEF InHand, Paid, Deliveries, TypeOK
<1>4. YieldedFirst' /\ OnlyACrashLoses' /\ LeavesUnacknowledged'
  BY <1>1 DEF YieldedFirst, OnlyACrashLoses, LeavesUnacknowledged
<1> QED BY <1>2, <1>3, <1>4

LEMMA StopPreserves == ASSUME IInv, Crash \/ Restart PROVE IInv'
<1> USE DEF IInv
<1>1. /\ UNCHANGED <<acknowledge, yields, processed, service, faults>>
      /\ pc' \in {"receive", "down"} /\ held' \in {held, None}
      /\ \/ crashes' = crashes /\ queue' = queue
         \/ crashes' = crashes + 1 /\ crashes' <= MaxCrashes /\ queue' = <<>>
  BY CmqAssumption DEF Crash, Restart, TypeOK
<1>2. TypeOK'
  <2>1. queue' \in Seq(Messages \cup {Failure}) /\ Len(queue') <= Room
    <3>1. CASE queue' = queue
      BY <3>1 DEF TypeOK
    <3>2. CASE queue' = <<>>
      BY <3>2, CmqAssumption
    <3> QED BY <1>1, <3>1, <3>2
  <2>2. crashes' \in 0..MaxCrashes
    BY <1>1, CmqAssumption DEF TypeOK
  <2> QED BY <1>1, <2>1, <2>2 DEF TypeOK
<1>3. InHand' /\ Paid'
  BY <1>1 DEF InHand, Paid, Deliveries, TypeOK
<1>4. YieldedFirst' /\ OnlyACrashLoses' /\ LeavesUnacknowledged'
  BY <1>1 DEF YieldedFirst, OnlyACrashLoses, LeavesUnacknowledged, TypeOK
<1> QED BY <1>2, <1>3, <1>4

LEMMA NextPreserves == IInv /\ [Next]_vars => IInv'
<1> SUFFICES ASSUME IInv, [Next]_vars PROVE IInv'
  OBVIOUS
<1>1. CASE Poll
  BY <1>1, ReceivePreserves, PutPreserves, DeletePreserves, MoveOnPreserves,
     ReportPreserves DEF Poll
<1>2. CASE Consume \/ Crash \/ Restart
  BY <1>2, ConsumePreserves, StopPreserves
<1>3. CASE \E m \in Messages : Expire(m)
  BY <1>3, ExpirePreserves
<1>4. CASE UNCHANGED vars
  BY <1>4 DEF vars, IInv, TypeOK, InHand, Paid, Deliveries, YieldedFirst,
     OnlyACrashLoses, LeavesUnacknowledged
<1> QED BY <1>1, <1>2, <1>3, <1>4 DEF Next

LEMMA Invariance == Spec => []IInv
<1> QED BY InitEstablishes, NextPreserves, PTL DEF Spec

-----------------------------------------------------------------------------
\* The variables keep their shapes.
THEOREM TypeCorrect == Spec => []TypeOK
<1>1. IInv => TypeOK
  BY DEF IInv
<1> QED BY <1>1, Invariance, PTL

\* At least once: a message leaves CMQ only after it was yielded, whichever
\* calls fail or lose their replies and whenever the process dies.
THEOREM YieldedFirstAlways == Spec => []YieldedFirst
<1>1. IInv => YieldedFirst
  BY DEF IInv
<1> QED BY <1>1, Invariance, PTL

\* The loop drops no event: only the death of the process loses a yielded one.
THEOREM OnlyACrashLosesAlways == Spec => []OnlyACrashLoses
<1>1. IInv => OnlyACrashLoses
  BY DEF IInv
<1> QED BY <1>1, Invariance, PTL

\* A message is yielded at most once more than its visibility timed out.
THEOREM OncePerTimeoutAlways == Spec => []OncePerTimeout
<1>1. IInv => OncePerTimeout
  <2> SUFFICES ASSUME IInv, NEW m \in Messages
               PROVE  yields[m] <= 1 + expiries[m]
    BY DEF OncePerTimeout
  <2>1. Deliveries(m) <= 1 + expiries[m] /\ yields[m] \in Nat /\ expiries[m] \in Nat
    BY DEF IInv, Paid, TypeOK
  <2> QED BY <2>1 DEF Deliveries
<1> QED BY <1>1, Invariance, PTL

\* Without acknowledge, CMQ keeps every message.
THEOREM LeavesUnacknowledgedAlways == Spec => []LeavesUnacknowledged
<1>1. IInv => LeavesUnacknowledged
  BY DEF IInv
<1> QED BY <1>1, Invariance, PTL
=============================================================================
