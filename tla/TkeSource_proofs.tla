--------------------------- MODULE TkeSource_proofs ---------------------------
(***************************************************************************)
(* What the events of the tke_cluster event source tell, for every set of  *)
(* clusters and states and every number of changes and failures.           *)
(***************************************************************************)
EXTENDS TkeSource, TLAPS

Tables == [Clusters -> Cluster \cup {NoCluster}]

\* Before the first comparison nothing is recorded and nothing was announced.
Fresh == ~polls => states = Nothing /\ baseline = Nothing /\ log = [c \in Clusters |-> <<>>]

\* A reader of the events is up to date, and was after each of them.
UpToDate == initial \/ ~relapsed => \A c \in Clusters : Announced(c) /\ Chained(c)

IInv == TypeOK /\ Fresh /\ UpToDate

-----------------------------------------------------------------------------
LEMMA AppendFacts ==
  ASSUME NEW S, NEW q \in Seq(S), NEW e \in S
  PROVE  /\ Append(q, e) \in Seq(S) /\ Len(q) \in Nat
         /\ Len(Append(q, e)) = Len(q) + 1
         /\ DOMAIN q = 1..Len(q) /\ DOMAIN Append(q, e) = 1..(Len(q) + 1)
         /\ Append(q, e)[Len(q) + 1] = e
         /\ \A i \in 1..Len(q) : Append(q, e)[i] = q[i]
OBVIOUS

\* The entries of a table are told apart by their signatures.
LEMMA Signed ==
  ASSUME NEW table \in Tables, NEW c \in Clusters
  PROVE  /\ table[c].signature \in Signatures \cup {None}
         /\ c \in Known(table) <=> table[c] # NoCluster
         /\ c \in Known(table) => table[c] \in Cluster
         /\ c \in Known(table) <=> table[c].signature # None
  BY TkeAssumption DEF Tables, Known, Cluster, NoCluster

LEMMA InitEstablishes == Init => IInv
<1> SUFFICES ASSUME Init PROVE IInv
  OBVIOUS
<1>1. Nothing \in Tables
  BY DEF Nothing, Tables
<1>2. TypeOK
  <2>1. /\ cloud \in Tables /\ current \in Tables /\ states \in Tables /\ baseline \in Tables
    BY <1>1 DEF Init, Tables
  <2>2. changes \in 0..MaxChanges /\ faults \in 0..MaxFaults
    BY TkeAssumption DEF Init
  <2>3. log \in [Clusters -> Seq(Event)]
    BY DEF Init
  <2>4. /\ initial \in Modes /\ pc \in {"poll", "compare", "sleep"}
        /\ polls \in BOOLEAN /\ relapsed \in BOOLEAN
    BY DEF Init
  <2> QED
    BY <2>1, <2>2, <2>3, <2>4 DEF TypeOK, Tables
<1>3. ASSUME NEW c \in Clusters PROVE Announced(c) /\ Chained(c)
  BY DEF Init, Announced, Chained, Told, Nothing, NoCluster
<1> QED
  BY <1>2, <1>3 DEF IInv, UpToDate, Fresh, Init

\* Steps that touch neither the record nor the events.
LEMMA QuietPreserves ==
  ASSUME IInv, TypeOK', UNCHANGED <<initial, states, log, baseline, polls, relapsed>>
  PROVE  IInv'
  BY DEF IInv, Fresh, UpToDate, Announced, Chained, Told

LEMMA ChangePreserves == ASSUME IInv, NEW c \in Clusters, Change(c) PROVE IInv'
<1>1. cloud' \in Tables
  BY DEF IInv, TypeOK, Change, Tables
<1>2. changes' \in 0..MaxChanges
  BY TkeAssumption DEF IInv, TypeOK, Change
<1>3. TypeOK'
  BY <1>1, <1>2 DEF IInv, TypeOK, Change, Tables
<1> QED
  BY <1>3, QuietPreserves DEF Change

LEMMA CallPreserves == ASSUME IInv, Describe \/ DescribeFails \/ Sleep PROVE IInv'
<1>1. Nothing \in Tables
  BY DEF Nothing, Tables
<1>2. faults' \in 0..MaxFaults
  BY TkeAssumption DEF IInv, TypeOK, Describe, DescribeFails, Sleep
<1>3. current' \in Tables
  BY <1>1 DEF IInv, TypeOK, Describe, DescribeFails, Sleep, Tables
<1>4. TypeOK'
  BY <1>2, <1>3 DEF IInv, TypeOK, Describe, DescribeFails, Sleep, Tables
<1> QED
  BY <1>4, QuietPreserves DEF Describe, DescribeFails, Sleep

-----------------------------------------------------------------------------
(* The comparison.                                                         *)

Announces(c) ==
  /\ c \in Moved /\ (~first_poll \/ initial)
  /\ log'[c] = Append(log[c], Changed(c)) /\ states'[c] = current[c]

Baselines(c) ==
  /\ c \in Moved /\ first_poll /\ ~initial
  /\ log'[c] = log[c] /\ states'[c] = current[c]

Forgets(c) ==
  /\ c \in Gone
  /\ log'[c] = Append(log[c], Deleted(c)) /\ states'[c] = NoCluster

Passes(c) ==
  /\ c \notin Moved
  /\ log'[c] = log[c] /\ states'[c] = states[c]

\* What the comparison does to one cluster.
LEMMA CompareCases ==
  ASSUME Compare, NEW c \in Clusters
  PROVE  Announces(c) \/ Baselines(c) \/ Forgets(c) \/ Passes(c)
<1>1. CASE c \in Moved /\ (~first_poll \/ initial)
  BY <1>1 DEF Compare, Announces
<1>2. CASE c \in Moved /\ ~(~first_poll \/ initial)
  <2>1. c \notin Gone
    BY <1>2 DEF Moved, Gone
  <2> QED
    BY <1>2, <2>1 DEF Compare, Baselines
<1>3. CASE c \in Gone /\ c \notin Moved
  BY <1>3 DEF Compare, Forgets
<1>4. CASE c \notin Gone /\ c \notin Moved
  BY <1>4 DEF Compare, Passes
<1> QED
  BY <1>1, <1>2, <1>3, <1>4

\* The events the comparison queues.
LEMMA EventsTyped ==
  ASSUME TypeOK, NEW c \in Clusters
  PROVE  /\ c \in Moved =>
              /\ Changed(c) \in Event
              /\ Changed(c).signature = current[c].signature
              /\ Changed(c).previous = states[c].signature
              /\ current[c].signature # states[c].signature
         /\ c \in Gone =>
              /\ Deleted(c) \in Event /\ ~IsChange(Deleted(c))
              /\ Deleted(c).signature = None /\ states[c].signature # None
<1>1. current \in Tables /\ states \in Tables
  BY DEF TypeOK, Tables
<1>2. ASSUME c \in Moved
      PROVE  /\ Changed(c) \in Event
             /\ Changed(c).signature = current[c].signature
             /\ Changed(c).previous = states[c].signature
             /\ current[c].signature # states[c].signature
  <2>1. current[c] \in Cluster /\ states[c].signature \in Signatures \cup {None}
    BY <1>1, <1>2, Signed DEF Moved
  <2> QED
    BY <1>2, <2>1 DEF Changed, Event, Cluster, Moved
<1>3. ASSUME c \in Gone
      PROVE  /\ Deleted(c) \in Event /\ ~IsChange(Deleted(c))
             /\ Deleted(c).signature = None /\ states[c].signature # None
  BY <1>1, <1>3, Signed DEF Gone, Deleted, Event, IsChange
<1> QED
  BY <1>2, <1>3

LEMMA CompareTyped == ASSUME TypeOK, Compare PROVE TypeOK'
<1>1. current \in Tables /\ states \in Tables /\ baseline \in Tables /\ cloud \in Tables
  BY DEF TypeOK, Tables
<1>2. states' \in Tables
  BY <1>1 DEF Compare, Tables
<1>3. log' \in [Clusters -> Seq(Event)]
  <2>1. ASSUME NEW c \in Clusters PROVE log'[c] \in Seq(Event)
    <3>1. log[c] \in Seq(Event)
      BY DEF TypeOK
    <3>2. CASE Announces(c)
      <4>1. Changed(c) \in Event
        BY <3>2, EventsTyped DEF Announces
      <4> QED
        BY <3>1, <3>2, <4>1, AppendFacts DEF Announces
    <3>3. CASE Forgets(c)
      <4>1. Deleted(c) \in Event
        BY <3>3, EventsTyped DEF Forgets
      <4> QED
        BY <3>1, <3>3, <4>1, AppendFacts DEF Forgets
    <3>4. CASE Baselines(c) \/ Passes(c)
      BY <3>1, <3>4 DEF Baselines, Passes
    <3> QED
      BY <3>2, <3>3, <3>4, CompareCases
  <2>2. log' = [c \in Clusters |-> log'[c]]
    BY DEF Compare
  <2> QED
    BY <2>1, <2>2
<1>4. baseline' \in Tables
  BY <1>1, <1>2 DEF Compare
<1>5. relapsed' \in BOOLEAN /\ polls' \in BOOLEAN
  BY DEF Compare, TypeOK
<1>6. /\ cloud' \in Tables /\ changes' \in 0..MaxChanges /\ initial' \in Modes
      /\ current' \in Tables /\ faults' \in 0..MaxFaults
      /\ pc' \in {"poll", "compare", "sleep"}
  BY <1>1 DEF Compare, TypeOK
<1> QED
  BY <1>2, <1>3, <1>4, <1>5, <1>6 DEF TypeOK, Tables

\* An event that continues from what the reader knows, and tells what is
\* recorded now, keeps the reader up to date.
LEMMA EventContinues ==
  ASSUME TypeOK, NEW c \in Clusters, NEW e \in Event,
         log'[c] = Append(log[c], e), baseline' = baseline,
         Announced(c), Chained(c),
         IsChange(e) => e.previous = states[c].signature,
         e.signature # states[c].signature, states'[c].signature = e.signature
  PROVE  Announced(c)' /\ Chained(c)'
<1> DEFINE n == Len(log[c])
<1>1. /\ n \in Nat /\ DOMAIN log[c] = 1..n /\ DOMAIN log'[c] = 1..(n + 1)
      /\ Len(log'[c]) = n + 1 /\ log'[c][n + 1] = e
      /\ \A i \in 1..n : log'[c][i] = log[c][i]
  BY AppendFacts DEF TypeOK
<1>2. \A i \in 0..n : Told(c, i)' = Told(c, i)
  BY <1>1 DEF Told
<1>3. Told(c, n) = states[c].signature
  BY DEF Announced
<1>4. Announced(c)'
  BY <1>1 DEF Announced, Told
<1>5. ASSUME NEW i \in DOMAIN log'[c]
      PROVE  /\ IsChange(log'[c][i]) => log'[c][i].previous = Told(c, i - 1)'
             /\ log'[c][i].signature # Told(c, i - 1)'
  <2>1. CASE i = n + 1
    <3>1. Told(c, i - 1)' = states[c].signature
      BY <1>1, <1>2, <1>3, <2>1
    <3> QED
      BY <1>1, <2>1, <3>1
  <2>2. CASE i \in 1..n
    <3>1. Told(c, i - 1)' = Told(c, i - 1)
      BY <1>1, <1>2, <2>2
    <3>2. log'[c][i] = log[c][i] /\ i \in DOMAIN log[c]
      BY <1>1, <2>2
    <3> QED
      BY <3>1, <3>2 DEF Chained
  <2> QED
    BY <1>1, <2>1, <2>2
<1>6. Chained(c)'
  BY <1>5 DEF Chained
<1> QED
  BY <1>4, <1>6

\* Where nothing is recorded yet, the first comparison makes the baseline.
LEMMA CompareUpToDate == ASSUME IInv, Compare PROVE UpToDate'
<1> SUFFICES ASSUME initial \/ ~relapsed', NEW c \in Clusters
             PROVE  Announced(c)' /\ Chained(c)'
  BY DEF UpToDate, Compare
<1>1. TypeOK /\ Fresh /\ Announced(c) /\ Chained(c)
  BY DEF IInv, UpToDate, Compare
<1>2. ~first_poll => polls
  BY <1>1 DEF Fresh, first_poll, Known, Nothing
<1>3. CASE Announces(c)
  <2>1. baseline' = baseline
    BY <1>2, <1>3 DEF Announces, Compare
  <2>2. Changed(c) \in Event /\ IsChange(Changed(c)) => Changed(c).previous = states[c].signature
    BY <1>1, <1>3, EventsTyped DEF Announces
  <2> QED
    BY <1>1, <1>3, <2>1, <2>2, EventsTyped, EventContinues DEF Announces
<1>4. CASE Forgets(c)
  <2>1. ~first_poll
    BY <1>4 DEF Forgets, Gone, first_poll
  <2>2. baseline' = baseline
    BY <1>2, <2>1 DEF Compare
  <2>3. states'[c].signature = None
    BY <1>4 DEF Forgets, NoCluster
  <2> QED
    BY <1>1, <1>4, <2>2, <2>3, EventsTyped, EventContinues DEF Forgets
<1>5. CASE polls \/ initial
  <2>1. baseline' = baseline
    BY <1>5 DEF Compare
  <2>2. CASE Passes(c)
    BY <1>1, <2>1, <2>2 DEF Passes, Announced, Chained, Told
  <2>3. ~Baselines(c)
    <3> SUFFICES ASSUME Baselines(c) PROVE FALSE
      OBVIOUS
    <3>1. polls /\ first_poll /\ Moved # {} /\ ~initial
      BY <1>5 DEF Baselines
    <3> QED
      BY <3>1 DEF Compare
  <2> QED
    BY <1>3, <1>4, <2>2, <2>3, CompareCases
<1>6. CASE ~polls /\ ~initial /\ (Baselines(c) \/ Passes(c))
  <2>1. log'[c] = <<>>
    BY <1>1, <1>6 DEF Fresh, Baselines, Passes
  <2>2. baseline'[c] = states'[c]
    BY <1>6 DEF Compare
  <2> QED
    BY <2>1, <2>2 DEF Announced, Chained, Told
<1> QED
  BY <1>3, <1>4, <1>5, <1>6, CompareCases

LEMMA NextPreserves == IInv /\ [Next]_vars => IInv'
<1> SUFFICES ASSUME IInv, [Next]_vars PROVE IInv'
  OBVIOUS
<1>1. CASE Compare
  <2>1. Fresh'
    BY <1>1 DEF Compare, Fresh
  <2> QED
    BY <1>1, <2>1, CompareTyped, CompareUpToDate DEF IInv
<1>2. CASE Describe \/ DescribeFails \/ Sleep
  BY <1>2, CallPreserves
<1>3. CASE \E c \in Clusters : Change(c)
  BY <1>3, ChangePreserves
<1>4. CASE UNCHANGED vars
  <2>1. TypeOK'
    BY <1>4 DEF vars, IInv, TypeOK
  <2> QED
    BY <1>4, <2>1, QuietPreserves DEF vars
<1> QED
  BY <1>1, <1>2, <1>3, <1>4 DEF Next, Poll

LEMMA Invariance == Spec => []IInv
BY InitEstablishes, NextPreserves, PTL DEF Spec

-----------------------------------------------------------------------------
\* Each variable keeps its shape: the events that are queued are complete.
THEOREM TypeCorrect == Spec => []TypeOK
<1>1. IInv => TypeOK
  BY DEF IInv
<1> QED BY <1>1, Invariance, PTL

\* The latest event of a cluster tells what the source has recorded of it,
\* with initial or until the record is empty again.
THEOREM RecordsAreAnnouncedAlways == Spec => []RecordsAreAnnounced
<1>1. IInv => RecordsAreAnnounced
  BY DEF IInv, UpToDate, RecordsAreAnnounced
<1> QED BY <1>1, Invariance, PTL

\* Under the same condition each event continues from the one before it.
THEOREM EventsAreChainedAlways == Spec => []EventsAreChained
<1>1. IInv => EventsAreChained
  BY DEF IInv, UpToDate, EventsAreChained
<1> QED BY <1>1, Invariance, PTL
=============================================================================
