--------------------------- MODULE ClsSource_proofs ---------------------------
(***************************************************************************)
(* What the cls_topic event source guarantees for every set of logs, batch *)
(* size, lookback, interval and time CLS takes to index, as long as that   *)
(* time does not exceed the interval.                                      *)
(***************************************************************************)
EXTENDS ClsSource, TLAPS

USE DEF Written

\* Up to which stamp windows have been searched.
Done == IF pc = "shift" THEN window_to ELSE window_from

\* A log that was yielded, or is left for a Context to fetch, lies in a window
\* that was searched; what is left was not yielded.
Once ==
  /\ \A l \in Logs : yields[l] <= 1
  /\ \A l \in Logs : yields[l] > 0 => l \in Written /\ stamp[l] < Done
  /\ \A l \in context : l \in Written /\ stamp[l] < Done /\ yields[l] = 0

\* A log that is not searchable was written within the last MaxLag.
Fresh == \A l \in Written \ searchable : clock <= stamp[l] + MaxLag

\* A window that is searched ended at the start, or a pause ago.
Paused ==
  /\ pc = "start" => window_from = 0 /\ window_to = 0
  /\ pc # "start" => began <= window_to
  /\ pc \in {"sleep", "search"} => window_to = began \/ wake = window_to + Interval
  /\ pc = "search" => clock >= wake \/ window_to = began
  /\ pc # "start" /\ window_to # began => window_from >= began

IInv == TypeOK /\ Once /\ Fresh /\ Paused /\ NoneSkipped

LEMMA InitEstablishes == Init => IInv
BY ClsAssumption
   DEF Init, IInv, TypeOK, Once, Done, Fresh, Paused, NoneSkipped, Skipped, Passed

LEMMA TickPreserves == ASSUME IInv, Tick PROVE IInv'
<1> USE DEF IInv, Tick
<1>1. TypeOK'
  BY ClsAssumption DEF TypeOK
<1>2. Once' /\ Paused' /\ NoneSkipped'
  BY ClsAssumption DEF Once, Done, Paused, NoneSkipped, Skipped, Passed, TypeOK
<1>3. Fresh'
  BY ClsAssumption DEF Fresh, TypeOK
<1> QED BY <1>1, <1>2, <1>3

LEMMA WritePreserves == ASSUME IInv, NEW l \in Logs, Write(l) PROVE IInv'
<1> USE DEF IInv, Write
<1>1. /\ stamp' \in [Logs -> 0..MaxClock \cup {Never}] /\ stamp'[l] = clock
      /\ \A k \in Logs \ {l} : stamp'[k] = stamp[k]
      /\ l \notin Written /\ clock \in Nat
  BY ClsAssumption DEF TypeOK
<1>2. TypeOK'
  BY <1>1 DEF TypeOK
<1>3. Once'
  BY <1>1, ClsAssumption DEF Once, Done, TypeOK
<1>4. Fresh' /\ Paused'
  BY <1>1, ClsAssumption DEF Fresh, Paused, TypeOK
<1>5. NoneSkipped'
  <2> SUFFICES ASSUME NEW k \in Logs, k \in Written', Skipped(k)'
               PROVE  stamp'[k] \in excused
    BY DEF NoneSkipped
  <2>1. CASE k = l
    BY <2>1, <1>1, ClsAssumption DEF Skipped, Passed, TypeOK
  <2>2. CASE k # l
    BY <2>2, <1>1 DEF NoneSkipped, Skipped, Passed
  <2> QED BY <2>1, <2>2
<1> QED BY <1>2, <1>3, <1>4, <1>5

LEMMA IndexPreserves == ASSUME IInv, NEW l \in Logs, Index(l) PROVE IInv'
BY DEF IInv, Index, TypeOK, Once, Done, Fresh, Paused, NoneSkipped, Skipped, Passed

LEMMA StartPreserves == ASSUME IInv, Start PROVE IInv'
<1> USE DEF IInv, Start
<1>1. TypeOK'
  BY ClsAssumption DEF TypeOK
<1>2. Once'
  BY <1>1, ClsAssumption DEF Once, Done, Paused, TypeOK
<1>3. Fresh' /\ Paused'
  BY ClsAssumption DEF Fresh, Paused, TypeOK
<1>4. NoneSkipped'
  BY ClsAssumption DEF NoneSkipped, Skipped, Passed, TypeOK
<1> QED BY <1>1, <1>2, <1>3, <1>4

\* Whatever a window holds that began after the start is searchable when the
\* window is searched: the pause is at least as long as the lag.
LEMMA LagWithinPause ==
  ASSUME IInv, pc = "search", NEW l \in Written, began <= stamp[l], stamp[l] < window_to
  PROVE  l \in searchable
<1>1. window_to # began
  BY ClsAssumption DEF IInv, TypeOK
<1>2. clock >= window_to + Interval
  BY <1>1 DEF IInv, Paused
<1>3. stamp[l] \in Nat /\ stamp[l] + MaxLag < clock
  BY <1>2, ClsAssumption DEF IInv, TypeOK
<1> QED BY <1>3, ClsAssumption DEF IInv, Fresh, TypeOK

LEMMA SearchPreserves == ASSUME IInv, Search PROVE IInv'
<1> USE DEF IInv, Search
<1>1. PICK found, page :
        /\ found = Matching \/ found = context
        /\ page \subseteq found
        /\ yields' = [l \in Logs |-> yields[l] + (IF l \in page THEN 1 ELSE 0)]
        /\ context' = found \ page
        /\ context = {} => found = Matching
  <2> PICK found \in {Matching} \cup (IF context # {} THEN {context} ELSE {}) :
        \E page \in SUBSET found :
          /\ yields' = [l \in Logs |-> yields[l] + (IF l \in page THEN 1 ELSE 0)]
          /\ context' = found \ page
    OBVIOUS
  <2> QED OBVIOUS
<1>2. \A l \in found : /\ l \in Written /\ stamp[l] < window_to /\ yields[l] = 0
                       /\ l \in Logs
  BY <1>1, ClsAssumption DEF Matching, Once, Done, TypeOK
<1>3. /\ UNCHANGED <<clock, stamp, searchable, window_from, window_to, wake, began, faults>>
      /\ pc = "search" /\ pc' = "shift"
  OBVIOUS
<1>4. yields' \in [Logs -> Nat] /\ \A l \in Logs \ page : yields'[l] = yields[l]
  BY <1>1, <1>2 DEF TypeOK
<1>5. TypeOK'
  <2>1. excused' \subseteq 0..MaxClock
    BY ClsAssumption DEF TypeOK
  <2>2. context' \subseteq Logs
    BY <1>1, <1>2
  <2> QED BY <1>3, <1>4, <2>1, <2>2 DEF TypeOK
<1>6. Once'
  <2>1. \A l \in page : yields'[l] = 1
    BY <1>1, <1>2 DEF TypeOK
  <2>2. \A l \in Logs : yields[l] <= 1 /\ (yields[l] > 0 => l \in Written /\ stamp[l] < window_to)
    BY <1>3, ClsAssumption DEF Once, Done, TypeOK
  <2>3. \A l \in Logs : yields'[l] <= 1 /\ (yields'[l] > 0 => l \in Written /\ stamp[l] < window_to)
    BY <2>1, <2>2, <1>2, <1>4, <1>1
  <2>4. \A l \in context' : l \in Written /\ stamp[l] < window_to /\ yields'[l] = 0
    BY <1>1, <1>2, <1>4
  <2> QED BY <1>3, <2>3, <2>4 DEF Once, Done
<1>7. Fresh' /\ Paused'
  BY <1>3 DEF Fresh, Paused
<1>8. NoneSkipped'
  <2> SUFFICES ASSUME NEW l \in Written, Skipped(l)'
               PROVE  stamp[l] \in excused'
    BY <1>3 DEF NoneSkipped
  <2>1. began <= stamp[l] /\ stamp[l] < window_to /\ yields'[l] = 0 /\ l \in searchable
    BY <1>3, LagWithinPause DEF Skipped, Passed
  <2>2. yields[l] = 0
    BY <2>1, <1>1 DEF TypeOK
  <2>3. CASE stamp[l] < window_from
    BY <2>1, <2>2, <2>3, <1>3 DEF NoneSkipped, Skipped, Passed
  <2>4. CASE ~(stamp[l] < window_from)
    <3>1. l \in Matching /\ stamp[l] \in window_from..(window_to - 1)
      BY <2>1, <2>4, ClsAssumption DEF Matching, TypeOK
    <3>2. context # {} \/ context' # {}
      BY <3>1, <2>1, <2>2, <1>1 DEF TypeOK
    <3> QED BY <3>1, <3>2
  <2> QED BY <2>3, <2>4
<1> QED BY <1>5, <1>6, <1>7, <1>8

LEMMA SearchFailsPreserves == ASSUME IInv, SearchFails PROVE IInv'
<1> USE DEF IInv, SearchFails
<1>1. TypeOK'
  BY ClsAssumption DEF TypeOK
<1>2. Once'
  BY ClsAssumption DEF Once, Done, TypeOK
<1>3. Fresh' /\ Paused'
  BY DEF Fresh, Paused
<1>4. NoneSkipped'
  <2> SUFFICES ASSUME NEW l \in Written, Skipped(l)'
               PROVE  stamp[l] \in excused'
    BY DEF NoneSkipped
  <2>1. /\ began <= stamp[l] /\ stamp[l] < window_to /\ yields[l] = 0
        /\ stamp[l] \in Nat /\ window_from \in Nat /\ window_to \in Nat
    BY ClsAssumption DEF Skipped, Passed, TypeOK
  <2>2. CASE stamp[l] < window_from
    BY <2>1, <2>2 DEF NoneSkipped, Skipped, Passed
  <2>3. CASE window_from <= stamp[l]
    BY <2>1, <2>3
  <2> QED BY <2>1, <2>2, <2>3
<1> QED BY <1>1, <1>2, <1>3, <1>4

LEMMA PausePreserves == ASSUME IInv, Shift \/ Sleep PROVE IInv'
<1> USE DEF IInv, Shift, Sleep
<1>1. TypeOK'
  <2>1. CASE Shift
    <3>1. window_to \in 0..clock /\ clock \in 0..MaxClock /\ clock + Interval \in Nat
      BY ClsAssumption DEF TypeOK
    <3> QED BY <2>1, <3>1 DEF TypeOK
  <2>2. CASE Sleep
    BY <2>2 DEF TypeOK
  <2> QED BY <2>1, <2>2
<1>2. Once'
  <2>1. CASE Shift
    BY <2>1 DEF Once, Done
  <2>2. CASE Sleep
    BY <2>2 DEF Once, Done
  <2> QED BY <2>1, <2>2
<1>3. Fresh' /\ Paused'
  BY ClsAssumption DEF Fresh, Paused, TypeOK
<1>4. NoneSkipped'
  BY DEF NoneSkipped, Skipped, Passed
<1> QED BY <1>1, <1>2, <1>3, <1>4

LEMMA NextPreserves == IInv /\ [Next]_vars => IInv'
<1> SUFFICES ASSUME IInv, [Next]_vars PROVE IInv'
  OBVIOUS
<1>1. CASE Next
  BY <1>1, TickPreserves, WritePreserves, IndexPreserves, StartPreserves, SearchPreserves,
     SearchFailsPreserves, PausePreserves DEF Next
<1>2. CASE UNCHANGED vars
  BY <1>2 DEF vars, IInv, TypeOK, Once, Done, Fresh, Paused, NoneSkipped, Skipped, Passed
<1> QED BY <1>1, <1>2

LEMMA Invariance == Spec => []IInv
BY InitEstablishes, NextPreserves, PTL DEF Spec

-----------------------------------------------------------------------------
\* The variables keep their shapes.
THEOREM TypeCorrect == Spec => []TypeOK
<1>1. IInv => TypeOK
  BY DEF IInv
<1> QED BY <1>1, Invariance, PTL

\* No log is yielded twice, whichever searches fail and whatever CLS makes of
\* the Context of an earlier window.
THEOREM NeverTwiceAlways == Spec => []NeverTwice
<1>1. IInv => NeverTwice
  BY DEF IInv, Once, NeverTwice
<1> QED BY <1>1, Invariance, PTL

\* A log is skipped only with a window that failed or did not fit in a batch.
THEOREM NoneSkippedAlways == Spec => []NoneSkipped
<1>1. IInv => NoneSkipped
  BY DEF IInv
<1> QED BY <1>1, Invariance, PTL
=============================================================================
