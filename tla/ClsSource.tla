------------------------------ MODULE ClsSource ------------------------------
(***************************************************************************)
(* The cls_topic event source: search the topic for the logs of a time     *)
(* window, queue an event for each, move the window on to now, pause, and  *)
(* start over.  CLS makes a log searchable some time after the moment it   *)
(* is stamped with, and answers with at most batch_size logs and a Context *)
(* to ask for the rest.  A window holds the stamps from window_from up to  *)
(* and without window_to.                                                  *)
(***************************************************************************)
EXTENDS Naturals, FiniteSets

CONSTANTS
  Logs,           \* the logs that match the query
  Batch,          \* batch_size
  Lookback,       \* lookback
  Interval,       \* interval, the pause after each search
  MaxLag,         \* how long CLS takes to make a log searchable
  Never,          \* the stamp of a log not yet written
  MaxClock,       \* bound: the time the model runs
  MaxFaults       \* bound: searches that fail

ASSUME ClsAssumption ==
  /\ IsFiniteSet(Logs) /\ Batch \in Nat \ {0} /\ Never \notin Nat
  /\ Lookback \in Nat /\ Interval \in Nat /\ MaxLag \in 0..Interval
  /\ MaxClock \in Nat /\ MaxFaults \in Nat

VARIABLES
  clock,
  stamp,          \* stamp[l]: when l was written
  searchable,     \* the logs CLS finds
  pc,             \* "start", "search", "shift" or "sleep"
  window_from, window_to,
  context,        \* the logs the last answer left out; {} stands for no Context
  wake,           \* when the pause ends
  yields,         \* yields[l]: how many events were queued for l
  began,          \* history: when the source was started
  excused,        \* history: the stamps of windows not answered in full
  faults

vars == <<clock, stamp, searchable, pc, window_from, window_to, context, wake, yields,
          began, excused, faults>>

Written == {l \in Logs : stamp[l] # Never}

Init ==
  /\ clock = 0 /\ stamp = [l \in Logs |-> Never] /\ searchable = {}
  /\ pc = "start" /\ window_from = 0 /\ window_to = 0 /\ context = {} /\ wake = 0
  /\ yields = [l \in Logs |-> 0] /\ began = 0 /\ excused = {} /\ faults = 0

\* Time passes, but no log stays unsearchable for longer than MaxLag.
Tick ==
  /\ clock < MaxClock
  /\ \A l \in Written \ searchable : clock < stamp[l] + MaxLag
  /\ clock' = clock + 1
  /\ UNCHANGED <<stamp, searchable, pc, window_from, window_to, context, wake, yields,
                 began, excused, faults>>

Write(l) ==
  /\ stamp[l] = Never /\ stamp' = [stamp EXCEPT ![l] = clock]
  /\ UNCHANGED <<clock, searchable, pc, window_from, window_to, context, wake, yields,
                 began, excused, faults>>

Index(l) ==
  /\ l \in Written \ searchable /\ searchable' = searchable \cup {l}
  /\ UNCHANGED <<clock, stamp, pc, window_from, window_to, context, wake, yields,
                 began, excused, faults>>

\* The first window ends now and begins lookback ago.
Start ==
  /\ pc = "start" /\ pc' = "search"
  /\ window_from' = IF Lookback <= clock THEN clock - Lookback ELSE 0
  /\ window_to' = clock /\ began' = clock
  /\ UNCHANGED <<clock, stamp, searchable, context, wake, yields, excused, faults>>

Matching == {l \in searchable : window_from <= stamp[l] /\ stamp[l] < window_to}

\* SearchLog answers with a page, of the window asked for or, when a Context is
\* passed along, of the search it came from (CLS does not say which wins).  An
\* event is queued for each log of the page; the Context is kept for the rest.
Search ==
  /\ pc = "search" /\ pc' = "shift"
  /\ \E found \in {Matching} \cup (IF context # {} THEN {context} ELSE {}) :
       \E page \in SUBSET found :
         /\ page = found \/ Cardinality(page) = Batch
         /\ Cardinality(page) <= Batch
         /\ yields' = [l \in Logs |-> yields[l] + (IF l \in page THEN 1 ELSE 0)]
         /\ context' = found \ page
  /\ excused' = IF context = {} /\ context' = {} THEN excused
                ELSE excused \cup (window_from..(window_to - 1))
  /\ UNCHANGED <<clock, stamp, searchable, window_from, window_to, wake, began, faults>>

\* The search fails: the error is queued and the loop goes on.
SearchFails ==
  /\ pc = "search" /\ pc' = "shift"
  /\ faults < MaxFaults /\ faults' = faults + 1
  /\ excused' = excused \cup (window_from..(window_to - 1))
  /\ UNCHANGED <<clock, stamp, searchable, window_from, window_to, context, wake, yields,
                 began>>

\* Mutant: the next window begins where this one began.
ShiftEnd ==
  /\ pc = "shift" /\ pc' = "sleep"
  /\ window_from' = window_from /\ window_to' = clock /\ wake' = clock + Interval
  /\ UNCHANGED <<clock, stamp, searchable, context, yields, began, excused, faults>>

\* Answered or not, the next window begins where this one ended and ends now.
Shift ==
  /\ pc = "shift" /\ pc' = "sleep"
  /\ window_from' = window_to /\ window_to' = clock /\ wake' = clock + Interval
  /\ UNCHANGED <<clock, stamp, searchable, context, yields, began, excused, faults>>

\* Mutant: the window is extended to the end of the pause.
SleepThenExtend ==
  /\ pc = "sleep" /\ clock >= wake /\ pc' = "search"
  /\ window_to' = clock
  /\ UNCHANGED <<clock, stamp, searchable, window_from, context, wake, yields,
                 began, excused, faults>>

Sleep ==
  /\ pc = "sleep" /\ clock >= wake /\ pc' = "search"
  /\ UNCHANGED <<clock, stamp, searchable, window_from, window_to, context, wake, yields,
                 began, excused, faults>>

Next ==
  \/ Tick \/ Start \/ Search \/ SearchFails \/ Shift \/ Sleep
  \/ \E l \in Logs : Write(l) \/ Index(l)

Spec == Init /\ [][Next]_vars

-----------------------------------------------------------------------------
\* The shapes of the variables; a window does not end before it begins, nor in
\* the future.
TypeOK ==
  /\ clock \in 0..MaxClock /\ stamp \in [Logs -> 0..MaxClock \cup {Never}]
  /\ searchable \subseteq Written /\ pc \in {"start", "search", "shift", "sleep"}
  /\ window_from \in 0..window_to /\ window_to \in 0..clock
  /\ context \subseteq Logs /\ wake \in Nat /\ yields \in [Logs -> Nat]
  /\ began \in 0..clock /\ excused \subseteq 0..MaxClock /\ faults \in 0..MaxFaults

\* "Each log is yielded exactly once": never twice, whatever fails, however
\* late a log becomes searchable and whichever search a Context continues.
NeverTwice == \A l \in Logs : yields[l] <= 1

\* The stamps of the windows searched so far since the source was started.
Passed(t) == began <= t /\ t < (IF pc = "shift" THEN window_to ELSE window_from)

Skipped(l) == Passed(stamp[l]) /\ yields[l] = 0

\* "Logs between polls are not skipped": a log written after the start, and
\* searchable within the pause, is yielded by the time its window has passed,
\* if that window was answered in full.
NoneSkipped == \A l \in Written : Skipped(l) => stamp[l] \in excused
=============================================================================
