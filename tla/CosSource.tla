------------------------------ MODULE CosSource ------------------------------
(***************************************************************************)
(* The cos_bucket event source: walk the bucket's listing page by page,    *)
(* compare what was listed with what earlier polls saw, queue an event for *)
(* each new or changed object, pause, and start over.  The bucket changes  *)
(* under the walk.  A key is a number, in the order COS lists keys; a      *)
(* stamp is the last-modified time, 0 where there is no object (or where   *)
(* the source has no entry).                                               *)
(***************************************************************************)
EXTENDS Naturals, Sequences, FiniteSets

CONSTANTS
  Keys,           \* the object keys, in listing order
  PageSize,       \* objects per ListObjects call (MaxKeys)
  Caps,           \* the values of max_objects to try
  Modes,          \* the values of initial to try: a subset of BOOLEAN
  MaxStamp,       \* bound: uploads
  MaxFaults       \* bound: listing calls that fail

ASSUME CosAssumption ==
  /\ Keys \subseteq Nat \ {0} /\ IsFiniteSet(Keys)
  /\ PageSize \in Nat \ {0} /\ Caps \subseteq Nat \ {0} /\ Modes \subseteq BOOLEAN
  /\ MaxStamp \in Nat /\ MaxFaults \in Nat

VARIABLES
  bucket,         \* bucket[k]: the stamp of the object at k
  clock,          \* the latest stamp
  initial, cap,   \* the source's parameters initial and max_objects
  pc,             \* "poll", "walk", "compare" or "sleep"
  marker,         \* the key after which the walk goes on
  objects,        \* objects[k]: the stamp listed by this walk
  present,        \* history: the keys that held an object throughout this walk
  seen,           \* seen[k]: the stamp an earlier poll recorded
  baseline,       \* history: what the first complete poll listed
  log,            \* log[k]: the stamps of the events queued for k
  polls, faults   \* whether a poll has completed; the calls that failed

params == <<initial, cap>>
vars == <<bucket, clock, params, pc, marker, objects, present, seen, baseline, log,
          polls, faults>>

Stamps == 0..MaxStamp
Nothing == [k \in Keys |-> 0]
Held(b) == {k \in Keys : b[k] # 0}

Init ==
  /\ bucket \in [Keys -> {0, 1}] /\ clock = 1
  /\ initial \in Modes /\ cap \in Caps
  /\ pc = "poll" /\ marker = 0 /\ objects = Nothing /\ present = {}
  /\ seen = Nothing /\ baseline = Nothing /\ log = [k \in Keys |-> <<>>]
  /\ polls = FALSE /\ faults = 0

\* Somebody writes an object, at a new last-modified time, or removes one.
Upload(k) ==
  /\ clock < MaxStamp /\ clock' = clock + 1
  /\ bucket' = [bucket EXCEPT ![k] = clock']
  /\ UNCHANGED <<params, pc, marker, objects, present, seen, baseline, log, polls, faults>>

Remove(k) ==
  /\ bucket[k] # 0
  /\ bucket' = [bucket EXCEPT ![k] = 0]
  /\ present' = present \ {k}
  /\ UNCHANGED <<clock, params, pc, marker, objects, seen, baseline, log, polls, faults>>

\* A new walk starts at the first key.
Begin ==
  /\ pc = "poll"
  /\ pc' = "walk" /\ marker' = 0 /\ objects' = Nothing /\ present' = Held(bucket)
  /\ UNCHANGED <<bucket, clock, params, seen, baseline, log, polls, faults>>

\* Mutant: the walk goes on after as many keys as it listed, not after the last.
PageByOffset(left) ==
  LET rest == {k \in Held(bucket) : Cardinality({j \in Held(bucket) : j < k})
                                      >= Cardinality(Held(objects))}
  IN  {k \in rest : Cardinality({j \in rest : j <= k}) <= PageSize}

\* The keys ListObjects returns: the first PageSize ones after the marker.
Left == {k \in Held(bucket) : k > marker}
PageOf(left) == {k \in left : Cardinality({j \in left : j <= k}) <= PageSize}

Page == PageOf(Left)

\* Mutant: max_objects is exceeded by one.
OneTooMany == cap + 1 - Cardinality(Held(objects))

\* How many more objects the walk may list.
Room == cap - Cardinality(Held(objects))

\* One call: its objects are added until max_objects are listed; the walk goes
\* on while the listing is truncated.
Walk ==
  LET taken == {k \in Page : Cardinality({j \in Page : j <= k}) <= Room}
  IN  /\ pc = "walk"
      /\ objects' = [k \in Keys |-> IF k \in taken THEN bucket[k] ELSE objects[k]]
      /\ IF Left \ Page = {} \/ Cardinality(taken) = Room
           THEN pc' = "compare" /\ UNCHANGED marker
           ELSE pc' = "walk" /\ marker' \in {k \in Page : \A j \in Page : j <= k}
      /\ UNCHANGED <<bucket, clock, params, present, seen, baseline, log, polls, faults>>

\* A call fails: the partial listing is dropped, the error queued, the poll over.
WalkFails ==
  /\ pc = "walk" /\ faults < MaxFaults
  /\ faults' = faults + 1 /\ pc' = "sleep"
  /\ UNCHANGED <<bucket, clock, params, marker, objects, present, seen, baseline, log, polls>>

\* Mutant: every listed object.
Everything == Held(objects)

\* Mutant: the objects at keys not recorded yet.
NewKeys == {k \in Held(objects) : seen[k] = 0}

\* The objects whose stamp is not the one recorded.
Changed == {k \in Held(objects) : seen[k] # objects[k]}

first_poll == Held(seen) = {}

\* The loop over the listing: an event for each changed object, none while the
\* record is empty unless initial is set.
Compare ==
  /\ pc = "compare"
  /\ log' = [k \in Keys |-> IF k \in Changed /\ (~first_poll \/ initial)
                              THEN Append(log[k], objects[k]) ELSE log[k]]
  /\ seen' = [k \in Keys |-> IF k \in Changed THEN objects[k] ELSE seen[k]]
  /\ baseline' = IF polls THEN baseline ELSE objects
  /\ polls' = TRUE /\ pc' = "sleep"
  /\ UNCHANGED <<bucket, clock, params, marker, objects, present, faults>>

Sleep ==
  /\ pc = "sleep" /\ pc' = "poll"
  /\ UNCHANGED <<bucket, clock, params, marker, objects, present, seen, baseline, log,
                 polls, faults>>

Poll == Begin \/ Walk \/ WalkFails \/ Compare \/ Sleep

Next == Poll \/ \E k \in Keys : Upload(k) \/ Remove(k)

Spec == Init /\ [][Next]_vars
FairSpec == Spec /\ WF_vars(Poll)

-----------------------------------------------------------------------------
\* "The listing is walked in full", or returns "the first max_objects entries in
\* lexicographic key order": an object that was there from the first page to the
\* last is listed, whatever was uploaded or removed in between, unless max_objects
\* others that come before it are; and never more than max_objects are listed.
WalksInFull ==
  pc = "compare" =>
    /\ Cardinality(Held(objects)) <= cap
    /\ \A k \in present \ Held(objects) :
         Cardinality(Held(objects)) = cap /\ \A j \in Held(objects) : j < k

\* Each version of an object is announced at most once, and later versions later.
OnceEach == \A k \in Keys : \A i, j \in DOMAIN log[k] : i < j => log[k][i] < log[k][j]

\* Objects of the first poll are never announced, unless initial is set.
BaselineIsSilent ==
  ~initial => \A k \in Keys : \A i \in DOMAIN log[k] : log[k][i] > baseline[k]

\* What the source has recorded at k is what it last announced or the baseline.
Announced(k) ==
  seen[k] # 0 =>
    \/ seen[k] = baseline[k]
    \/ log[k] # <<>> /\ log[k][Len(log[k])] = seen[k]

\* No change is recorded and yet not announced: with initial, or once the first
\* poll found an object.
RecordsAreAnnounced == initial \/ Held(baseline) # {} => \A k \in Keys : Announced(k)

Uncapped == cap > Cardinality(Keys)

\* An object that stays is recorded in the end, over failed calls.
EveryObjectSeen ==
  \A k \in Keys, s \in Stamps \ {0} :
    Uncapped /\ bucket[k] = s ~> seen[k] = s \/ bucket[k] # s
=============================================================================
