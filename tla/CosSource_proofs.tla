--------------------------- MODULE CosSource_proofs ---------------------------
(***************************************************************************)
(* What the cos_bucket event source guarantees for every finite set of     *)
(* keys, page size, cap, and number of uploads and failures.               *)
(***************************************************************************)
EXTENDS CosSource, FiniteSetTheorems, TLAPS

USE DEF Held, params

Walking == pc \in {"walk", "compare"}

\* The shapes the proofs need.
Shapes ==
  /\ bucket \in [Keys -> Nat] /\ clock \in Nat \ {0}
  /\ initial \in BOOLEAN /\ cap \in Nat \ {0}
  /\ pc \in {"poll", "walk", "compare", "sleep"} /\ marker \in Nat
  /\ objects \in [Keys -> Nat] /\ present \subseteq Keys
  /\ seen \in [Keys -> Nat] /\ baseline \in [Keys -> Nat]
  /\ log \in [Keys -> Seq(Nat)] /\ polls \in BOOLEAN

\* The bucket is never older than a listing of it, nor a listing than the record.
Aged ==
  /\ \A k \in Keys : bucket[k] <= clock /\ seen[k] <= clock /\ objects[k] <= clock
  /\ \A k \in Keys : bucket[k] # 0 => seen[k] <= bucket[k]
  /\ Walking => \A k \in Keys :
       /\ objects[k] # 0 => seen[k] <= objects[k]
       /\ objects[k] # 0 /\ bucket[k] # 0 => objects[k] <= bucket[k]

\* Announced versions and the baseline were recorded; before the first
\* comparison there is neither.
Recorded ==
  /\ \A k \in Keys : \A i \in DOMAIN log[k] : 0 < log[k][i] /\ log[k][i] <= seen[k]
  /\ \A k \in Keys : baseline[k] <= seen[k]
  /\ ~polls => seen = Nothing /\ baseline = Nothing /\ log = [k \in Keys |-> <<>>]

\* While the walk goes on it has room left, and has listed what was there all along
\* up to its marker, and nothing beyond.
InFull ==
  /\ pc = "walk" => /\ present \subseteq Held(bucket)
                    /\ \A k \in Held(objects) : k <= marker
                    /\ \A k \in present : k <= marker => objects[k] # 0
                    /\ Cardinality(Held(objects)) < cap
  /\ WalksInFull

IInv ==
  /\ Shapes /\ Aged /\ Recorded /\ InFull
  /\ OnceEach /\ BaselineIsSilent /\ RecordsAreAnnounced

LEMMA InitEstablishes == Init => IInv
<1> SUFFICES ASSUME Init PROVE IInv
  OBVIOUS
<1> USE CosAssumption DEF Init, Nothing
<1>1. Shapes
  <2>1. bucket \in [Keys -> Nat] /\ log \in [Keys -> Seq(Nat)]
    OBVIOUS
  <2>2. initial \in BOOLEAN /\ polls \in BOOLEAN
    BY Zenon
  <2>3. /\ cap \in Nat \ {0} /\ clock \in Nat \ {0} /\ marker \in Nat
        /\ objects \in [Keys -> Nat] /\ seen \in [Keys -> Nat] /\ baseline \in [Keys -> Nat]
    OBVIOUS
  <2>4. pc \in {"poll", "walk", "compare", "sleep"} /\ present \subseteq Keys
    BY Zenon
  <2> QED BY <2>1, <2>2, <2>3, <2>4, Zenon DEF Shapes
<1>2. Aged /\ Recorded
  BY DEF Aged, Recorded, Walking
<1>3. InFull
  BY DEF InFull, WalksInFull
<1>4. OnceEach /\ BaselineIsSilent /\ RecordsAreAnnounced
  BY DEF OnceEach, BaselineIsSilent, RecordsAreAnnounced, Announced
<1> QED BY <1>1, <1>2, <1>3, <1>4 DEF IInv

LEMMA BucketPreserves ==
  ASSUME IInv, NEW k \in Keys, Upload(k) \/ Remove(k) PROVE IInv'
<1> USE DEF IInv
<1>1. /\ UNCHANGED <<params, pc, marker, objects, seen, baseline, log, polls>>
      /\ clock' \in Nat /\ clock' >= clock /\ bucket' \in [Keys -> Nat]
      /\ bucket'[k] = 0 \/ (bucket'[k] = clock' /\ clock' > clock)
      /\ \A j \in Keys \ {k} : bucket'[j] = bucket[j]
      /\ present' \subseteq present /\ (bucket'[k] = 0 => k \notin present')
  <2>1. CASE Upload(k)
    BY <2>1 DEF Upload, Shapes
  <2>2. CASE Remove(k)
    BY <2>2 DEF Remove, Shapes
  <2> QED BY <2>1, <2>2
<1>2. Shapes'
  BY <1>1 DEF Shapes
<1>3. Aged'
  <2> SUFFICES ASSUME NEW j \in Keys
               PROVE  /\ bucket'[j] <= clock' /\ seen[j] <= clock' /\ objects[j] <= clock'
                      /\ bucket'[j] # 0 => seen[j] <= bucket'[j]
                      /\ Walking /\ objects[j] # 0 /\ bucket'[j] # 0
                           => objects[j] <= bucket'[j]
    BY <1>1 DEF Aged, Walking
  <2>1. /\ bucket[j] \in Nat /\ seen[j] \in Nat /\ objects[j] \in Nat /\ clock \in Nat
        /\ bucket[j] <= clock /\ seen[j] <= clock /\ objects[j] <= clock
    BY DEF Aged, Shapes
  <2>2. CASE j = k
    BY <2>1, <2>2, <1>1
  <2>3. CASE j # k
    BY <2>1, <2>3, <1>1 DEF Aged
  <2> QED BY <2>2, <2>3
<1>4. Recorded'
  BY <1>1 DEF Recorded
<1>5. InFull'
  <2>1. pc' = "walk" => present' \subseteq Held(bucket')
    BY <1>1 DEF InFull, Shapes
  <2> QED BY <1>1, <2>1 DEF InFull, WalksInFull
<1>6. OnceEach' /\ BaselineIsSilent' /\ RecordsAreAnnounced'
  BY <1>1 DEF OnceEach, BaselineIsSilent, RecordsAreAnnounced, Announced
<1> QED BY <1>2, <1>3, <1>4, <1>5, <1>6

LEMMA BeginPreserves == ASSUME IInv, Begin PROVE IInv'
<1> USE DEF IInv, Begin
<1>1. Shapes'
  BY DEF Shapes, Nothing
<1>2. Aged'
  BY DEF Aged, Walking, Nothing, Shapes
<1>3. Recorded' /\ OnceEach' /\ BaselineIsSilent' /\ RecordsAreAnnounced'
  BY DEF Recorded, OnceEach, BaselineIsSilent, RecordsAreAnnounced, Announced
<1>4. InFull'
  <2>1. Held(objects') = {}
    BY DEF Nothing
  <2>2. Cardinality(Held(objects')) = 0
    BY <2>1, FS_EmptySet
  <2>3. \A k \in present' : ~(k <= marker')
    BY CosAssumption DEF Shapes
  <2> HIDE DEF Held
  <2>4. present' = Held(bucket) /\ UNCHANGED <<bucket, cap>> /\ pc' = "walk" /\ cap \in Nat \ {0}
    BY DEF Shapes
  <2> QED BY <2>1, <2>2, <2>3, <2>4 DEF InFull, WalksInFull
<1> QED BY <1>1, <1>2, <1>3, <1>4

LEMMA PausePreserves == ASSUME IInv, WalkFails \/ Sleep PROVE IInv'
<1> USE DEF IInv
<1>1. /\ UNCHANGED <<bucket, clock, params, marker, objects, present, seen, baseline, log,
                     polls>>
      /\ pc' \in {"poll", "sleep"}
  BY DEF WalkFails, Sleep
<1>2. Shapes' /\ Aged' /\ Recorded' /\ InFull'
  BY <1>1 DEF Shapes, Aged, Walking, Recorded, InFull, WalksInFull
<1>3. OnceEach' /\ BaselineIsSilent' /\ RecordsAreAnnounced'
  BY <1>1 DEF OnceEach, BaselineIsSilent, RecordsAreAnnounced, Announced
<1> QED BY <1>2, <1>3

\* A page starts after the marker and leaves no key out before its end.
LEMMA PageIsPrefix ==
  /\ Page \subseteq Left
  /\ \A j \in Page : \A k \in Left : k <= j => k \in Page
<1>1. ASSUME NEW j \in Page, NEW k \in Left, k <= j PROVE k \in Page
  <2>1. IsFiniteSet(Left)
    BY CosAssumption, FS_Subset DEF Left
  <2>0. Left \subseteq Nat /\ j \in Nat /\ k \in Nat
    BY <1>1, CosAssumption DEF Left, Page, PageOf
  <2>2. {i \in Left : i <= k} \subseteq {i \in Left : i <= j}
    <3> SUFFICES ASSUME NEW i \in Left, i <= k PROVE i <= j
      OBVIOUS
    <3>1. i \in Nat
      BY <2>0
    <3> QED BY <3>1, <2>0, <1>1
  <2>3. /\ IsFiniteSet({i \in Left : i <= j}) /\ IsFiniteSet({i \in Left : i <= k})
        /\ Cardinality({i \in Left : i <= k}) <= Cardinality({i \in Left : i <= j})
    BY <2>1, <2>2, FS_Subset
  <2>4. /\ Cardinality({i \in Left : i <= j}) \in Nat /\ Cardinality({i \in Left : i <= k}) \in Nat
    BY <2>3, FS_CardinalityType
  <2> QED BY <1>1, <2>3, <2>4, CosAssumption DEF Page, PageOf
<1> QED BY <1>1 DEF Page, PageOf

\* The first r of a finite set of numbers are all of them, or r.
Below(S, k) == {j \in S : j <= k}

LEMMA BelowCounts ==
  ASSUME NEW S \in SUBSET Nat, IsFiniteSet(S)
  PROVE  /\ Cardinality(S) \in Nat
         /\ \A k \in S : Cardinality(Below(S, k)) \in 1 .. Cardinality(S)
         /\ \A j, k \in S : j < k => Cardinality(Below(S, j)) < Cardinality(Below(S, k))
<1>1. \A k \in S : /\ IsFiniteSet(Below(S, k)) /\ Cardinality(Below(S, k)) \in Nat
                   /\ Cardinality(Below(S, k)) <= Cardinality(S)
  <2>1. \A k \in S : Below(S, k) \in SUBSET S
    BY DEF Below
  <2> QED BY <2>1, FS_Subset, FS_CardinalityType
<1>2. ASSUME NEW k \in S PROVE Cardinality(Below(S, k)) # 0
  <2>1. k \in Below(S, k)
    BY DEF Below
  <2> QED BY <2>1, <1>1, FS_EmptySet
<1>3. ASSUME NEW j \in S, NEW k \in S, j < k
      PROVE  Cardinality(Below(S, j)) < Cardinality(Below(S, k))
  <2>0. j \in Nat /\ k \in Nat /\ \A x \in S : x \in Nat
    OBVIOUS
  <2>1. ASSUME NEW x \in Below(S, j) PROVE x \in Below(S, k)
    <3>1. x \in S /\ x <= j
      BY DEF Below
    <3>2. x <= k
      BY <2>0, <3>1, <1>3
    <3> QED BY <3>1, <3>2 DEF Below
  <2>2. k \in Below(S, k) /\ k \notin Below(S, j)
    BY <2>0, <1>3 DEF Below
  <2>3. /\ Cardinality(Below(S, j)) <= Cardinality(Below(S, k))
        /\ Cardinality(Below(S, j)) # Cardinality(Below(S, k))
    BY <1>1, <2>1, <2>2, FS_Subset
  <2> QED BY <1>1, <2>3
<1>4. Cardinality(S) \in Nat
  BY FS_CardinalityType
<1>5. \A k \in S : Cardinality(Below(S, k)) \in 1 .. Cardinality(S)
  BY <1>1, <1>2, <1>4
<1> QED BY <1>3, <1>4, <1>5

LEMMA FirstOnes ==
  ASSUME NEW S \in SUBSET Nat, IsFiniteSet(S), NEW r \in Nat,
         NEW T, T = {k \in S : Cardinality(Below(S, k)) <= r}
  PROVE  /\ IsFiniteSet(T) /\ Cardinality(T) \in Nat /\ Cardinality(T) <= r
         /\ T = S \/ Cardinality(T) = r
         /\ \A j \in T, k \in S \ T : j < k
<1> DEFINE n == Cardinality(S)
           m == IF r < n THEN r ELSE n
           f == [k \in S |-> Cardinality(Below(S, k))]
           g == [k \in T |-> Cardinality(Below(S, k))]
<1>1. n \in Nat /\ m \in Nat /\ m <= r /\ m <= n
  BY BelowCounts
<1>2. \A k \in S : Cardinality(Below(S, k)) \in 1 .. n
  BY BelowCounts
<1>3. \A j, k \in S : Cardinality(Below(S, j)) = Cardinality(Below(S, k)) => j = k
  <2> SUFFICES ASSUME NEW j \in S, NEW k \in S, j # k
               PROVE  Cardinality(Below(S, j)) # Cardinality(Below(S, k))
    OBVIOUS
  <2>1. j < k \/ k < j
    OBVIOUS
  <2>2. Cardinality(Below(S, j)) \in Nat /\ Cardinality(Below(S, k)) \in Nat
    BY <1>1, <1>2
  <2> QED BY <2>1, <2>2, BelowCounts
<1>4. T \in SUBSET S /\ IsFiniteSet(T) /\ Cardinality(T) \in Nat
  <2>1. T \in SUBSET S
    OBVIOUS
  <2> QED BY <2>1, FS_Subset, FS_CardinalityType
<1>5. IsFiniteSet(1 .. n) /\ Cardinality(1 .. n) = n
  <2> HIDE DEF n
  <2> QED BY <1>1, FS_Interval
<1>6. IsFiniteSet(1 .. m) /\ Cardinality(1 .. m) = m
  <2> HIDE DEF m
  <2> QED BY <1>1, FS_Interval
<1>7. f \in Surjection(S, 1 .. n)
  <2>1. f \in Injection(S, 1 .. n)
    BY <1>2, <1>3 DEF Injection, IsInjective
  <2> HIDE DEF f
  <2> QED BY <2>1, <1>5, FS_Injection
<1>8. g \in Injection(T, 1 .. m)
  <2>1. ASSUME NEW k \in T PROVE Cardinality(Below(S, k)) \in 1 .. m
    <3>1. Cardinality(Below(S, k)) \in 1 .. n /\ Cardinality(Below(S, k)) <= r
      BY <1>2
    <3> HIDE DEF n
    <3> QED BY <3>1, <1>1
  <2>2. g \in [T -> 1 .. m]
    <3> HIDE DEF m
    <3> QED BY <2>1
  <2>3. \A j, k \in T : g[j] = g[k] => j = k
    BY <1>3, <1>4
  <2> HIDE DEF g, m
  <2> QED BY <2>2, <2>3 DEF Injection, IsInjective
<1>9. g \in Surjection(T, 1 .. m)
  <2> SUFFICES ASSUME NEW c \in 1 .. m PROVE \E k \in T : g[k] = c
    BY <1>8 DEF Surjection, Injection
  <2>1. c \in 1 .. n /\ c <= r
    BY <1>1
  <2>2. PICK k \in S : f[k] = c
    BY <1>7, <2>1 DEF Surjection
  <2> QED BY <2>1, <2>2
<1>10. Cardinality(T) = m
  <2> HIDE DEF g
  <2> QED BY <1>6, <1>8, <1>9, FS_Injection
<1>11. T = S \/ Cardinality(T) = r
  <2>1. CASE r < n
    BY <2>1, <1>10
  <2>2. CASE ~(r < n)
    BY <2>2, <1>1, <1>10, <1>4, FS_Subset
  <2> QED BY <2>1, <2>2
<1>12. ASSUME NEW j \in T, NEW k \in S \ T PROVE j < k
  <2>1. Cardinality(Below(S, j)) < Cardinality(Below(S, k))
    BY <1>1, <1>2
  <2>2. ~(k < j)
    <3>1. j \in S /\ k \in S
      OBVIOUS
    <3>2. Cardinality(Below(S, j)) \in Nat /\ Cardinality(Below(S, k)) \in Nat
      BY <3>1, <1>1, <1>2
    <3> QED BY <2>1, <3>1, <3>2, BelowCounts
  <2> QED BY <2>1, <2>2
<1> QED BY <1>1, <1>4, <1>10, <1>11, <1>12

\* A page fits, or fills the room there is with its first keys; what it adds is new.
LEMMA RoomIsFilled ==
  ASSUME Shapes, \A k \in Held(objects) : k <= marker, Cardinality(Held(objects)) < cap,
         NEW taken, taken = {k \in Page : Cardinality({j \in Page : j <= k}) <= Room}
  PROVE  /\ taken \subseteq Page /\ (taken = Page \/ Cardinality(taken) = Room)
         /\ \A j \in taken, k \in Page \ taken : j < k
         /\ Cardinality(taken) \in Nat /\ Room \in Nat /\ Cardinality(taken) <= Room
         /\ Cardinality(Held(objects) \cup taken) = Cardinality(Held(objects)) + Cardinality(taken)
<1>1. IsFiniteSet(Keys) /\ Page \in SUBSET Keys /\ Held(objects) \in SUBSET Keys
  BY CosAssumption DEF Page, PageOf, Left
<1>2. /\ IsFiniteSet(Page) /\ Page \in SUBSET Nat
      /\ IsFiniteSet(Held(objects)) /\ Cardinality(Held(objects)) \in Nat
  BY <1>1, CosAssumption, FS_Subset, FS_CardinalityType
<1>3. Room \in Nat
  BY <1>2 DEF Room, Shapes
<1>4. taken = {k \in Page : Cardinality(Below(Page, k)) <= Room}
  BY DEF Below
<1>5. Page \cap Held(objects) = {}
  BY CosAssumption DEF Page, PageOf, Left, Shapes
<1> HIDE DEF Held, Room
<1>6. /\ IsFiniteSet(taken) /\ Cardinality(taken) \in Nat /\ Cardinality(taken) <= Room
      /\ taken = Page \/ Cardinality(taken) = Room
      /\ \A j \in taken, k \in Page \ taken : j < k
  BY <1>2, <1>3, <1>4, FirstOnes
<1>7. taken \subseteq Page /\ Held(objects) \cap taken = {}
  BY <1>4, <1>5
<1>8. Cardinality(Held(objects) \cap taken) = 0
  BY <1>7, FS_EmptySet
<1>9. Cardinality(Held(objects) \cup taken) =
        Cardinality(Held(objects)) + Cardinality(taken) - Cardinality(Held(objects) \cap taken)
  BY <1>2, <1>6, FS_Union
<1> QED BY <1>2, <1>3, <1>6, <1>7, <1>8, <1>9

LEMMA WalkPreserves == ASSUME IInv, Walk PROVE IInv'
<1> DEFINE taken == {k \in Page : Cardinality({j \in Page : j <= k}) <= Room}
<1> USE DEF IInv
<1>1. /\ UNCHANGED <<bucket, clock, params, present, seen, baseline, log, polls>>
      /\ pc = "walk"
      /\ objects' = [k \in Keys |-> IF k \in taken THEN bucket[k] ELSE objects[k]]
      /\ \/ /\ Left \ Page = {} \/ Cardinality(taken) = Room
            /\ pc' = "compare" /\ marker' = marker
         \/ /\ Left \ Page # {} /\ Cardinality(taken) # Room
            /\ pc' = "walk" /\ marker' \in {k \in Page : \A j \in Page : j <= k}
  BY DEF Walk
<1>2. taken \subseteq Page /\ Page \subseteq Left /\ Left \subseteq Keys
  BY PageIsPrefix DEF Left
<1>3. \A k \in taken : k \in Keys /\ bucket[k] # 0 /\ k > marker
  BY <1>2 DEF Left
<1>4. /\ taken = Page \/ Cardinality(taken) = Room
      /\ \A j \in taken, k \in Page \ taken : j < k
      /\ Cardinality(taken) \in Nat /\ Room \in Nat /\ Cardinality(taken) <= Room
      /\ Cardinality(Held(objects) \cup taken) = Cardinality(Held(objects)) + Cardinality(taken)
  BY <1>1, RoomIsFilled DEF InFull
<1> HIDE DEF taken
<1>5. Shapes'
  <2>1. objects' \in [Keys -> Nat]
    BY <1>1 DEF Shapes
  <2>2. marker' \in Nat /\ pc' \in {"walk", "compare"}
    BY <1>1, <1>2, CosAssumption DEF Shapes
  <2> QED BY <1>1, <2>1, <2>2 DEF Shapes
<1>6. Aged'
  <2> SUFFICES ASSUME NEW k \in Keys
               PROVE  /\ objects'[k] <= clock
                      /\ objects'[k] # 0 => seen[k] <= objects'[k]
                      /\ objects'[k] # 0 /\ bucket[k] # 0 => objects'[k] <= bucket[k]
    BY <1>1 DEF Aged, Walking
  <2>1. CASE k \in taken
    BY <2>1, <1>1, <1>3 DEF Aged, Shapes
  <2>2. CASE k \notin taken
    BY <2>2, <1>1 DEF Aged, Walking
  <2> QED BY <2>1, <2>2
<1>7. Recorded' /\ OnceEach' /\ BaselineIsSilent' /\ RecordsAreAnnounced'
  BY <1>1 DEF Recorded, OnceEach, BaselineIsSilent, RecordsAreAnnounced, Announced
<1>8. InFull'
  <2>1. Held(objects') = Held(objects) \cup taken
    BY <1>1, <1>3
  <2>2. Cardinality(Held(objects')) = cap - Room + Cardinality(taken)
    <3>1. Cardinality(Held(objects)) = cap - Room
      <4>1. cap \in Nat /\ Cardinality(Held(objects)) \in Nat
        <5>1. IsFiniteSet(Held(objects))
          BY CosAssumption, FS_Subset
        <5> QED BY <5>1, FS_CardinalityType DEF Shapes
      <4> QED BY <4>1 DEF Room
    <3> QED BY <3>1, <2>1, <1>4
  <2>3. ASSUME NEW k \in present, objects'[k] = 0
        PROVE  k \in Left \ taken
    <3>1. k \in Keys /\ bucket[k] # 0 /\ objects[k] = 0 /\ k \notin taken
      BY <2>3, <1>1, <1>3 DEF InFull, Shapes
    <3>2. ~(k <= marker)
      BY <3>1, <1>1 DEF InFull
    <3> QED BY <3>1, <3>2, CosAssumption DEF Left, Shapes
  <2>4. ASSUME NEW k \in Left \ taken, NEW j \in Held(objects') PROVE j < k
    <3>1. k \in Nat /\ j \in Nat /\ k > marker /\ marker \in Nat
      BY CosAssumption DEF Left, Shapes
    <3>2. CASE j \in Held(objects)
      BY <3>1, <3>2, <1>1 DEF InFull
    <3>3. CASE j \in taken /\ k \in Page
      BY <3>3, <1>4
    <3>4. CASE j \in taken /\ k \notin Page
      BY <3>1, <3>4, <1>2, PageIsPrefix
    <3> QED BY <2>1, <3>2, <3>3, <3>4
  <2>5. ASSUME pc' = "compare" PROVE WalksInFull'
    <3>1. Cardinality(Held(objects')) <= cap
      BY <2>2, <1>4 DEF Shapes
    <3>2. ASSUME NEW k \in present, objects'[k] = 0
          PROVE  /\ Cardinality(Held(objects')) = cap
                 /\ \A j \in Held(objects') : j < k
      <4>1. k \in Left \ taken
        BY <3>2, <2>3
      <4>2. Cardinality(taken) = Room
        BY <4>1, <2>5, <1>1, <1>4
      <4>3. Cardinality(Held(objects')) = cap
        BY <2>2, <4>2, <1>4 DEF Shapes
      <4> QED BY <4>1, <4>3, <2>4
    <3>3. present' = present /\ cap' = cap /\ present \subseteq Keys
      BY <1>1 DEF Shapes
    <3> QED BY <3>1, <3>2, <3>3 DEF WalksInFull
  <2>6. ASSUME pc' = "walk"
        PROVE  /\ \A k \in Held(objects') : k <= marker'
               /\ \A k \in present : k <= marker' => objects'[k] # 0
               /\ Cardinality(Held(objects')) < cap
    <3>1. taken = Page /\ Cardinality(taken) # Room
      BY <2>6, <1>1, <1>4
    <3>2. marker' \in Page /\ (\A j \in Page : j <= marker') /\ marker' \in Nat /\ marker < marker'
      <4>1. marker' \in Page /\ \A j \in Page : j <= marker'
        BY <2>6, <1>1
      <4> QED BY <4>1, <1>2, CosAssumption DEF Left, Shapes
    <3>3. ASSUME NEW k \in Held(objects') PROVE k <= marker'
      <4>1. CASE k \in taken
        BY <4>1, <3>1, <3>2
      <4>2. CASE k \in Held(objects)
        <5>1. k <= marker /\ k \in Nat /\ marker \in Nat
          BY <4>2, <1>1, CosAssumption DEF InFull, Shapes
        <5> QED BY <5>1, <3>2
      <4> QED BY <4>1, <4>2, <2>1
    <3>4. ASSUME NEW k \in present, k <= marker', objects'[k] = 0 PROVE FALSE
      <4>1. k \in Left \ Page
        BY <3>1, <3>4, <2>3
      <4> QED BY <4>1, <3>2, <3>4, PageIsPrefix
    <3>5. Cardinality(Held(objects')) < cap
      BY <2>2, <3>1, <1>4 DEF Shapes
    <3> QED BY <3>3, <3>4, <3>5
  <2>7. UNCHANGED <<present, bucket, cap>> /\ pc = "walk" /\ pc' \in {"walk", "compare"}
    BY <1>1
  <2>8. present \subseteq Held(bucket)
    BY <2>7 DEF InFull
  <2> HIDE DEF Held
  <2>9. CASE pc' = "walk"
    BY <2>6, <2>7, <2>8, <2>9 DEF InFull, WalksInFull
  <2>10. CASE pc' = "compare"
    BY <2>5, <2>10 DEF InFull
  <2> QED BY <2>7, <2>9, <2>10
<1> QED BY <1>5, <1>6, <1>7, <1>8

LEMMA ComparePreserves == ASSUME IInv, Compare PROVE IInv'
<1> USE DEF IInv
<1>1. /\ UNCHANGED <<bucket, clock, params, marker, objects, present>>
      /\ pc = "compare" /\ pc' = "sleep" /\ polls' = TRUE
      /\ seen' = [k \in Keys |-> IF k \in Changed THEN objects[k] ELSE seen[k]]
      /\ baseline' = IF polls THEN baseline ELSE objects
      /\ log' = [k \in Keys |-> IF k \in Changed /\ (~first_poll \/ initial)
                                  THEN Append(log[k], objects[k]) ELSE log[k]]
  BY DEF Compare
<1>2. \A k \in Keys :
        /\ objects[k] \in Nat /\ seen[k] \in Nat /\ baseline[k] \in Nat /\ log[k] \in Seq(Nat)
        /\ baseline[k] <= seen[k]
        /\ objects[k] # 0 => seen[k] <= objects[k]
  BY <1>1 DEF Shapes, Recorded, Aged, Walking
<1>3. \A k \in Keys :
        /\ k \in Changed => objects[k] > seen[k] /\ seen'[k] = objects[k]
        /\ k \notin Changed => seen'[k] = seen[k] /\ (objects[k] # 0 => seen[k] = objects[k])
  BY <1>1, <1>2 DEF Changed, Aged, Walking
<1>4. \A k \in Keys :
        \/ log'[k] = log[k] /\ (k \in Changed => first_poll /\ ~initial)
        \/ /\ log'[k] = Append(log[k], objects[k]) /\ k \in Changed
           /\ ~first_poll \/ initial
  BY <1>1
<1>5. \A k \in Keys :
        /\ seen'[k] \in Nat /\ seen[k] <= seen'[k]
        /\ objects[k] # 0 => seen'[k] = objects[k]
        /\ objects[k] = 0 => seen'[k] = seen[k]
  BY <1>2, <1>3 DEF Changed
<1>6. Shapes'
  <2>1. log' \in [Keys -> Seq(Nat)] /\ seen' \in [Keys -> Nat]
    BY <1>1, <1>2
  <2>2. baseline' \in [Keys -> Nat]
    BY <1>1 DEF Shapes
  <2> QED BY <1>1, <2>1, <2>2 DEF Shapes
<1>7. Aged'
  BY <1>1, <1>5 DEF Aged, Walking, Shapes
<1>8. \A k \in Keys : baseline'[k] <= seen'[k]
  <2>1. CASE polls
    BY <2>1, <1>1, <1>2, <1>5
  <2>2. CASE ~polls
    BY <2>2, <1>1, <1>2, <1>5
  <2> QED BY <2>1, <2>2
<1>9. ASSUME NEW k \in Keys, NEW i \in DOMAIN log'[k]
      PROVE  \/ i \in DOMAIN log[k] /\ log'[k][i] = log[k][i]
             \/ i \notin DOMAIN log[k] /\ log'[k][i] = objects[k] /\ k \in Changed
                /\ i = Len(log[k]) + 1 /\ (~first_poll \/ initial)
  <2>1. CASE log'[k] = log[k]
    BY <2>1
  <2>2. CASE log'[k] = Append(log[k], objects[k]) /\ k \in Changed
               /\ (~first_poll \/ initial)
    BY <2>2, <1>2
  <2> QED BY <2>1, <2>2, <1>4
<1>10. Recorded'
  <2>1. ASSUME NEW k \in Keys, NEW i \in DOMAIN log'[k]
        PROVE  0 < log'[k][i] /\ log'[k][i] <= seen'[k]
    <3>1. CASE i \in DOMAIN log[k] /\ log'[k][i] = log[k][i]
      <4>1. 0 < log[k][i] /\ log[k][i] <= seen[k] /\ log[k][i] \in Nat
        BY <3>1, <1>2 DEF Recorded
      <4>2. seen[k] \in Nat /\ seen'[k] \in Nat /\ seen[k] <= seen'[k]
        BY <1>2, <1>5
      <4> QED BY <3>1, <4>1, <4>2
    <3>2. CASE log'[k][i] = objects[k] /\ k \in Changed
      BY <3>2, <1>2, <1>3
    <3> QED BY <1>9, <3>1, <3>2
  <2> QED BY <1>1, <1>8, <2>1 DEF Recorded
<1>11. InFull'
  BY <1>1 DEF InFull, WalksInFull
<1>12. OnceEach'
  <2> SUFFICES ASSUME NEW k \in Keys, NEW i \in DOMAIN log'[k], NEW j \in DOMAIN log'[k],
                      i < j
               PROVE  log'[k][i] < log'[k][j]
    BY DEF OnceEach
  <2>1. DOMAIN log[k] = 1..Len(log[k]) /\ Len(log[k]) \in Nat
    BY <1>2
  <2>2. CASE i \in DOMAIN log[k] /\ log'[k][i] = log[k][i]
    <3>1. log[k][i] <= seen[k] /\ log[k][i] \in Nat
      BY <2>2, <1>2 DEF Recorded
    <3>2. CASE j \in DOMAIN log[k] /\ log'[k][j] = log[k][j]
      BY <2>2, <3>2 DEF OnceEach
    <3>3. CASE log'[k][j] = objects[k] /\ k \in Changed
      BY <2>2, <3>1, <3>3, <1>2, <1>3
    <3> QED BY <3>2, <3>3, <1>9
  <2>3. CASE i = Len(log[k]) + 1 /\ k \in Changed
    <3>1. DOMAIN log'[k] \subseteq 1..(Len(log[k]) + 1)
      BY <1>2, <1>4
    <3> QED BY <2>1, <2>3, <3>1
  <2> QED BY <2>2, <2>3, <1>9
<1>13. BaselineIsSilent'
  <2> SUFFICES ASSUME ~initial, NEW k \in Keys, NEW i \in DOMAIN log'[k]
               PROVE  log'[k][i] > baseline'[k]
    BY <1>1 DEF BaselineIsSilent
  <2>1. CASE ~polls
    <3>1. first_poll /\ log[k] = <<>>
      BY <2>1 DEF Recorded, first_poll, Nothing
    <3> QED BY <3>1, <1>9
  <2>2. CASE polls
    <3>1. CASE i \in DOMAIN log[k] /\ log'[k][i] = log[k][i]
      BY <2>2, <3>1, <1>1 DEF BaselineIsSilent
    <3>2. CASE log'[k][i] = objects[k] /\ k \in Changed
      BY <2>2, <3>2, <1>1, <1>2, <1>3
    <3> QED BY <3>1, <3>2, <1>9
  <2> QED BY <2>1, <2>2 DEF Shapes
<1>14. RecordsAreAnnounced'
  <2> SUFFICES ASSUME initial \/ Held(baseline') # {}, NEW k \in Keys, seen'[k] # 0,
                      seen'[k] # baseline'[k]
               PROVE  log'[k] # <<>> /\ log'[k][Len(log'[k])] = seen'[k]
    BY <1>1 DEF RecordsAreAnnounced, Announced
  <2>1. CASE log'[k] = Append(log[k], objects[k]) /\ k \in Changed
    <3>1. Len(log'[k]) = Len(log[k]) + 1 /\ log'[k][Len(log'[k])] = objects[k]
          /\ log'[k] # <<>>
      <4>1. log[k] \in Seq(Nat) /\ objects[k] \in Nat
        BY <1>2
      <4> QED BY <2>1, <4>1
    <3> QED BY <2>1, <3>1, <1>3
  <2>2. CASE log'[k] = log[k] /\ (k \in Changed => first_poll /\ ~initial)
    <3>1. CASE polls
      <4>1. initial \/ Held(baseline) # {}
        BY <3>1, <1>1
      <4>2. ~initial => ~first_poll
        BY <4>1, <1>2 DEF first_poll
      <4>3. k \notin Changed /\ seen'[k] = seen[k]
        BY <4>2, <2>2, <1>3
      <4> QED BY <4>1, <4>3, <2>2, <3>1, <1>1 DEF RecordsAreAnnounced, Announced
    <3>2. CASE ~polls
      <4>1. seen[k] = 0
        BY <3>2 DEF Recorded, Nothing
      <4>2. seen'[k] = objects[k] /\ baseline'[k] = objects[k]
        BY <4>1, <3>2, <1>1, <1>5
      <4> QED BY <4>2
    <3> QED BY <3>1, <3>2 DEF Shapes
  <2> QED BY <2>1, <2>2, <1>4
<1> QED BY <1>6, <1>7, <1>10, <1>11, <1>12, <1>13, <1>14

LEMMA NextPreserves == IInv /\ [Next]_vars => IInv'
<1> SUFFICES ASSUME IInv, [Next]_vars PROVE IInv'
  OBVIOUS
<1>1. CASE Poll
  BY <1>1, BeginPreserves, WalkPreserves, ComparePreserves, PausePreserves DEF Poll
<1>2. CASE \E k \in Keys : Upload(k) \/ Remove(k)
  BY <1>2, BucketPreserves
<1>3. CASE UNCHANGED vars
  BY <1>3 DEF vars, IInv, Shapes, Aged, Walking, Recorded, InFull, WalksInFull, OnceEach, BaselineIsSilent, RecordsAreAnnounced, Announced
<1> QED BY <1>1, <1>2, <1>3 DEF Next

LEMMA Invariance == Spec => []IInv
BY InitEstablishes, NextPreserves, PTL DEF Spec

-----------------------------------------------------------------------------
\* A walk lists every object that is there from its first page to its last,
\* whatever is uploaded or removed meanwhile, or the first max_objects ones, and
\* no more than max_objects (list_bucket_objects).
THEOREM WalksInFullAlways == Spec => []WalksInFull
<1>1. IInv => WalksInFull
  BY DEF IInv, InFull
<1> QED BY <1>1, Invariance, PTL

\* No version of an object is announced twice, nor after a later one.
THEOREM OnceEachAlways == Spec => []OnceEach
<1>1. IInv => OnceEach
  BY DEF IInv
<1> QED BY <1>1, Invariance, PTL

\* What the first poll found is not announced, unless initial is set.
THEOREM BaselineIsSilentAlways == Spec => []BaselineIsSilent
<1>1. IInv => BaselineIsSilent
  BY DEF IInv
<1> QED BY <1>1, Invariance, PTL

\* Nothing is recorded silently once the first poll found an object.
THEOREM RecordsAreAnnouncedAlways == Spec => []RecordsAreAnnounced
<1>1. IInv => RecordsAreAnnounced
  BY DEF IInv
<1> QED BY <1>1, Invariance, PTL
=============================================================================
