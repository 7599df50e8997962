-------------------------- MODULE Reconcile_proofs --------------------------
(***************************************************************************)
(* What tasks on one route table or listener leave alone, keep up, and     *)
(* report, for any number of tasks, entries, retries and faults.           *)
(***************************************************************************)
EXTENDS Reconcile, SequenceTheorems, TLAPS

Verbs  == {"create", "delete", "label", "add", "remove"}
Gentle == {"label", "add", "remove"}
PCs    == {"start", "find", "call", "wait", "report", "done"}
Record == [pc : PCs, tries : Int, todo : Seq(Verbs), add : SUBSET Keys,
           remove : SUBSET Keys, seen : Entries \cup {<<>>}, job : Int,
           result : {"none", "changed", "unchanged", "failed"}, calm : BOOLEAN]
Job    == [by : Tasks, do : Verbs, status : {"doing", "done", "failed"}]
Jobs   == Seq(Job)

\* A task that has a call to make, or waits for one, still knows which.
WellFormed(r) == r \in Record /\ (r.pc \in {"call", "wait"} => r.todo # <<>>)

Shapes ==
  /\ params \in [Tasks -> Param] /\ cloud \in Cloud /\ jobs \in Jobs
  /\ DOMAIN task = Tasks /\ \A t \in Tasks : WellFormed(task[t])

\* The entries UntouchedSurvive speaks of.
Spared(k, p) ==
  /\ p.state = "present"
  /\ p.want[k] = start[k] \/ (p.kind = "routes" /\ k \in System /\ p.want[k] = None)

Untouched(k) == start[k] # None /\ \A t \in Tasks : Spared(k, params[t])

\* No call a task has planned takes the entry away, or the table with it, and
\* one that writes it writes what is there.
Harmless(k, r, p) ==
  /\ k \notin r.remove
  /\ k \in r.add => p.want[k] = start[k]
  /\ r.todo \in Seq(Gentle)

There(k, c) == c.exists /\ c.entries[k] = start[k]

Kept(k) == There(k, cloud) /\ \A t \in Tasks : Harmless(k, task[t], params[t])

\* The inductive invariant: the entry is there, and no plan or asynchronous task
\* of the load balancer, abandoned or not, is for it.
IInv == Shapes /\ \A k \in Keys : Untouched(k) => Kept(k)

-----------------------------------------------------------------------------
(* Records.                                                                *)

LEMMA AtIs ==
  ASSUME NEW t \in Tasks, task[t] \in Record, NEW pc \in PCs
  PROVE  /\ At(t, pc) \in Record /\ At(t, pc).pc = pc
         /\ At(t, pc).todo = task[t].todo /\ At(t, pc).add = task[t].add
         /\ At(t, pc).remove = task[t].remove /\ At(t, pc).job = task[t].job
         /\ At(t, pc).seen = task[t].seen
         /\ At(t, pc).result = task[t].result /\ At(t, pc).calm = task[t].calm
<1> DEFINE r == [task[t] EXCEPT !.pc = pc]
<1>1. /\ r \in Record /\ r.pc = pc
      /\ r.todo = task[t].todo /\ r.add = task[t].add /\ r.remove = task[t].remove
      /\ r.job = task[t].job /\ r.result = task[t].result /\ r.calm = task[t].calm
      /\ r.seen = task[t].seen
  BY DEF Record
<1>2. At(t, pc) = [r EXCEPT !.tries = 0]
  BY DEF At, Record
<1> HIDE DEF r
<1> QED BY <1>1, <1>2 DEF Record

LEMMA EndedIs ==
  ASSUME NEW t \in Tasks, task[t] \in Record, NEW how \in {"changed", "unchanged", "failed"}
  PROVE  /\ Ended(t, how) \in Record /\ Ended(t, how).pc = "done"
         /\ Ended(t, how).todo = task[t].todo /\ Ended(t, how).add = task[t].add
         /\ Ended(t, how).remove = task[t].remove
         /\ Ended(t, how).result = how /\ Ended(t, how).calm = task[t].calm
         /\ Ended(t, how).seen = task[t].seen
<1> DEFINE r == [task[t] EXCEPT !.pc = "done"]
<1>1. "done" \in PCs
  BY DEF PCs
<1>2. /\ r \in Record /\ r.pc = "done"
      /\ r.todo = task[t].todo /\ r.add = task[t].add /\ r.remove = task[t].remove
      /\ r.calm = task[t].calm /\ r.seen = task[t].seen
  BY <1>1 DEF Record
<1>3. Ended(t, how) = [r EXCEPT !.result = how]
  BY DEF Ended, Record
<1> HIDE DEF r
<1> QED BY <1>2, <1>3 DEF Record

LEMMA TodoIs ==
  ASSUME NEW r \in Record, NEW calls \in Seq(Verbs)
  PROVE  LET q == [r EXCEPT !.todo = calls]
         IN  /\ q \in Record /\ q.pc = r.pc /\ q.todo = calls
             /\ q.add = r.add /\ q.remove = r.remove /\ q.seen = r.seen
             /\ q.result = r.result /\ q.calm = r.calm
BY DEF Record

LEMMA JobIs ==
  ASSUME NEW r \in Record, NEW n \in Int
  PROVE  LET q == [r EXCEPT !.job = n]
         IN  /\ q \in Record /\ q.pc = r.pc /\ q.todo = r.todo
             /\ q.add = r.add /\ q.remove = r.remove /\ q.job = n /\ q.seen = r.seen
             /\ q.result = r.result /\ q.calm = r.calm
BY DEF Record

-----------------------------------------------------------------------------
(* The plan.                                                               *)

LEMMA DiffTyped ==
  ASSUME NEW p \in Param, NEW entries
  PROVE  Diff(p, entries) \in [add : SUBSET Keys, remove : SUBSET Keys]
BY DEF Diff, Own, Purged, Param

\* What every task lists as it is is in no plan's removals.
LEMMA DiffSpares ==
  ASSUME NEW p \in Param, NEW entries, NEW k \in Keys,
         entries[k] = start[k], start[k] # None, Spared(k, p)
  PROVE  /\ k \notin Diff(p, entries).remove
         /\ k \in Diff(p, entries).add => p.want[k] = start[k]
<1> DEFINE has   == {j \in Own(p) : entries[j] # None}
           wants == {j \in Keys : p.want[j] # None}
           moved == {j \in wants \cap has : entries[j] # p.want[j]}
<1>1. k \in wants => p.want[k] = start[k]
  BY DEF Spared
<1>2. k \notin moved
  BY <1>1
<1>3. k \notin has \ wants
  BY DEF Spared, Own
<1>4. k \notin Diff(p, entries).remove
  <2>1. CASE p.kind = "routes"
    BY <1>2, <1>3, <2>1 DEF Diff
  <2>2. CASE p.kind # "routes"
    BY <1>2, <1>3, <2>2 DEF Diff, Spared, Purged
  <2> QED BY <2>1, <2>2
<1>5. k \in Diff(p, entries).add => k \in wants
  BY DEF Diff, Spared
<1> QED BY <1>1, <1>4, <1>5

LEMMA Single == ASSUME NEW S, NEW x \in S PROVE <<x>> \in Seq(S) /\ <<x>> # <<>>
OBVIOUS

LEMMA OrderTyped ==
  ASSUME NEW S, "add" \in S, "remove" \in S, NEW p, NEW d
  PROVE  Order(p, d) \in Seq(S)
<1> DEFINE add    == IF d.add = {} THEN <<>> ELSE <<"add">>
           remove == IF d.remove = {} THEN <<>> ELSE <<"remove">>
<1>1. <<>> \in Seq(S) /\ <<"add">> \in Seq(S) /\ <<"remove">> \in Seq(S)
  BY Single, EmptySeq
<1>2. add \in Seq(S) /\ remove \in Seq(S)
  BY <1>1, Zenon
<1>3. add \o remove \in Seq(S) /\ remove \o add \in Seq(S)
  <2> HIDE DEF add, remove
  <2> QED BY <1>2, ConcatProperties
<1> QED BY <1>3, Zenon DEF Order

LEMMA OrderGentle ==
  ASSUME NEW p, NEW d
  PROVE  Order(p, d) \in Seq(Verbs) /\ Order(p, d) \in Seq(Gentle)
<1>1. "add" \in Verbs \cap Gentle /\ "remove" \in Verbs \cap Gentle
  BY DEF Verbs, Gentle
<1> QED BY <1>1, OrderTyped

LEMMA DecideTyped ==
  ASSUME Shapes, NEW t \in Tasks, NEW calls \in Seq(Verbs),
         NEW d \in [add : SUBSET Keys, remove : SUBSET Keys]
  PROVE  WellFormed(Decide(t, calls, d))
<1>1. task[t] \in Record
  BY DEF Shapes, WellFormed
<1>2. cloud.entries \in Entries
  BY DEF Shapes, Cloud
<1>3. "call" \in PCs
  BY DEF PCs
<1>4. \A how \in {"changed", "unchanged"} : WellFormed(Ended(t, how))
  BY <1>1, EndedIs DEF WellFormed
<1>5. CASE calls # <<>>
  <2> DEFINE q == [At(t, "call") EXCEPT !.todo = calls]
             w == [q EXCEPT !.add = d.add, !.remove = d.remove, !.seen = cloud.entries]
  <2>1. q \in Record /\ q.pc = "call" /\ q.todo = calls
    BY <1>1, <1>3, AtIs, TodoIs
  <2>2. [At(t, "call") EXCEPT !.todo = calls, !.add = d.add, !.remove = d.remove,
                              !.seen = cloud.entries] = w
    BY <1>1, <1>3, AtIs DEF Record
  <2> HIDE DEF q
  <2>3. w \in Record /\ w.pc = "call" /\ w.todo = calls
    BY <1>2, <2>1 DEF Record
  <2>4. WellFormed(w)
    BY <1>5, <2>3 DEF WellFormed
  <2> QED BY <1>4, <1>5, <2>2, <2>4 DEF Decide
<1> QED BY <1>4, <1>5 DEF Decide

LEMMA DecideHarmless ==
  ASSUME Shapes, NEW t \in Tasks, NEW calls \in Seq(Gentle), NEW d, NEW k \in Keys,
         k \notin d.remove, k \in d.add => params[t].want[k] = start[k],
         Harmless(k, task[t], params[t])
  PROVE  Harmless(k, Decide(t, calls, d), params[t])
<1>1. task[t] \in Record
  BY DEF Shapes, WellFormed
<1> QED BY <1>1 DEF Decide, Ended, At, Harmless, Record

LEMMA PlanTyped ==
  ASSUME Shapes, NEW t \in Tasks
  PROVE  WellFormed(Plan(t))
<1> DEFINE p == params[t]
           d == Diff(p, cloud.entries)
           n == Diff(p, NoEntries)
           name == IF cloud.label = p.label THEN <<>> ELSE <<"label">>
<1>1. p \in Param
  BY DEF Shapes
<1>2. d \in [add : SUBSET Keys, remove : SUBSET Keys] /\ n \in [add : SUBSET Keys, remove : SUBSET Keys]
  BY <1>1, DiffTyped
<1>3. Order(p, d) \in Seq(Verbs) /\ Order(p, n) \in Seq(Verbs)
  BY OrderGentle
<1>4. name \in Seq(Verbs) /\ <<"create">> \in Seq(Verbs) /\ <<"delete">> \in Seq(Verbs) /\ <<>> \in Seq(Verbs)
  <2>1. "create" \in Verbs /\ "delete" \in Verbs /\ "label" \in Verbs
    BY DEF Verbs
  <2>2. <<"create">> \in Seq(Verbs) /\ <<"delete">> \in Seq(Verbs) /\ <<"label">> \in Seq(Verbs)
    BY <2>1, Single
  <2>3. <<>> \in Seq(Verbs)
    BY EmptySeq
  <2> QED BY <2>2, <2>3, Zenon
<1>5. name \o Order(p, d) \in Seq(Verbs) /\ <<"create">> \o Order(p, n) \in Seq(Verbs)
  BY <1>3, <1>4, ConcatProperties
<1> HIDE DEF p, d, n, name
<1>6. /\ WellFormed(Decide(t, Order(p, d), d))
      /\ WellFormed(Decide(t, IF cloud.exists THEN <<"delete">> ELSE <<>>, d))
      /\ WellFormed(Decide(t, name \o Order(p, d), d))
      /\ WellFormed(Decide(t, <<"create">> \o Order(p, n), n))
  BY <1>2, <1>3, <1>4, <1>5, DecideTyped
<1> QED BY <1>6 DEF Plan, p, d, n, name

LEMMA PlanHarmless ==
  ASSUME Shapes, NEW t \in Tasks, NEW k \in Keys, Untouched(k), Kept(k)
  PROVE  Harmless(k, Plan(t), params[t])
<1> DEFINE p == params[t]
           d == Diff(p, cloud.entries)
           name == IF cloud.label = p.label THEN <<>> ELSE <<"label">>
<1>1. p \in Param /\ Spared(k, p) /\ start[k] # None
  BY DEF Shapes, Untouched
<1>2. k \notin d.remove /\ (k \in d.add => p.want[k] = start[k])
  BY <1>1, DiffSpares DEF Kept, There
<1>3. Order(p, d) \in Seq(Gentle)
  BY OrderGentle
<1>4. name \o Order(p, d) \in Seq(Gentle)
  <2>1. name \in Seq(Gentle)
    <3>1. "label" \in Gentle
      BY DEF Gentle
    <3>2. <<"label">> \in Seq(Gentle) /\ <<>> \in Seq(Gentle)
      BY <3>1, Single, EmptySeq
    <3> QED BY <3>2, Zenon
  <2> QED BY <1>3, <2>1, ConcatProperties
<1>5. cloud.exists /\ p.state = "present" /\ Harmless(k, task[t], p)
  BY <1>1 DEF Kept, There, Spared
<1> HIDE DEF p, d, name
<1>6. Harmless(k, Decide(t, Order(p, d), d), p) /\ Harmless(k, Decide(t, name \o Order(p, d), d), p)
  <2>1. Harmless(k, task[t], params[t]) /\ (k \in d.add => params[t].want[k] = start[k])
    BY <1>2, <1>5 DEF p
  <2> QED BY <1>2, <1>3, <1>4, <2>1, DecideHarmless DEF p
<1> QED BY <1>5, <1>6 DEF Plan, p, d, name

-----------------------------------------------------------------------------
(* The steps.                                                              *)

LEMMA InitInv == Init => IInv
<1> SUFFICES ASSUME Init PROVE IInv
  OBVIOUS
<1>1. PICK s \in Scenarios : params = s.asks /\ cloud = s.cloud
  BY DEF Init
<1>2. s \in [asks : [Tasks -> Param], cloud : Cloud]
  BY ReconcileAssumption
<1>3. Begun \in Record
  <2>1. <<>> \in Seq(Verbs)
    BY EmptySeq
  <2> QED BY <2>1 DEF Begun, Record, PCs
<1>4. Shapes
  BY <1>1, <1>2, <1>3 DEF Init, Shapes, WellFormed, Begun, Jobs
<1>5. ASSUME NEW k \in Keys, Untouched(k) PROVE Kept(k)
  <2>1. cloud.entries[k] = start[k] /\ start[k] # None
    BY <1>5 DEF Init, Untouched
  <2>2. cloud.exists
    BY <1>1, <1>2, <2>1, ReconcileAssumption DEF NoEntries, Cloud
  <2>3. ASSUME NEW t \in Tasks PROVE Harmless(k, task[t], params[t])
    <3>1. <<>> \in Seq(Gentle)
      BY EmptySeq
    <3> QED BY <3>1 DEF Init, Begun, Harmless
  <2> QED BY <2>1, <2>2, <2>3 DEF Kept, There
<1> QED BY <1>4, <1>5 DEF IInv

\* A step of task t that leaves it with record r.
LEMMA TaskStep ==
  ASSUME IInv, NEW t \in Tasks, NEW r, Set(t, r), WellFormed(r),
         UNCHANGED <<params, start>>, cloud' \in Cloud, jobs' \in Jobs,
         \A k \in Keys : Untouched(k) /\ Kept(k) =>
                           There(k, cloud)' /\ Harmless(k, r, params[t])
  PROVE  IInv'
<1>1. DOMAIN task' = Tasks /\ \A u \in Tasks : task'[u] = IF u = t THEN r ELSE task[u]
  BY DEF IInv, Shapes, Set
<1>2. Shapes'
  BY <1>1 DEF IInv, Shapes, WellFormed, Record, Entries
<1>3. ASSUME NEW k \in Keys, Untouched(k)' PROVE Kept(k)'
  <2>1. Untouched(k) /\ Kept(k)
    BY <1>3 DEF IInv, Untouched, Spared
  <2>2. There(k, cloud)' /\ Harmless(k, r, params[t])
    BY <2>1
  <2>3. ASSUME NEW u \in Tasks PROVE Harmless(k, task[u], params[u])'
    BY <1>1, <2>1, <2>2 DEF Kept, Harmless
  <2> QED BY <2>2, <2>3 DEF Kept
<1> QED BY <1>2, <1>3 DEF IInv

\* A step that keeps what the task has planned.
LEMMA SamePlan ==
  ASSUME Shapes, NEW t \in Tasks, NEW r \in {Ended(t, "changed"), Ended(t, "unchanged"), Ended(t, "failed"), At(t, "report"), At(t, "find")}
  PROVE  /\ WellFormed(r)
         /\ \A k \in Keys : Harmless(k, task[t], params[t]) => Harmless(k, r, params[t])
<1>1. task[t] \in Record
  BY DEF Shapes, WellFormed
<1>2. "report" \in PCs /\ "find" \in PCs
  BY DEF PCs
<1>3. /\ r \in Record /\ r.pc \in {"done", "report", "find"}
      /\ r.todo = task[t].todo /\ r.add = task[t].add /\ r.remove = task[t].remove
  BY <1>1, <1>2, AtIs, EndedIs
<1> QED BY <1>3 DEF WellFormed, Harmless

LEMMA OnwardKeeps ==
  ASSUME Shapes, NEW t \in Tasks, task[t].pc \in {"call", "wait"}
  PROVE  /\ WellFormed(Onward(t))
         /\ \A k \in Keys : Harmless(k, task[t], params[t]) => Harmless(k, Onward(t), params[t])
<1>1. task[t] \in Record /\ task[t].todo # <<>>
  BY DEF Shapes, WellFormed
<1>2. Tail(task[t].todo) \in Seq(Verbs)
  BY <1>1 DEF Record
<1>3. task[t].todo \in Seq(Gentle) => Tail(task[t].todo) \in Seq(Gentle)
  BY <1>1
<1>4. CASE Onward(t) = [At(t, "call") EXCEPT !.todo = Tail(task[t].todo)] /\ Tail(task[t].todo) # <<>>
  <2>1. "call" \in PCs
    BY DEF PCs
  <2>2. /\ Onward(t) \in Record /\ Onward(t).todo = Tail(task[t].todo)
        /\ Onward(t).add = task[t].add /\ Onward(t).remove = task[t].remove
    <3>1. /\ At(t, "call") \in Record
          /\ At(t, "call").add = task[t].add /\ At(t, "call").remove = task[t].remove
      BY <1>1, <2>1, AtIs
    <3> DEFINE q == [At(t, "call") EXCEPT !.todo = Tail(task[t].todo)]
    <3>2. /\ q \in Record /\ q.todo = Tail(task[t].todo)
          /\ q.add = task[t].add /\ q.remove = task[t].remove
      BY <1>2, <3>1, TodoIs
    <3>3. Onward(t) = q
      BY <1>4
    <3> HIDE DEF q
    <3> QED BY <3>2, <3>3
  <2> QED BY <1>3, <1>4, <2>2 DEF WellFormed, Harmless
<1>5. CASE Onward(t) \in {Ended(t, "changed"), At(t, "report")}
  BY <1>5, SamePlan
<1> QED BY <1>4, <1>5 DEF Onward

LEMMA ChangedKeeps ==
  ASSUME IInv, NEW t \in Tasks, NEW do
  PROVE  /\ Changed(cloud.entries, do, t) \in Entries
         /\ \A k \in Keys : Untouched(k) => Changed(cloud.entries, do, t)[k] = start[k]
<1>1. cloud.entries \in Entries /\ params[t].want \in Entries
  BY DEF IInv, Shapes, Cloud, Param
<1>2. Changed(cloud.entries, do, t) \in Entries
  BY <1>1 DEF Changed, Entries
<1>3. ASSUME NEW k \in Keys, Untouched(k) PROVE Changed(cloud.entries, do, t)[k] = start[k]
  <2>1. Kept(k)
    BY <1>3 DEF IInv
  <2> QED BY <2>1 DEF Changed, Kept, There, Harmless
<1> QED BY <1>2, <1>3

LEMMA EffectKeeps ==
  ASSUME IInv, NEW t \in Tasks, task[t].todo # <<>>
  PROVE  /\ Effect(t, Head(task[t].todo)) \in Cloud
         /\ \A k \in Keys : Untouched(k) => There(k, Effect(t, Head(task[t].todo)))
<1> DEFINE do == Head(task[t].todo)
<1>1. task[t] \in Record /\ cloud \in Cloud /\ params[t] \in Param
  BY DEF IInv, Shapes, WellFormed
<1>2. do \in Verbs
  BY <1>1 DEF Record
<1>3. ASSUME NEW k \in Keys, Untouched(k) PROVE do \in Gentle
  BY <1>1, <1>3 DEF IInv, Kept, Harmless
<1>4. NoEntries \in Entries
  BY DEF NoEntries, Entries
<1>5. /\ Changed(cloud.entries, do, t) \in Entries
      /\ \A k \in Keys : Untouched(k) => Changed(cloud.entries, do, t)[k] = start[k] /\ Kept(k)
  BY ChangedKeeps DEF IInv
<1> HIDE DEF do
<1>6. CASE do \in {"create", "delete"}
  <2>1. Effect(t, do) \in Cloud
    BY <1>1, <1>4, <1>6 DEF Effect, Cloud, Param
  <2>2. \A k \in Keys : ~Untouched(k)
    BY <1>3, <1>6 DEF Gentle
  <2> QED BY <2>1, <2>2 DEF do
<1>7. CASE do = "label"
  <2>1. Effect(t, do) = [cloud EXCEPT !.label = params[t].label]
    BY <1>7 DEF Effect
  <2> QED BY <1>1, <1>5, <2>1 DEF Cloud, Param, Kept, There, do
<1>8. CASE do \in {"add", "remove"}
  <2>1. Effect(t, do) = [cloud EXCEPT !.entries = Changed(cloud.entries, do, t)]
    BY <1>1, <1>8 DEF Effect
  <2> QED BY <1>1, <1>5, <2>1 DEF Cloud, Kept, There, do
<1> QED BY <1>2, <1>6, <1>7, <1>8 DEF Verbs

\* Whether a call is carried out now or handed to the load balancer.
LEMMA WorksKeeps ==
  ASSUME IInv, NEW t \in Tasks, task[t].todo # <<>>, Works(t, Head(task[t].todo))
  PROVE  /\ cloud' \in Cloud /\ jobs' \in Jobs
         /\ \A k \in Keys : Untouched(k) => There(k, cloud')
<1>1. task[t] \in Record /\ cloud \in Cloud /\ jobs \in Jobs
  BY DEF IInv, Shapes, WellFormed
<1>2. CASE params[t].kind = "targets"
  <2>1. Head(task[t].todo) \in Verbs
    BY <1>1, HeadTailProperties DEF Record
  <2>2. jobs' = Append(jobs, [by |-> t, do |-> Head(task[t].todo), status |-> "doing"]) /\ cloud' = cloud
    BY <1>2 DEF Works
  <2>3. [by |-> t, do |-> Head(task[t].todo), status |-> "doing"] \in Job
    BY <2>1 DEF Job
  <2>4. jobs' \in Jobs
    BY <1>1, <2>2, <2>3, AppendProperties DEF Jobs
  <2> QED BY <1>1, <2>2, <2>4 DEF IInv, Kept
<1>3. CASE params[t].kind # "targets"
  BY <1>1, <1>3, EffectKeeps DEF Works
<1> QED BY <1>2, <1>3

LEMMA StartInv == ASSUME IInv, NEW t \in Tasks, Start(t) PROVE IInv'
<1> DEFINE calm == \A j \in DOMAIN jobs : jobs[j].status # "doing"
           r    == [At(t, "find") EXCEPT !.calm = calm]
<1>1. task[t] \in Record
  BY DEF IInv, Shapes, WellFormed
<1>2. calm \in BOOLEAN
  OBVIOUS
<1> HIDE DEF calm
<1>3. WellFormed(r) /\ \A k \in Keys : Harmless(k, task[t], params[t]) => Harmless(k, r, params[t])
  <2>1. "find" \in PCs
    BY DEF PCs
  <2>2. /\ At(t, "find") \in Record /\ At(t, "find").pc = "find"
        /\ At(t, "find").todo = task[t].todo /\ At(t, "find").add = task[t].add
        /\ At(t, "find").remove = task[t].remove
    BY <1>1, <2>1, AtIs
  <2>3. /\ r \in Record /\ r.pc = "find"
        /\ r.todo = task[t].todo /\ r.add = task[t].add /\ r.remove = task[t].remove
    BY <1>2, <2>2 DEF Record
  <2> QED BY <2>3 DEF WellFormed, Harmless
<1>4. Set(t, r) /\ UNCHANGED <<params, cloud, jobs, start>>
  BY DEF Start, calm
<1> HIDE DEF r
<1>5. cloud' \in Cloud /\ jobs' \in Jobs
  BY <1>4 DEF IInv, Shapes
<1>6. \A k \in Keys : Untouched(k) /\ Kept(k) => There(k, cloud)' /\ Harmless(k, r, params[t])
  BY <1>3, <1>4 DEF Kept, There
<1> QED BY <1>3, <1>4, <1>5, <1>6, TaskStep

\* A step of a task that moves on but for which the account stands still.
LEMMA QuietInv ==
  ASSUME IInv, NEW t \in Tasks, NEW r, Set(t, r), WellFormed(r),
         UNCHANGED <<params, cloud, jobs, start>>,
         \A k \in Keys : Untouched(k) /\ Kept(k) => Harmless(k, r, params[t])
  PROVE  IInv'
<1>1. cloud' \in Cloud /\ jobs' \in Jobs
  BY DEF IInv, Shapes
<1>2. \A k \in Keys : Untouched(k) /\ Kept(k) => There(k, cloud)' /\ Harmless(k, r, params[t])
  BY DEF Kept, There
<1> QED BY <1>1, <1>2, TaskStep

LEMMA SamePlanInv ==
  ASSUME IInv, NEW t \in Tasks,
         NEW r \in {Ended(t, "changed"), Ended(t, "unchanged"), Ended(t, "failed"),
                    At(t, "report"), At(t, "find")},
         Set(t, r), UNCHANGED <<params, cloud, jobs, start>>
  PROVE  IInv'
<1>1. WellFormed(r) /\ \A k \in Keys : Harmless(k, task[t], params[t]) => Harmless(k, r, params[t])
  BY SamePlan DEF IInv
<1>2. \A k \in Keys : Untouched(k) /\ Kept(k) => Harmless(k, r, params[t])
  BY <1>1 DEF Kept
<1> HIDE DEF IInv
<1> QED BY <1>1, <1>2, QuietInv

LEMMA FindInv == ASSUME IInv, NEW t \in Tasks, Find(t) PROVE IInv'
<1>1. CASE Set(t, Plan(t))
  <2>1. UNCHANGED <<params, cloud, jobs, start>>
    BY DEF Find
  <2>2. WellFormed(Plan(t))
    BY PlanTyped DEF IInv
  <2>3. \A k \in Keys : Untouched(k) /\ Kept(k) => Harmless(k, Plan(t), params[t])
    BY PlanHarmless DEF IInv
  <2> QED BY <1>1, <2>1, <2>2, <2>3, QuietInv
<1>2. CASE Set(t, Ended(t, "failed"))
  BY <1>2, SamePlanInv DEF Find
<1> QED BY <1>1, <1>2 DEF Find

LEMMA WaitInv == ASSUME IInv, NEW t \in Tasks, Wait(t) PROVE IInv'
<1>1. UNCHANGED <<params, cloud, jobs, start>> /\ task[t].pc = "wait"
  BY DEF Wait
<1>2. CASE Set(t, Onward(t))
  <2>1. /\ WellFormed(Onward(t))
        /\ \A k \in Keys : Untouched(k) /\ Kept(k) => Harmless(k, Onward(t), params[t])
    BY <1>1, OnwardKeeps DEF IInv, Kept
  <2> QED BY <1>1, <1>2, <2>1, QuietInv
<1>3. CASE Set(t, Ended(t, "failed"))
  BY <1>1, <1>3, SamePlanInv
<1> QED BY <1>2, <1>3 DEF Wait

LEMMA ReportInv == ASSUME IInv, NEW t \in Tasks, Report(t) PROVE IInv'
BY SamePlanInv DEF Report

LEMMA RaiseKeeps ==
  ASSUME Shapes, NEW t \in Tasks, NEW f, task[t].pc = "call"
  PROVE  /\ WellFormed(Raise(t, f))
         /\ \A k \in Keys : Harmless(k, task[t], params[t]) => Harmless(k, Raise(t, f), params[t])
<1>1. task[t] \in Record /\ task[t].todo # <<>>
  BY DEF Shapes, WellFormed
<1>2. CASE Raise(t, f) = [task[t] EXCEPT !.tries = @ + 1]
  BY <1>1, <1>2 DEF WellFormed, Record, PCs, Harmless
<1>3. CASE Raise(t, f) = Ended(t, "failed")
  BY <1>3, SamePlan
<1> QED BY <1>2, <1>3 DEF Raise

LEMMA CallInv == ASSUME IInv, NEW t \in Tasks, Call(t) PROVE IInv'
<1> DEFINE do == Head(task[t].todo)
<1>1. /\ task[t].pc = "call" /\ UNCHANGED <<params, start>> /\ task[t] \in Record
      /\ task[t].todo # <<>> /\ jobs \in Jobs /\ Shapes
  BY DEF Call, IInv, Shapes, WellFormed
<1>2. ASSUME Works(t, do), NEW r, Set(t, r), WellFormed(r),
             \A k \in Keys : Harmless(k, task[t], params[t]) => Harmless(k, r, params[t])
      PROVE  IInv'
  <2>1. cloud' \in Cloud /\ jobs' \in Jobs /\ \A k \in Keys : Untouched(k) => There(k, cloud')
    BY <1>1, <1>2, WorksKeeps
  <2>2. \A k \in Keys : Untouched(k) /\ Kept(k) => There(k, cloud)' /\ Harmless(k, r, params[t])
    BY <1>1, <1>2, <2>1 DEF Kept, There
  <2> HIDE DEF IInv
  <2> QED BY <1>1, <1>2, <2>1, <2>2, TaskStep
<1>3. ASSUME UNCHANGED <<cloud, jobs>>, NEW r, Set(t, r), WellFormed(r),
             \A k \in Keys : Harmless(k, task[t], params[t]) => Harmless(k, r, params[t])
      PROVE  IInv'
  <2>1. \A k \in Keys : Untouched(k) /\ Kept(k) => Harmless(k, r, params[t])
    BY <1>3 DEF Kept
  <2> QED BY <1>1, <1>3, <2>1, QuietInv
<1>4. CASE /\ Works(t, do)
           /\ Set(t, IF params[t].kind = "routes" THEN Onward(t)
                     ELSE [At(t, "wait") EXCEPT !.job = Len(jobs) + 1])
  <2> DEFINE w == [At(t, "wait") EXCEPT !.job = Len(jobs) + 1]
  <2>1. Len(jobs) + 1 \in Int
    BY <1>1, LenProperties DEF Jobs
  <2>2. WellFormed(w) /\ \A k \in Keys : Harmless(k, task[t], params[t]) => Harmless(k, w, params[t])
    <3>1. "wait" \in PCs
      BY DEF PCs
    <3>2. /\ w \in Record /\ w.todo = task[t].todo
          /\ w.add = task[t].add /\ w.remove = task[t].remove
      <4>1. /\ At(t, "wait") \in Record /\ At(t, "wait").todo = task[t].todo
            /\ At(t, "wait").add = task[t].add /\ At(t, "wait").remove = task[t].remove
        BY <1>1, <3>1, AtIs
      <4> QED BY <2>1, <4>1, JobIs
    <3> QED BY <1>1, <3>2 DEF WellFormed, Harmless
  <2>3. /\ WellFormed(Onward(t))
        /\ \A k \in Keys : Harmless(k, task[t], params[t]) => Harmless(k, Onward(t), params[t])
    BY <1>1, OnwardKeeps
  <2> HIDE DEF w
  <2>4. CASE params[t].kind = "routes"
    <3>1. Set(t, Onward(t))
      BY <1>4, <2>4
    <3> QED BY <1>2, <1>4, <2>3, <3>1
  <2>5. CASE params[t].kind # "routes"
    <3>1. Set(t, w)
      BY <1>4, <2>5 DEF w
    <3> QED BY <1>2, <1>4, <2>2, <3>1
  <2> QED BY <2>4, <2>5
<1>5. CASE /\ UNCHANGED <<cloud, jobs>>
           /\ Set(t, Ended(t, IF do = "delete" THEN "unchanged" ELSE "failed"))
  <2>1. PICK r \in {Ended(t, "unchanged"), Ended(t, "failed")} : Set(t, r)
    BY <1>5
  <2>2. WellFormed(r) /\ \A k \in Keys : Harmless(k, task[t], params[t]) => Harmless(k, r, params[t])
    BY <1>1, <2>1, SamePlan
  <2> QED BY <1>3, <1>5, <2>1, <2>2
<1>6. ASSUME NEW f \in Faults, Works(t, do) \/ UNCHANGED <<cloud, jobs>>, Set(t, Raise(t, f))
      PROVE  IInv'
  <2>1. /\ WellFormed(Raise(t, f))
        /\ \A k \in Keys : Harmless(k, task[t], params[t]) => Harmless(k, Raise(t, f), params[t])
    BY <1>1, RaiseKeeps
  <2> QED BY <1>2, <1>3, <1>6, <2>1
<1> QED BY <1>4, <1>5, <1>6 DEF Call

LEMMA CarryInv == ASSUME IInv, NEW j \in DOMAIN jobs, Carry(j) PROVE IInv'
<1>1. UNCHANGED <<params, task, start>> /\ jobs \in Jobs /\ cloud \in Cloud
  BY DEF Carry, IInv, Shapes
<1>2. jobs[j] \in Job
  BY <1>1 DEF Jobs
<1>3. \A s \in {"done", "failed"} : [jobs EXCEPT ![j].status = s] \in Jobs
  BY <1>1, <1>2 DEF Jobs, Job
<1>4. jobs' \in Jobs
  BY <1>3 DEF Carry
<1>5. cloud' \in Cloud /\ \A k \in Keys : Untouched(k) => There(k, cloud')
  <2>1. CASE UNCHANGED cloud
    BY <1>1, <2>1 DEF IInv, Kept
  <2>2. CASE cloud' = [cloud EXCEPT !.entries = Changed(cloud.entries, jobs[j].do, jobs[j].by)]
    <3>1. /\ Changed(cloud.entries, jobs[j].do, jobs[j].by) \in Entries
          /\ \A k \in Keys : Untouched(k) =>
               Changed(cloud.entries, jobs[j].do, jobs[j].by)[k] = start[k] /\ cloud.exists
      BY <1>2, ChangedKeeps DEF IInv, Kept, There, Job
    <3> QED BY <1>1, <2>2, <3>1 DEF Cloud, There
  <2> QED BY <2>1, <2>2 DEF Carry
<1>6. Shapes'
  BY <1>1, <1>4, <1>5 DEF IInv, Shapes, WellFormed, Record, Entries
<1>7. ASSUME NEW k \in Keys, Untouched(k)' PROVE Kept(k)'
  <2>1. Untouched(k) /\ Kept(k)
    BY <1>1, <1>7 DEF IInv, Untouched, Spared
  <2>2. There(k, cloud)'
    BY <1>1, <1>5, <2>1 DEF There
  <2>3. ASSUME NEW t \in Tasks PROVE Harmless(k, task[t], params[t])'
    BY <1>1, <2>1 DEF Kept, Harmless
  <2> QED BY <2>2, <2>3 DEF Kept
<1> QED BY <1>6, <1>7 DEF IInv

LEMMA NextInv == IInv /\ [Next]_vars => IInv'
<1> SUFFICES ASSUME IInv, [Next]_vars PROVE IInv'
  OBVIOUS
<1>1. CASE UNCHANGED vars
  BY <1>1 DEF vars, IInv, Shapes, WellFormed, Record, Entries, Untouched, Spared, Kept, There, Harmless
<1>2. CASE Next
  BY <1>2, StartInv, FindInv, CallInv, WaitInv, ReportInv, CarryInv DEF Next
<1> QED BY <1>1, <1>2

\* An entry that is as every task lists it, and a route that is not a USER route
\* and that no task lists, is never touched by diff_routes, reconcile_targets and
\* the calls made of their result: any number of tasks, at once or in sequence.
THEOREM UntouchedSurviveAlways == Spec => []UntouchedSurvive
<1>1. IInv => UntouchedSurvive
  BY DEF IInv, UntouchedSurvive, Untouched, Spared, Kept, There
<1> QED BY <1>1, InitInv, NextInv, PTL DEF Spec

-----------------------------------------------------------------------------
(***************************************************************************)
(* Every step as a move of one task's record.                              *)
(***************************************************************************)

\* q knows what r knows.
Like(q, r) ==
  /\ q.todo = r.todo /\ q.add = r.add /\ q.remove = r.remove
  /\ q.seen = r.seen /\ q.calm = r.calm

\* Only the record of t moves.
Alters(t) ==
  /\ UNCHANGED <<params, start>>
  /\ \A u \in Tasks \ {t} : task'[u] = task[u]

LEMMA SetAlters ==
  ASSUME Shapes, NEW t \in Tasks, NEW r, Set(t, r), UNCHANGED <<params, start>>
  PROVE  task'[t] = r /\ Alters(t)
BY DEF Shapes, Set, Alters

LEMMA EndedLike ==
  ASSUME Shapes, NEW t \in Tasks, NEW how \in {"changed", "unchanged", "failed"}
  PROVE  LET q == Ended(t, how)
         IN  Like(q, task[t]) /\ q.pc = "done" /\ q.result = how
<1>1. task[t] \in Record
  BY DEF Shapes, WellFormed
<1> QED BY <1>1, EndedIs DEF Like

LEMMA StartMoves ==
  ASSUME Shapes, NEW t \in Tasks, Start(t)
  PROVE  /\ Alters(t) /\ UNCHANGED <<cloud, jobs>>
         /\ task[t].pc = "start" /\ task'[t].pc = "find"
         /\ \A u \in params[t].after : task[u].pc = "done"
         /\ task'[t].calm = (\A j \in DOMAIN jobs : jobs[j].status # "doing")
         /\ task'[t].result = task[t].result
         /\ task'[t].todo = task[t].todo /\ task'[t].add = task[t].add
         /\ task'[t].remove = task[t].remove
<1> DEFINE calm == \A j \in DOMAIN jobs : jobs[j].status # "doing"
           a    == At(t, "find")
           r    == [a EXCEPT !.calm = calm]
<1>1. task[t] \in Record /\ "find" \in PCs
  BY DEF Shapes, WellFormed, PCs
<1>2. /\ a \in Record /\ a.pc = "find" /\ a.todo = task[t].todo /\ a.add = task[t].add
      /\ a.remove = task[t].remove /\ a.result = task[t].result
  BY <1>1, AtIs
<1>3. Set(t, r) /\ UNCHANGED <<params, start, cloud, jobs>>
  BY DEF Start
<1> HIDE DEF a, calm
<1>4. /\ r.pc = "find" /\ r.calm = calm /\ r.todo = task[t].todo /\ r.add = task[t].add
      /\ r.remove = task[t].remove /\ r.result = task[t].result
  BY <1>2 DEF Record
<1> HIDE DEF r
<1>5. task'[t] = r /\ Alters(t)
  BY <1>3, SetAlters
<1> QED BY <1>3, <1>4, <1>5 DEF Start, calm

LEMMA FindMoves ==
  ASSUME Shapes, NEW t \in Tasks, Find(t)
  PROVE  /\ Alters(t) /\ UNCHANGED <<cloud, jobs>> /\ task[t].pc = "find"
         /\ \/ task'[t] = Plan(t)
            \/ task'[t].pc = "done" /\ task'[t].result = "failed" /\ Like(task'[t], task[t])
<1>1. CASE Set(t, Plan(t))
  BY <1>1, SetAlters DEF Find
<1>2. CASE Set(t, Ended(t, "failed"))
  BY <1>2, SetAlters, EndedLike DEF Find
<1> QED BY <1>1, <1>2 DEF Find

LEMMA DecideIs ==
  ASSUME Shapes, NEW t \in Tasks, NEW calls \in Seq(Verbs),
         NEW d \in [add : SUBSET Keys, remove : SUBSET Keys]
  PROVE  LET q == Decide(t, calls, d)
         IN  /\ q.calm = task[t].calm
             /\ \/ /\ q.pc = "done" /\ Like(q, task[t])
                   /\ \/ calls = <<>> /\ q.result = "unchanged"
                      \/ calls # <<>> /\ params[t].check /\ q.result = "changed"
                \/ /\ calls # <<>> /\ ~params[t].check
                   /\ q.pc = "call" /\ q.todo = calls /\ q.add = d.add /\ q.remove = d.remove
                   /\ q.seen = cloud.entries /\ q.result = task[t].result
<1>1. task[t] \in Record /\ cloud.entries \in Entries /\ "call" \in PCs
  BY DEF Shapes, WellFormed, Cloud, PCs
<1>2. CASE calls = <<>>
  BY <1>2, EndedLike DEF Decide, Like
<1>3. CASE calls # <<>> /\ params[t].check
  BY <1>3, EndedLike DEF Decide, Like
<1>4. CASE calls # <<>> /\ ~params[t].check
  <2> DEFINE a == At(t, "call")
             b == [a EXCEPT !.todo = calls]
             q == [b EXCEPT !.add = d.add, !.remove = d.remove, !.seen = cloud.entries]
  <2>1. /\ a \in Record /\ a.pc = "call" /\ a.result = task[t].result /\ a.calm = task[t].calm
    BY <1>1, AtIs
  <2>2. /\ b \in Record /\ b.pc = "call" /\ b.todo = calls
        /\ b.result = task[t].result /\ b.calm = task[t].calm
    BY <2>1, TodoIs
  <2>3. [a EXCEPT !.todo = calls, !.add = d.add, !.remove = d.remove, !.seen = cloud.entries] = q
    BY <2>1 DEF Record
  <2> HIDE DEF b
  <2>4. /\ q.pc = "call" /\ q.todo = calls /\ q.add = d.add /\ q.remove = d.remove
        /\ q.seen = cloud.entries /\ q.result = task[t].result /\ q.calm = task[t].calm
    BY <2>2 DEF Record
  <2> QED BY <1>4, <2>3, <2>4 DEF Decide
<1> QED BY <1>2, <1>3, <1>4

\* After a call that worked: the next one, the report, or the end.
LEMMA OnwardIs ==
  ASSUME Shapes, NEW t \in Tasks, task[t].pc \in {"call", "wait"}
  PROVE  LET q    == Onward(t)
             todo == task[t].todo
         IN  /\ q.add = task[t].add /\ q.remove = task[t].remove /\ q.seen = task[t].seen
             /\ q.calm = task[t].calm
             /\ \/ /\ Head(todo) = "delete" \/ todo = <<"create">>
                   /\ q.pc = "done" /\ q.result = "changed" /\ q.todo = todo
                \/ /\ Head(todo) # "delete" /\ todo # <<"create">> /\ Tail(todo) = <<>>
                   /\ q.pc = "report" /\ q.result = task[t].result /\ q.todo = todo
                \/ /\ Head(todo) # "delete" /\ Tail(todo) # <<>>
                   /\ q.pc = "call" /\ q.result = task[t].result /\ q.todo = Tail(todo)
<1> DEFINE todo == task[t].todo
<1>1. /\ task[t] \in Record /\ todo # <<>> /\ Tail(todo) \in Seq(Verbs)
      /\ "call" \in PCs /\ "report" \in PCs
  BY DEF Shapes, WellFormed, Record, PCs
<1>2. CASE Head(todo) = "delete" \/ todo = <<"create">>
  BY <1>2, EndedLike DEF Onward, Like
<1>3. CASE ~(Head(todo) = "delete" \/ todo = <<"create">>) /\ Tail(todo) = <<>>
  BY <1>1, <1>3, AtIs DEF Onward
<1>4. CASE ~(Head(todo) = "delete" \/ todo = <<"create">>) /\ Tail(todo) # <<>>
  <2> DEFINE a == At(t, "call")
             q == [a EXCEPT !.todo = Tail(todo)]
  <2>1. /\ a \in Record /\ a.pc = "call" /\ a.result = task[t].result /\ a.calm = task[t].calm
        /\ a.add = task[t].add /\ a.remove = task[t].remove /\ a.seen = task[t].seen
    BY <1>1, AtIs
  <2>2. Onward(t) = q
    BY <1>4 DEF Onward
  <2> HIDE DEF a
  <2>3. /\ q.pc = "call" /\ q.todo = Tail(todo) /\ q.result = task[t].result
        /\ q.calm = task[t].calm
        /\ q.add = task[t].add /\ q.remove = task[t].remove /\ q.seen = task[t].seen
    BY <1>1, <2>1, TodoIs
  <2> HIDE DEF q
  <2> QED BY <1>4, <2>2, <2>3
<1> QED BY <1>2, <1>3, <1>4

\* A call that was made, that was refused, or that met a fault.
LEMMA CallMoves ==
  ASSUME Shapes, NEW t \in Tasks, Call(t)
  PROVE  LET do == Head(task[t].todo)
             q  == task'[t]
         IN  /\ Alters(t) /\ task[t].pc = "call" /\ task[t].todo # <<>>
             /\ \/ params[t].kind = "routes" /\ Accepted(t, do) /\ Works(t, do) /\ q = Onward(t)
                \/ /\ params[t].kind # "routes" /\ Accepted(t, do) /\ Works(t, do)
                   /\ q.pc = "wait" /\ q.job = Len(jobs) + 1 /\ q.result = task[t].result
                   /\ Like(q, task[t])
                \/ /\ ~Accepted(t, do) /\ UNCHANGED <<cloud, jobs>>
                   /\ q.pc = "done" /\ Like(q, task[t])
                   /\ q.result = IF do = "delete" THEN "unchanged" ELSE "failed"
                \/ /\ (Accepted(t, do) /\ Works(t, do)) \/ UNCHANGED <<cloud, jobs>>
                   /\ Like(q, task[t])
                   /\ \/ q.pc = "done" /\ q.result = "failed"
                      \/ q.pc = "call" /\ q.result = task[t].result
<1> DEFINE do == Head(task[t].todo)
<1>1. /\ task[t].pc = "call" /\ UNCHANGED <<params, start>> /\ task[t] \in Record
      /\ task[t].todo # <<>> /\ jobs \in Jobs
  BY DEF Call, Shapes, WellFormed
<1>2. CASE /\ Accepted(t, do) /\ Works(t, do)
           /\ Set(t, IF params[t].kind = "routes" THEN Onward(t)
                     ELSE [At(t, "wait") EXCEPT !.job = Len(jobs) + 1])
  <2> DEFINE w == [At(t, "wait") EXCEPT !.job = Len(jobs) + 1]
  <2>1. w.pc = "wait" /\ w.job = Len(jobs) + 1 /\ w.result = task[t].result /\ Like(w, task[t])
    <3>1. Len(jobs) + 1 \in Int /\ "wait" \in PCs
      BY <1>1, LenProperties DEF Jobs, PCs
    <3> QED BY <1>1, <3>1, AtIs, JobIs DEF Like
  <2> HIDE DEF w
  <2>2. CASE params[t].kind = "routes"
    <3>1. Set(t, Onward(t))
      BY <1>2, <2>2
    <3> QED BY <1>1, <1>2, <2>2, <3>1, SetAlters
  <2>3. CASE params[t].kind # "routes"
    <3>1. Set(t, w)
      BY <1>2, <2>3 DEF w
    <3> QED BY <1>1, <1>2, <2>1, <2>3, <3>1, SetAlters
  <2> QED BY <2>2, <2>3
<1>3. CASE /\ ~Accepted(t, do) /\ UNCHANGED <<cloud, jobs>>
           /\ Set(t, Ended(t, IF do = "delete" THEN "unchanged" ELSE "failed"))
  BY <1>1, <1>3, SetAlters, EndedLike
<1>4. ASSUME NEW f \in Faults, (Accepted(t, do) /\ Works(t, do)) \/ UNCHANGED <<cloud, jobs>>,
             Set(t, Raise(t, f))
      PROVE  /\ Alters(t) /\ Like(task'[t], task[t])
             /\ \/ task'[t].pc = "done" /\ task'[t].result = "failed"
                \/ task'[t].pc = "call" /\ task'[t].result = task[t].result
  <2>1. CASE Raise(t, f) = [task[t] EXCEPT !.tries = @ + 1]
    <3>1. task'[t] = [task[t] EXCEPT !.tries = @ + 1] /\ Alters(t)
      BY <1>1, <1>4, <2>1, SetAlters
    <3> QED BY <1>1, <3>1 DEF Record, Like
  <2>2. CASE Raise(t, f) = Ended(t, "failed")
    BY <1>1, <1>4, <2>2, SetAlters, EndedLike
  <2> QED BY <2>1, <2>2 DEF Raise
<1>5. ASSUME NEW f \in Faults, IF f.done /\ Accepted(t, do) THEN Works(t, do) ELSE UNCHANGED <<cloud, jobs>>
      PROVE  (Accepted(t, do) /\ Works(t, do)) \/ UNCHANGED <<cloud, jobs>>
  BY <1>5
<1>6. CASE \E f \in Faults : /\ IF f.done /\ Accepted(t, do) THEN Works(t, do) ELSE UNCHANGED <<cloud, jobs>>
                             /\ Set(t, Raise(t, f))
  <2> HIDE DEF do
  <2> QED BY <1>1, <1>4, <1>5, <1>6 DEF do
<1> QED BY <1>2, <1>3, <1>6, <1>1 DEF Call

LEMMA WaitMoves ==
  ASSUME Shapes, NEW t \in Tasks, Wait(t)
  PROVE  /\ Alters(t) /\ UNCHANGED <<cloud, jobs>> /\ task[t].pc = "wait"
         /\ \/ jobs[task[t].job].status = "done" /\ task'[t] = Onward(t)
            \/ task'[t].pc = "done" /\ task'[t].result = "failed" /\ Like(task'[t], task[t])
<1>1. CASE Set(t, Ended(t, "failed"))
  BY <1>1, SetAlters, EndedLike DEF Wait
<1>2. CASE jobs[task[t].job].status = "done" /\ Set(t, Onward(t))
  BY <1>2, SetAlters DEF Wait
<1> QED BY <1>1, <1>2 DEF Wait

LEMMA ReportMoves ==
  ASSUME Shapes, NEW t \in Tasks, Report(t)
  PROVE  /\ Alters(t) /\ UNCHANGED <<cloud, jobs>> /\ task[t].pc = "report"
         /\ task'[t].pc = "done" /\ Like(task'[t], task[t])
BY SetAlters, EndedLike DEF Report

LEMMA CarryMoves ==
  ASSUME Shapes, NEW j \in DOMAIN jobs, Carry(j)
  PROVE  /\ UNCHANGED <<params, task, start>> /\ DOMAIN jobs' = DOMAIN jobs
         /\ jobs[j] \in Job /\ jobs[j].status = "doing"
         /\ jobs'[j].by = jobs[j].by /\ jobs'[j].do = jobs[j].do
         /\ \A i \in DOMAIN jobs \ {j} : jobs'[i] = jobs[i]
         /\ \/ /\ jobs'[j].status = "done"
               /\ cloud'.entries = Changed(cloud.entries, jobs[j].do, jobs[j].by)
               /\ cloud'.exists = cloud.exists /\ cloud'.label = cloud.label /\ cloud'.twins = cloud.twins
            \/ jobs'[j].status = "failed" /\ UNCHANGED cloud
<1>1. jobs \in Jobs /\ cloud \in Cloud
  BY DEF Shapes
<1>2. jobs[j] \in Job
  BY <1>1 DEF Jobs
<1>3. \A s : [jobs EXCEPT ![j].status = s][j].status = s
             /\ [jobs EXCEPT ![j].status = s][j].by = jobs[j].by
             /\ [jobs EXCEPT ![j].status = s][j].do = jobs[j].do
  BY <1>1, <1>2 DEF Jobs, Job
<1>4. \A s : /\ DOMAIN [jobs EXCEPT ![j].status = s] = DOMAIN jobs
             /\ \A i \in DOMAIN jobs \ {j} : [jobs EXCEPT ![j].status = s][i] = jobs[i]
  BY <1>1 DEF Jobs
<1>5. CASE /\ jobs' = [jobs EXCEPT ![j].status = "done"]
           /\ cloud' = [cloud EXCEPT !.entries = Changed(@, jobs[j].do, jobs[j].by)]
  BY <1>1, <1>2, <1>3, <1>4, <1>5 DEF Carry, Cloud
<1>6. CASE jobs' = [jobs EXCEPT ![j].status = "failed"] /\ UNCHANGED cloud
  BY <1>1, <1>2, <1>3, <1>4, <1>6 DEF Carry
<1> QED BY <1>5, <1>6 DEF Carry


-----------------------------------------------------------------------------
(* Short sequences.                                                        *)

LEMMA Pairs ==
  ASSUME NEW a, NEW b, NEW c
  PROVE  /\ Head(<<a>>) = a /\ Tail(<<a>>) = <<>>
         /\ Head(<<a, b>>) = a /\ Tail(<<a, b>>) = <<b>>
         /\ Head(<<a, b, c>>) = a /\ Tail(<<a, b, c>>) = <<b, c>>
         /\ <<a>> \o <<b>> = <<a, b>> /\ <<a>> \o <<b, c>> = <<a, b, c>>
<1> DEFINE S == {a, b, c}
<1>1. /\ <<>> \in Seq(S) /\ <<a>> \in Seq(S) /\ <<b>> \in Seq(S) /\ <<b, c>> \in Seq(S)
      /\ <<a, b>> \in Seq(S) /\ <<a, b, c>> \in Seq(S)
  OBVIOUS
<1>2. /\ Len(<<a>>) = 1 /\ Len(<<b>>) = 1 /\ Len(<<b, c>>) = 2 /\ Len(<<a, b>>) = 2
      /\ Len(<<a, b, c>>) = 3 /\ <<a>>[1] = a /\ <<b>>[1] = b
      /\ <<b, c>>[1] = b /\ <<b, c>>[2] = c /\ <<a, b>>[1] = a /\ <<a, b>>[2] = b
      /\ <<a, b, c>>[1] = a /\ <<a, b, c>>[2] = b /\ <<a, b, c>>[3] = c
  OBVIOUS
<1> HIDE DEF S
<1>3. Head(<<a>>) = a /\ Head(<<a, b>>) = a /\ Head(<<a, b, c>>) = a
  OBVIOUS
<1>4. Tail(<<a>>) = <<>>
  <2>1. Tail(<<a>>) \in Seq(S) /\ Len(Tail(<<a>>)) = 0
    BY <1>1, <1>2, HeadTailProperties
  <2> QED BY <2>1, EmptySeq
<1>5. Tail(<<a, b>>) = <<b>>
  <2>1. /\ Tail(<<a, b>>) \in Seq(S) /\ Len(Tail(<<a, b>>)) = 1 /\ Tail(<<a, b>>)[1] = b
    BY <1>1, <1>2, HeadTailProperties
  <2> QED BY <1>1, <1>2, <2>1, SeqEqual
<1>6. Tail(<<a, b, c>>) = <<b, c>>
  <2>1. /\ Tail(<<a, b, c>>) \in Seq(S) /\ Len(Tail(<<a, b, c>>)) = 2
        /\ Tail(<<a, b, c>>)[1] = b /\ Tail(<<a, b, c>>)[2] = c
    BY <1>1, <1>2, HeadTailProperties
  <2> QED BY <1>1, <1>2, <2>1, SeqEqual
<1>7. <<a>> \o <<b>> = <<a, b>>
  <2> DEFINE s == <<a>>
             u == <<b>>
             v == <<a, b>>
  <2>1. /\ s \in Seq(S) /\ u \in Seq(S) /\ Len(s) = 1 /\ Len(u) = 1 /\ s[1] = a /\ u[1] = b
        /\ v \in Seq(S) /\ Len(v) = 2 /\ v[1] = a /\ v[2] = b
    BY <1>1, <1>2
  <2> HIDE DEF s, u, v
  <2>2. s \o u \in Seq(S) /\ Len(s \o u) = 2 /\ (s \o u)[1] = a /\ (s \o u)[2] = b
    BY <2>1, ConcatProperties
  <2>3. s \o u = v
    BY <2>1, <2>2, SeqEqual
  <2> QED BY <2>3 DEF s, u, v
<1>8. <<a>> \o <<b, c>> = <<a, b, c>>
  <2> DEFINE s == <<a>>
             u == <<b, c>>
             v == <<a, b, c>>
  <2>1. /\ s \in Seq(S) /\ u \in Seq(S) /\ Len(s) = 1 /\ Len(u) = 2
        /\ s[1] = a /\ u[1] = b /\ u[2] = c
        /\ v \in Seq(S) /\ Len(v) = 3 /\ v[1] = a /\ v[2] = b /\ v[3] = c
    BY <1>1, <1>2
  <2> HIDE DEF s, u, v
  <2>2. /\ s \o u \in Seq(S) /\ Len(s \o u) = Len(s) + Len(u)
        /\ \A i \in 1 .. Len(s) + Len(u) : (s \o u)[i] = IF i <= Len(s) THEN s[i] ELSE u[i - Len(s)]
    BY <2>1, ConcatProperties, Zenon
  <2>3. \A i \in 1 .. 3 : (s \o u)[i] = v[i]
    <3>1. \A i \in 1 .. 3 : i = 1 \/ i = 2 \/ i = 3
      OBVIOUS
    <3>2. (s \o u)[1] = s[1] /\ (s \o u)[2] = u[1] /\ (s \o u)[3] = u[2]
      BY <2>1, <2>2
    <3> QED BY <2>1, <3>1, <3>2
  <2>4. s \o u = v
    BY <2>1, <2>2, <2>3, SeqEqual
  <2> QED BY <2>4 DEF s, u, v
<1> QED BY <1>3, <1>4, <1>5, <1>6, <1>7, <1>8

LEMMA ConcatNothing == ASSUME NEW s \in Seq(Verbs) PROVE s \o <<>> = s /\ <<>> \o s = s
BY ConcatEmptySeq


-----------------------------------------------------------------------------
(***************************************************************************)
(* Tasks and jobs in order.  A task begins when those the play runs before *)
(* it have ended; a job of the load balancer outlives the task that gave   *)
(* it up, and a task is calm that began with no such job open.             *)
(***************************************************************************)
Turns == \A t \in Tasks : task[t].pc # "start" => \A u \in params[t].after : task[u].pc = "done"

Bulks == {<<>>, <<"add">>, <<"remove">>, <<"add", "remove">>}

\* What a task on a listener means to do.
Bulk(t) ==
  params[t].kind = "targets" =>
    /\ task[t].todo \in Bulks
    /\ task[t].add \subseteq Has(params[t].want)
    /\ params[t].state = "present" => task[t].remove \cap Has(params[t].want) = {}
    /\ params[t].state = "present" /\ ~params[t].purge => task[t].remove = {}
    /\ task[t].todo \in {<<"remove">>, <<"add", "remove">>} => task[t].remove # {}

\* A job was posted by a task on a listener, which is waiting for it or went on.
Posted(j) ==
  /\ params[jobs[j].by].kind = "targets" /\ jobs[j].do \in {"add", "remove"}
  /\ task[jobs[j].by].pc \notin {"start", "find"}

Waits(t) ==
  task[t].pc = "wait" =>
    /\ params[t].kind = "targets"
    /\ task[t].job \in DOMAIN jobs /\ jobs[task[t].job].by = t
    /\ jobs[task[t].job].do = Head(task[t].todo)

\* While a job is open no calm task begins after the one that posted it.
Calm(t) ==
  /\ task[t].pc = "start" => task[t].calm
  /\ task[t].calm /\ task[t].pc # "start" =>
       \A j \in DOMAIN jobs : jobs[j].status = "doing" => jobs[j].by \notin params[t].after

Ordered(t) ==
  /\ Bulk(t) /\ Waits(t) /\ Calm(t)
  /\ task[t].pc \in {"call", "wait", "report"} => ~params[t].check /\ task[t].result = "none"
  /\ task[t].pc \in {"start", "find"} => task[t].result = "none"

OInv == IInv /\ Turns /\ (\A j \in DOMAIN jobs : Posted(j)) /\ (\A t \in Tasks : Ordered(t))

LEMMA OrderTargets ==
  ASSUME NEW p, NEW d, p.kind = "targets"
  PROVE  Order(p, d) = IF d.add = {} THEN IF d.remove = {} THEN <<>> ELSE <<"remove">>
                       ELSE IF d.remove = {} THEN <<"add">> ELSE <<"add", "remove">>
<1>1. /\ <<>> \o <<>> = <<>> /\ <<>> \o <<"remove">> = <<"remove">>
      /\ <<"add">> \o <<>> = <<"add">> /\ <<"add">> \o <<"remove">> = <<"add", "remove">>
  <2>1. "add" \in Verbs /\ "remove" \in Verbs
    BY DEF Verbs
  <2>2. <<>> \in Seq(Verbs) /\ <<"add">> \in Seq(Verbs) /\ <<"remove">> \in Seq(Verbs)
    BY <2>1, Single, EmptySeq
  <2> QED BY <2>2, ConcatNothing, Pairs
<1> QED BY <1>1, Zenon DEF Order

LEMMA DiffTargets ==
  ASSUME NEW p \in Param, p.kind = "targets", NEW entries
  PROVE  LET d == Diff(p, entries)
         IN  /\ d.add \subseteq Has(p.want)
             /\ p.state = "present" => d.remove \cap Has(p.want) = {}
             /\ p.state = "present" /\ ~p.purge => d.remove = {}
             /\ p.state = "present" => Has(p.want) \subseteq Has(entries) \cup d.add
BY DEF Diff, Has, Purged, Own, Param

\* The plan for a listener.
LEMMA PlanTargets ==
  ASSUME Shapes, NEW t \in Tasks, params[t].kind = "targets"
  PROVE  LET q == Plan(t)
             d == Diff(params[t], cloud.entries)
         IN  /\ q.calm = task[t].calm
             /\ \/ /\ q.pc = "done" /\ Like(q, task[t])
                   /\ \/ d.add = {} /\ d.remove = {} /\ q.result = "unchanged"
                      \/ params[t].check /\ q.result = "changed"
                \/ /\ ~params[t].check /\ q.pc = "call" /\ q.result = task[t].result
                   /\ q.add = d.add /\ q.remove = d.remove /\ q.seen = cloud.entries
                   /\ q.todo = Order(params[t], d) /\ q.todo \in Bulks \ {<<>>}
                   /\ q.todo \in {<<"remove">>, <<"add", "remove">>} => q.remove # {}
                   /\ q.todo = <<"remove">> => q.add = {}
<1> DEFINE d == Diff(params[t], cloud.entries)
           calls == Order(params[t], d)
<1>1. d \in [add : SUBSET Keys, remove : SUBSET Keys] /\ calls \in Seq(Verbs)
  BY DiffTyped, OrderGentle DEF Shapes
<1>2. calls = IF d.add = {} THEN IF d.remove = {} THEN <<>> ELSE <<"remove">>
              ELSE IF d.remove = {} THEN <<"add">> ELSE <<"add", "remove">>
  BY OrderTargets
<1>3. Plan(t) = Decide(t, calls, d)
  BY DEF Plan
<1> HIDE DEF calls, d
<1>4. /\ calls \in Bulks
      /\ calls = <<>> <=> d.add = {} /\ d.remove = {}
      /\ calls \in {<<"remove">>, <<"add", "remove">>} => d.remove # {}
      /\ calls = <<"remove">> => d.add = {}
  BY <1>2 DEF Bulks
<1> DEFINE q == Decide(t, calls, d)
<1>5. /\ q.calm = task[t].calm
      /\ \/ /\ q.pc = "done" /\ Like(q, task[t])
            /\ \/ calls = <<>> /\ q.result = "unchanged"
               \/ calls # <<>> /\ params[t].check /\ q.result = "changed"
         \/ /\ calls # <<>> /\ ~params[t].check
            /\ q.pc = "call" /\ q.todo = calls /\ q.add = d.add /\ q.remove = d.remove
            /\ q.seen = cloud.entries /\ q.result = task[t].result
  BY <1>1, DecideIs
<1> HIDE DEF q
<1>6. /\ q.calm = task[t].calm
      /\ \/ /\ q.pc = "done" /\ Like(q, task[t])
            /\ \/ d.add = {} /\ d.remove = {} /\ q.result = "unchanged"
               \/ params[t].check /\ q.result = "changed"
         \/ /\ ~params[t].check /\ q.pc = "call" /\ q.result = task[t].result
            /\ q.add = d.add /\ q.remove = d.remove /\ q.seen = cloud.entries
            /\ q.todo = calls /\ q.todo \in Bulks \ {<<>>}
            /\ q.todo \in {<<"remove">>, <<"add", "remove">>} => q.remove # {}
            /\ q.todo = <<"remove">> => q.add = {}
  BY <1>4, <1>5
<1> QED BY <1>3, <1>6 DEF q, calls, d

LEMMA OnwardTargets ==
  ASSUME Shapes, NEW t \in Tasks, task[t].pc \in {"call", "wait"}, task[t].todo \in Bulks
  PROVE  LET q == Onward(t)
         IN  /\ q.add = task[t].add /\ q.remove = task[t].remove /\ q.calm = task[t].calm
             /\ q.seen = task[t].seen /\ q.result = task[t].result
             /\ \/ task[t].todo = <<"add", "remove">> /\ q.pc = "call" /\ q.todo = <<"remove">>
                \/ task[t].todo \in {<<"add">>, <<"remove">>} /\ q.pc = "report" /\ q.todo = task[t].todo
<1> DEFINE q    == Onward(t)
           todo == task[t].todo
<1>1. task[t].todo # <<>>
  BY DEF Shapes, WellFormed
<1>0. /\ q.add = task[t].add /\ q.remove = task[t].remove /\ q.seen = task[t].seen
      /\ q.calm = task[t].calm
      /\ \/ /\ Head(todo) = "delete" \/ todo = <<"create">>
            /\ q.pc = "done" /\ q.result = "changed" /\ q.todo = todo
         \/ /\ Head(todo) # "delete" /\ todo # <<"create">> /\ Tail(todo) = <<>>
            /\ q.pc = "report" /\ q.result = task[t].result /\ q.todo = todo
         \/ /\ Head(todo) # "delete" /\ Tail(todo) # <<>>
            /\ q.pc = "call" /\ q.result = task[t].result /\ q.todo = Tail(todo)
  BY OnwardIs
<1> HIDE DEF q
<1>2. CASE task[t].todo = <<"add", "remove">>
  <2>1. /\ Head(task[t].todo) = "add" /\ Tail(task[t].todo) = <<"remove">>
        /\ task[t].todo # <<"create">> /\ <<"remove">> # <<>>
    BY <1>2, Pairs
  <2> QED BY <1>0, <1>2, <2>1 DEF q
<1>3. CASE task[t].todo = <<"add">> \/ task[t].todo = <<"remove">>
  <2>0. /\ Head(<<"add">>) = "add" /\ Head(<<"remove">>) = "remove" /\ Head(<<"create">>) = "create"
        /\ Tail(<<"add">>) = <<>> /\ Tail(<<"remove">>) = <<>>
    BY Pairs
  <2>1. Head(todo) \in {"add", "remove"} /\ Tail(todo) = <<>> /\ todo # <<"create">>
    BY <1>3, <2>0
  <2>2. q.pc = "report" /\ q.result = task[t].result /\ q.todo = todo
    <3> HIDE DEF todo
    <3> QED BY <1>0, <2>1
  <2> QED BY <1>0, <1>3, <2>2 DEF q
<1> QED BY <1>1, <1>2, <1>3 DEF Bulks


\* New jobs are calls of t.
Grows(t) ==
  /\ DOMAIN jobs \subseteq DOMAIN jobs'
  /\ \A i \in DOMAIN jobs : jobs'[i] = jobs[i]
  /\ \A j \in DOMAIN jobs' \ DOMAIN jobs :
       /\ params[t].kind = "targets" /\ task[t].pc = "call"
       /\ jobs'[j] = [by |-> t, do |-> Head(task[t].todo), status |-> "doing"]

LEMMA WorksGrow ==
  ASSUME Shapes, NEW t \in Tasks, task[t].pc = "call",
         Works(t, Head(task[t].todo)) \/ UNCHANGED <<cloud, jobs>>
  PROVE  /\ Grows(t)
         /\ params[t].kind = "targets" => UNCHANGED cloud
         /\ params[t].kind = "targets" /\ Works(t, Head(task[t].todo)) =>
              /\ Len(jobs) + 1 \in DOMAIN jobs'
              /\ jobs'[Len(jobs) + 1] = [by |-> t, do |-> Head(task[t].todo), status |-> "doing"]
<1> DEFINE new == [by |-> t, do |-> Head(task[t].todo), status |-> "doing"]
<1>1. jobs \in Seq(Job) /\ Len(jobs) \in Nat /\ DOMAIN jobs = 1 .. Len(jobs)
  BY LenProperties DEF Shapes, Jobs
<1>4. new \in Job
  <2>1. task[t].todo \in Seq(Verbs) /\ task[t].todo # <<>>
    BY DEF Shapes, WellFormed, Record
  <2>2. Head(task[t].todo) \in Verbs
    BY <2>1, HeadTailProperties
  <2> QED BY <2>2 DEF Job
<1> HIDE DEF new
<1>5. /\ Append(jobs, new) \in Seq(Job) /\ Len(Append(jobs, new)) = Len(jobs) + 1
      /\ \A i \in 1 .. Len(jobs) : Append(jobs, new)[i] = jobs[i]
      /\ Append(jobs, new)[Len(jobs) + 1] = new
  BY <1>1, <1>4, AppendProperties
<1>2. CASE UNCHANGED jobs
  <2>1. ~(params[t].kind = "targets" /\ Works(t, Head(task[t].todo)))
    <3>1. jobs' # Append(jobs, new)
      <4>1. \A n \in Nat : \A m : m = n + 1 => m # n
        OBVIOUS
      <4>2. Len(Append(jobs, new)) # Len(jobs)
        BY <1>1, <1>5, <4>1, Zenon
      <4> QED BY <1>2, <4>2, Zenon
    <3> USE DEF new
    <3> QED BY <3>1 DEF Works
  <2> QED BY <1>2, <2>1 DEF Grows, Works
<1>3. CASE ~UNCHANGED jobs
  <2>1. params[t].kind = "targets" /\ jobs' = Append(jobs, new) /\ UNCHANGED cloud
    BY <1>3 DEF Works, new
  <2>2. jobs' \in Seq(Job) /\ Len(jobs') = Len(jobs) + 1
    BY <1>5, <2>1, Zenon
  <2>3. DOMAIN jobs' = 1 .. Len(jobs')
    BY <2>2, LenProperties
  <2>4. DOMAIN jobs' = 1 .. Len(jobs) + 1
    BY <2>2, <2>3
  <2>5. jobs'[Len(jobs) + 1] = new /\ \A i \in 1 .. Len(jobs) : jobs'[i] = jobs[i]
    BY <1>5, <2>1, Zenon
  <2>6. DOMAIN jobs \subseteq DOMAIN jobs' /\ DOMAIN jobs' \ DOMAIN jobs \subseteq {Len(jobs) + 1}
    BY <1>1, <2>4
  <2>7. Len(jobs) + 1 \in DOMAIN jobs'
    BY <1>1, <2>4
  <2>8. \A i \in DOMAIN jobs : jobs'[i] = jobs[i]
    BY <1>1, <2>5, Zenon
  <2>9. \A j \in DOMAIN jobs' \ DOMAIN jobs : jobs'[j] = new
    BY <2>5, <2>6, Zenon
  <2> QED BY <2>1, <2>5, <2>6, <2>7, <2>8, <2>9, Zenon DEF Grows, new
<1> QED BY <1>2, <1>3

LEMMA JobTyped == ASSUME Shapes, NEW j \in DOMAIN jobs PROVE jobs[j] \in Job
BY DEF Shapes, Jobs

LEMMA BulkHead ==
  ASSUME Shapes, NEW t \in Tasks, task[t].pc \in {"call", "wait"}, Bulk(t), params[t].kind = "targets"
  PROVE  /\ task[t].todo \in {<<"add">>, <<"remove">>, <<"add", "remove">>}
         /\ Head(task[t].todo) = IF task[t].todo = <<"remove">> THEN "remove" ELSE "add"
<1>1. task[t].todo # <<>>
  BY DEF Shapes, WellFormed
<1>2. Head(<<"add">>) = "add" /\ Head(<<"remove">>) = "remove" /\ Head(<<"add", "remove">>) = "add"
  BY Pairs
<1>3. CASE task[t].todo = <<"remove">>
  BY <1>2, <1>3
<1>4. CASE task[t].todo = <<"add">>
  BY <1>2, <1>4
<1>5. CASE task[t].todo = <<"add", "remove">>
  BY <1>2, <1>5
<1> QED BY <1>1, <1>3, <1>4, <1>5 DEF Bulk, Bulks

\* A step of a task that keeps its own place in the order keeps the order.
LEMMA TaskOrdered ==
  ASSUME OInv, IInv', NEW t \in Tasks, Alters(t), Grows(t), task[t].pc # "done",
         task'[t].pc # "start",
         task[t].pc = "start" => \A u \in params[t].after : task[u].pc = "done",
         task'[t].pc = "find" => task[t].pc = "start",
         Ordered(t)'
  PROVE  OInv'
<1>0. Shapes /\ \A u \in Tasks : params[u].after \subseteq Tasks
  BY DEF OInv, IInv, Shapes, Param
<1>1. Turns'
  <2>1. ASSUME NEW u \in Tasks, task'[u].pc # "start", NEW w \in params[u].after
        PROVE  task'[w].pc = "done"
    <3>1. w \in Tasks /\ task[w].pc = "done"
      BY <1>0, <2>1 DEF OInv, Turns, Alters
    <3> QED BY <3>1 DEF Alters
  <2> QED BY <2>1 DEF Turns, Alters
<1>2. ASSUME NEW j \in DOMAIN jobs' PROVE Posted(j)'
  <2>1. CASE j \in DOMAIN jobs
    <3>1. Posted(j) /\ jobs'[j] = jobs[j]
      BY <2>1 DEF OInv, Grows
    <3>2. jobs[j].by \in Tasks
      BY <1>0, <2>1, JobTyped DEF Job
    <3> QED BY <3>1, <3>2 DEF Posted, Alters
  <2>2. CASE j \notin DOMAIN jobs
    <3>1. /\ jobs'[j].by = t /\ jobs'[j].do = Head(task[t].todo)
          /\ params[t].kind = "targets" /\ task[t].pc = "call"
      BY <1>2, <2>2 DEF Grows
    <3>2. Head(task[t].todo) \in {"add", "remove"}
      BY <1>0, <3>1, BulkHead DEF OInv, Ordered
    <3> QED BY <3>1, <3>2 DEF Posted, Alters
  <2> QED BY <2>1, <2>2
<1>3. ASSUME NEW u \in Tasks \ {t} PROVE Ordered(u)'
  <2>1. Ordered(u) /\ task'[u] = task[u] /\ params'[u] = params[u]
    BY DEF OInv, Alters
  <2>2. Bulk(u)'
    BY <2>1 DEF Ordered, Bulk
  <2>3. Waits(u)'
    BY <2>1 DEF Ordered, Waits, Grows
  <2>4. Calm(u)'
    <3>1. ASSUME task[u].calm, task[u].pc # "start", NEW j \in DOMAIN jobs', jobs'[j].status = "doing"
          PROVE  jobs'[j].by \notin params[u].after
      <4>1. CASE j \in DOMAIN jobs
        BY <2>1, <3>1, <4>1 DEF Ordered, Calm, Grows
      <4>2. CASE j \notin DOMAIN jobs
        <5>1. jobs'[j].by = t /\ task[t].pc = "call"
          BY <3>1, <4>2 DEF Grows
        <5> QED BY <3>1, <5>1 DEF OInv, Turns
      <4> QED BY <4>1, <4>2
    <3> QED BY <2>1, <3>1 DEF Ordered, Calm
  <2> QED BY <2>1, <2>2, <2>3, <2>4 DEF Ordered
<1> QED BY <1>1, <1>2, <1>3 DEF OInv


\* Whatever the plan, it is a decision on some calls.
LEMMA PlanDecides ==
  ASSUME Shapes, NEW t \in Tasks
  PROVE  \E calls \in Seq(Verbs), d \in [add : SUBSET Keys, remove : SUBSET Keys] :
           Plan(t) = Decide(t, calls, d)
<1> DEFINE p == params[t]
           d == Diff(p, cloud.entries)
           n == Diff(p, NoEntries)
           name == IF cloud.label = p.label THEN <<>> ELSE <<"label">>
<1>1. d \in [add : SUBSET Keys, remove : SUBSET Keys] /\ n \in [add : SUBSET Keys, remove : SUBSET Keys]
  BY DiffTyped DEF Shapes
<1>2. Order(p, d) \in Seq(Verbs) /\ Order(p, n) \in Seq(Verbs)
  BY OrderGentle
<1>3. \A v \in Verbs : <<v>> \in Seq(Verbs)
  BY Single
<1>4. name \in Seq(Verbs) /\ <<"create">> \in Seq(Verbs) /\ <<"delete">> \in Seq(Verbs) /\ <<>> \in Seq(Verbs)
  <2>1. <<"create">> \in Seq(Verbs) /\ <<"delete">> \in Seq(Verbs) /\ <<"label">> \in Seq(Verbs)
    BY <1>3 DEF Verbs
  <2>2. <<>> \in Seq(Verbs)
    BY EmptySeq
  <2> QED BY <2>1, <2>2, Zenon
<1>5. name \o Order(p, d) \in Seq(Verbs) /\ <<"create">> \o Order(p, n) \in Seq(Verbs)
  BY <1>2, <1>4, ConcatProperties
<1> HIDE DEF d, n, name
<1>6. \/ Plan(t) = Decide(t, Order(p, d), d)
      \/ Plan(t) = Decide(t, <<"delete">>, d)
      \/ Plan(t) = Decide(t, <<>>, d)
      \/ Plan(t) = Decide(t, name \o Order(p, d), d)
      \/ Plan(t) = Decide(t, <<"create">> \o Order(p, n), n)
  BY Zenon DEF Plan, d, n, name
<1> QED BY <1>1, <1>2, <1>4, <1>5, <1>6, Zenon

LEMMA PlanMoves ==
  ASSUME Shapes, NEW t \in Tasks
  PROVE  LET q == Plan(t)
         IN  /\ q.calm = task[t].calm
             /\ \/ q.pc = "done" /\ Like(q, task[t])
                     /\ (q.result = "unchanged" \/ (params[t].check /\ q.result = "changed"))
                \/ q.pc = "call" /\ ~params[t].check /\ q.result = task[t].result
<1>1. \A calls \in Seq(Verbs), d \in [add : SUBSET Keys, remove : SUBSET Keys] :
        LET q == Decide(t, calls, d)
        IN  /\ q.calm = task[t].calm
            /\ \/ q.pc = "done" /\ Like(q, task[t])
                    /\ (q.result = "unchanged" \/ (params[t].check /\ q.result = "changed"))
               \/ q.pc = "call" /\ ~params[t].check /\ q.result = task[t].result
  <2>1. ASSUME NEW calls \in Seq(Verbs), NEW d \in [add : SUBSET Keys, remove : SUBSET Keys]
        PROVE  LET q == Decide(t, calls, d)
               IN  /\ q.calm = task[t].calm
                   /\ \/ q.pc = "done" /\ Like(q, task[t])
                           /\ (q.result = "unchanged" \/ (params[t].check /\ q.result = "changed"))
                      \/ q.pc = "call" /\ ~params[t].check /\ q.result = task[t].result
    BY DecideIs
  <2> QED BY <2>1, Zenon
<1>2. PICK calls \in Seq(Verbs), d \in [add : SUBSET Keys, remove : SUBSET Keys] : Plan(t) = Decide(t, calls, d)
  BY PlanDecides
<1> QED BY <1>1, <1>2, Zenon

LEMMA StartOrdered == ASSUME OInv, IInv', NEW t \in Tasks, Start(t) PROVE OInv'
<1>0. Shapes /\ Ordered(t)
  BY DEF OInv, IInv
<1>1. /\ Alters(t) /\ UNCHANGED <<cloud, jobs>>
      /\ task[t].pc = "start" /\ task'[t].pc = "find"
      /\ \A u \in params[t].after : task[u].pc = "done"
      /\ task'[t].calm = (\A j \in DOMAIN jobs : jobs[j].status # "doing")
      /\ task'[t].result = task[t].result
      /\ task'[t].todo = task[t].todo /\ task'[t].add = task[t].add
      /\ task'[t].remove = task[t].remove
  BY <1>0, StartMoves
<1>2. Ordered(t)'
  BY <1>0, <1>1 DEF Ordered, Bulk, Waits, Calm, Alters
<1>3. Grows(t)
  BY <1>1 DEF Grows
<1> QED BY <1>1, <1>2, <1>3, TaskOrdered

\* A task that moved on with the plan it had, posting nothing.
LEMMA QuietOrdered ==
  ASSUME OInv, IInv', NEW t \in Tasks, Alters(t), UNCHANGED jobs, Like(task'[t], task[t]),
         task[t].pc \in {"find", "call", "wait", "report"}, task'[t].pc \in {"done", "report"},
         task'[t].pc = "report" => ~params[t].check /\ task'[t].result = "none"
  PROVE  OInv'
<1>1. Ordered(t)'
  BY DEF OInv, Ordered, Bulk, Waits, Calm, Alters, Like
<1>2. Grows(t)
  BY DEF Grows
<1> QED BY <1>1, <1>2, TaskOrdered

LEMMA FindOrdered == ASSUME OInv, IInv', NEW t \in Tasks, Find(t) PROVE OInv'
<1>0. Shapes /\ Ordered(t)
  BY DEF OInv, IInv
<1>1. /\ Alters(t) /\ UNCHANGED <<cloud, jobs>> /\ task[t].pc = "find"
      /\ \/ task'[t] = Plan(t)
         \/ task'[t].pc = "done" /\ task'[t].result = "failed" /\ Like(task'[t], task[t])
  BY <1>0, FindMoves
<1>2. CASE task'[t].pc = "done" /\ Like(task'[t], task[t])
  BY <1>1, <1>2, QuietOrdered
<1>3. CASE task'[t] = Plan(t) /\ ~(task'[t].pc = "done" /\ Like(task'[t], task[t]))
  <2> DEFINE q == task'[t]
  <2>1. q.calm = task[t].calm /\ q.pc = "call" /\ ~params[t].check /\ q.result = "none"
    BY <1>0, <1>1, <1>3, PlanMoves DEF Ordered
  <2>2. Bulk(t)'
    <3>1. CASE params[t].kind = "targets"
      <4>1. /\ q.add = Diff(params[t], cloud.entries).add /\ q.remove = Diff(params[t], cloud.entries).remove
            /\ q.todo \in Bulks
            /\ q.todo \in {<<"remove">>, <<"add", "remove">>} => q.remove # {}
        BY <1>0, <1>3, <2>1, <3>1, PlanTargets
      <4>2. params[t] \in Param
        BY <1>0 DEF Shapes
      <4> HIDE DEF q
      <4>3. /\ q.add \subseteq Has(params[t].want)
            /\ params[t].state = "present" => q.remove \cap Has(params[t].want) = {}
            /\ params[t].state = "present" /\ ~params[t].purge => q.remove = {}
        BY <3>1, <4>1, <4>2, DiffTargets
      <4> QED BY <1>1, <4>1, <4>3 DEF Bulk, Alters, q
    <3>2. CASE params[t].kind # "targets"
      BY <1>1, <3>2 DEF Bulk, Alters
    <3> QED BY <3>1, <3>2
  <2>3. Ordered(t)'
    BY <1>0, <1>1, <2>1, <2>2 DEF Ordered, Waits, Calm, Alters
  <2>4. Grows(t)
    BY <1>1 DEF Grows
  <2> QED BY <1>1, <2>1, <2>3, <2>4, TaskOrdered
<1> QED BY <1>1, <1>2, <1>3

\* The next call, after one that worked.
LEMMA OnwardOrdered ==
  ASSUME OInv, IInv', NEW t \in Tasks, Alters(t), UNCHANGED jobs,
         task[t].pc \in {"call", "wait"}, task'[t] = Onward(t)
  PROVE  OInv'
<1>0. Shapes /\ Ordered(t)
  BY DEF OInv, IInv
<1> DEFINE q == task'[t]
<1>1. /\ q.add = task[t].add /\ q.remove = task[t].remove /\ q.calm = task[t].calm
      /\ q.pc \in {"call", "report", "done"}
      /\ q.pc # "done" => q.result = "none"
  BY <1>0, OnwardIs DEF Ordered
<1>2. Bulk(t)'
  <2>1. CASE params[t].kind = "targets"
    <3>1. task[t].todo \in Bulks
      BY <1>0, <2>1 DEF Ordered, Bulk
    <3>2. q.todo = task[t].todo \/ (task[t].todo = <<"add", "remove">> /\ q.todo = <<"remove">>)
      BY <1>0, <3>1, OnwardTargets
    <3>3. q.todo \in Bulks /\ (q.todo \in {<<"remove">>, <<"add", "remove">>} => q.remove # {})
      BY <1>0, <1>1, <2>1, <3>2 DEF Ordered, Bulk, Bulks
    <3> QED BY <1>0, <1>1, <3>3 DEF Ordered, Bulk, Alters
  <2>2. CASE params[t].kind # "targets"
    BY <2>2 DEF Bulk, Alters
  <2> QED BY <2>1, <2>2
<1>3. Ordered(t)'
  BY <1>0, <1>1, <1>2 DEF Ordered, Waits, Calm, Alters
<1>4. Grows(t)
  BY DEF Grows
<1> QED BY <1>1, <1>3, <1>4, TaskOrdered

LEMMA CallOrdered == ASSUME OInv, IInv', NEW t \in Tasks, Call(t) PROVE OInv'
<1> DEFINE do == Head(task[t].todo)
           q  == task'[t]
<1>0. Shapes /\ Ordered(t)
  BY DEF OInv, IInv
<1>1. Alters(t) /\ task[t].pc = "call" /\ task[t].todo # <<>>
  BY <1>0, CallMoves
<1>2. CASE params[t].kind = "routes" /\ Works(t, do) /\ q = Onward(t)
  <2>1. UNCHANGED jobs
    BY <1>2 DEF Works
  <2> QED BY <1>1, <1>2, <2>1, OnwardOrdered
<1>3. CASE /\ Works(t, do) \/ UNCHANGED <<cloud, jobs>>
           /\ Like(q, task[t]) /\ q.pc \in {"done", "call"}
           /\ q.pc = "call" => q.result = task[t].result
  <2>1. Grows(t)
    BY <1>0, <1>1, <1>3, WorksGrow
  <2>2. Calm(t)'
    <3>1. ASSUME NEW j \in DOMAIN jobs' \ DOMAIN jobs PROVE jobs'[j].by \notin params[t].after
      BY <1>1, <2>1 DEF Grows, OInv, Turns
    <3> QED BY <1>0, <1>1, <1>3, <2>1, <3>1 DEF Ordered, Calm, Like, Alters, Grows
  <2>3. Ordered(t)'
    BY <1>0, <1>1, <1>3, <2>2 DEF Ordered, Bulk, Waits, Like, Alters
  <2> QED BY <1>1, <1>3, <2>1, <2>3, TaskOrdered
<1>4. CASE /\ params[t].kind = "targets" /\ Works(t, do)
           /\ q.pc = "wait" /\ q.job = Len(jobs) + 1 /\ q.result = task[t].result
           /\ Like(q, task[t])
  <2>1. /\ Grows(t)
        /\ Len(jobs) + 1 \in DOMAIN jobs'
        /\ jobs'[Len(jobs) + 1] = [by |-> t, do |-> do, status |-> "doing"]
    BY <1>0, <1>1, <1>4, WorksGrow
  <2>2. Calm(t)'
    <3>1. ASSUME NEW j \in DOMAIN jobs' \ DOMAIN jobs PROVE jobs'[j].by \notin params[t].after
      BY <1>1, <2>1 DEF Grows, OInv, Turns
    <3> QED BY <1>0, <1>1, <1>4, <2>1, <3>1 DEF Ordered, Calm, Like, Alters, Grows
  <2>3. Waits(t)'
    BY <1>1, <1>4, <2>1 DEF Waits, Like, Alters
  <2>4. Ordered(t)'
    BY <1>0, <1>1, <1>4, <2>2, <2>3 DEF Ordered, Bulk, Like, Alters
  <2> QED BY <1>1, <1>4, <2>1, <2>4, TaskOrdered
<1>5. params[t].kind \in {"routes", "targets"}
  BY <1>0 DEF Shapes, Param
<1> HIDE DEF q, do
<1>6. \/ params[t].kind = "routes" /\ Works(t, do) /\ q = Onward(t)
      \/ /\ params[t].kind # "routes" /\ Works(t, do)
         /\ q.pc = "wait" /\ q.job = Len(jobs) + 1 /\ q.result = task[t].result
         /\ Like(q, task[t])
      \/ /\ Works(t, do) \/ UNCHANGED <<cloud, jobs>>
         /\ Like(q, task[t]) /\ q.pc \in {"done", "call"}
         /\ q.pc = "call" => q.result = task[t].result
  BY <1>0, CallMoves DEF q, do
<1> QED BY <1>2, <1>3, <1>4, <1>5, <1>6

LEMMA WaitOrdered == ASSUME OInv, IInv', NEW t \in Tasks, Wait(t) PROVE OInv'
<1>0. Shapes
  BY DEF OInv, IInv
<1>1. /\ Alters(t) /\ UNCHANGED <<cloud, jobs>> /\ task[t].pc = "wait"
      /\ \/ task'[t] = Onward(t)
         \/ task'[t].pc = "done" /\ Like(task'[t], task[t])
  BY <1>0, WaitMoves
<1> QED BY <1>1, OnwardOrdered, QuietOrdered

LEMMA ReportOrdered == ASSUME OInv, IInv', NEW t \in Tasks, Report(t) PROVE OInv'
BY ReportMoves, QuietOrdered DEF OInv, IInv

LEMMA CarryOrdered == ASSUME OInv, IInv', NEW j \in DOMAIN jobs, Carry(j) PROVE OInv'
<1>0. Shapes
  BY DEF OInv, IInv
<1>1. /\ UNCHANGED <<params, task, start>> /\ DOMAIN jobs' = DOMAIN jobs
      /\ jobs[j].status = "doing" /\ jobs'[j].status # "doing"
      /\ \A i \in DOMAIN jobs : jobs'[i].by = jobs[i].by /\ jobs'[i].do = jobs[i].do
                                /\ (jobs'[i].status = "doing" => jobs[i].status = "doing")
  BY <1>0, CarryMoves
<1>2. Turns' /\ \A i \in DOMAIN jobs' : Posted(i)'
  BY <1>1 DEF OInv, Turns, Posted
<1>3. ASSUME NEW t \in Tasks PROVE Ordered(t)'
  <2>1. Ordered(t)
    BY DEF OInv
  <2> QED BY <1>1, <2>1 DEF Ordered, Bulk, Waits, Calm
<1> QED BY <1>2, <1>3 DEF OInv

LEMMA OrderInit == Init => OInv
<1> SUFFICES ASSUME Init PROVE OInv
  OBVIOUS
<1>1. IInv
  BY InitInv
<1>2. Turns /\ \A j \in DOMAIN jobs : Posted(j)
  BY DEF Init, Turns, Begun
<1>3. ASSUME NEW t \in Tasks PROVE Ordered(t)
  BY <1>3 DEF Init, Begun, Ordered, Bulk, Bulks, Waits, Calm
<1> QED BY <1>1, <1>2, <1>3 DEF OInv

LEMMA OrderStep == OInv /\ [Next]_vars => OInv'
<1> SUFFICES ASSUME OInv, [Next]_vars PROVE OInv'
  OBVIOUS
<1>1. IInv'
  BY NextInv DEF OInv
<1>2. CASE UNCHANGED vars
  BY <1>1, <1>2 DEF vars, OInv, Turns, Posted, Ordered, Bulk, Waits, Calm
<1>3. CASE Next
  BY <1>1, <1>3, StartOrdered, FindOrdered, CallOrdered, WaitOrdered, ReportOrdered, CarryOrdered
     DEF Next
<1> QED BY <1>2, <1>3


-----------------------------------------------------------------------------
(***************************************************************************)
(* Tasks that only add.  None has anything to remove, so entries only      *)
(* come; a task is stocked from the moment its job is done.                *)
(***************************************************************************)
Adding ==
  \A t \in Tasks : params[t].kind = "targets" /\ params[t].state = "present" /\ ~params[t].purge

Stocked(t) == \A k \in Has(params[t].want) : cloud.entries[k] # None

\* What a task lists is there or is to be added, and is there when it says so.
Registers(t) ==
  /\ task[t].pc \in {"call", "wait"} =>
       \A k \in Has(params[t].want) : cloud.entries[k] # None \/ k \in task[t].add
  /\ task[t].pc = "wait" /\ jobs[task[t].job].status = "done" => Stocked(t)
  /\ task[t].pc = "report" \/ (task[t].result = "changed" /\ ~params[t].check) => Stocked(t)

AInv == OInv /\ (Adding => \A t \in Tasks : Registers(t))

LEMMA AddingPlans ==
  ASSUME OInv, Adding, NEW t \in Tasks
  PROVE  /\ params[t].kind = "targets" /\ params[t].state = "present" /\ params[t] \in Param
         /\ task[t].remove = {} /\ task[t].todo \in {<<>>, <<"add">>}
         /\ task[t].add \subseteq Has(params[t].want)
BY DEF OInv, IInv, Shapes, Ordered, Bulk, Bulks, Adding

\* A step of t that leaves the listener as it is.
LEMMA AddingTask ==
  ASSUME AInv, Adding, OInv', NEW t \in Tasks, Alters(t), Grows(t), UNCHANGED cloud, Registers(t)'
  PROVE  AInv'
<1>1. ASSUME NEW u \in Tasks \ {t} PROVE Registers(u)'
  <2>1. Registers(u) /\ Waits(u) /\ task'[u] = task[u] /\ params' = params
    BY DEF AInv, OInv, Ordered, Alters
  <2> QED BY <2>1 DEF Registers, Waits, Stocked, Has, Grows
<1> QED BY <1>1 DEF AInv

LEMMA AddingFind ==
  ASSUME AInv, Adding, OInv', NEW t \in Tasks, Find(t)
  PROVE  AInv'
<1>0. Shapes /\ Ordered(t) /\ Registers(t)
  BY DEF AInv, OInv, IInv
<1>1. /\ Alters(t) /\ UNCHANGED <<cloud, jobs>> /\ task[t].pc = "find"
      /\ \/ task'[t] = Plan(t)
         \/ task'[t].pc = "done" /\ task'[t].result = "failed"
  BY <1>0, FindMoves
<1>2. params[t].kind = "targets" /\ params[t].state = "present" /\ params[t] \in Param
  BY AddingPlans DEF AInv
<1>3. CASE task'[t] = Plan(t)
  <2> DEFINE q == task'[t]
             d == Diff(params[t], cloud.entries)
  <2>1. \/ q.pc = "done" /\ (q.result = "unchanged" \/ params[t].check)
        \/ q.pc = "call" /\ q.result = task[t].result /\ q.add = d.add
    BY <1>0, <1>2, <1>3, PlanTargets
  <2>2. Has(params[t].want) \subseteq Has(cloud.entries) \cup d.add
    BY <1>2, DiffTargets
  <2> HIDE DEF q, d
  <2>3. task[t].result = "none"
    BY <1>0, <1>1 DEF Ordered
  <2>4. \/ q.pc = "done" /\ (q.result = "unchanged" \/ params[t].check)
        \/ /\ q.pc = "call" /\ q.result = "none"
           /\ \A k \in Has(params[t].want) : cloud.entries[k] # None \/ k \in q.add
    BY <2>1, <2>2, <2>3 DEF Has
  <2>5. Registers(t)'
    BY <1>1, <2>4 DEF Registers, q, Alters
  <2>6. Grows(t)
    BY <1>1 DEF Grows
  <2> QED BY <1>1, <2>5, <2>6, AddingTask
<1>4. CASE task'[t].pc = "done" /\ task'[t].result = "failed"
  <2>1. Registers(t)' /\ Grows(t)
    BY <1>1, <1>4 DEF Registers, Grows
  <2> QED BY <1>1, <2>1, AddingTask
<1> QED BY <1>1, <1>3, <1>4

LEMMA AddingCall ==
  ASSUME AInv, Adding, OInv', NEW t \in Tasks, Call(t)
  PROVE  AInv'
<1> DEFINE do == Head(task[t].todo)
           q  == task'[t]
<1>0. Shapes /\ Ordered(t) /\ Registers(t)
  BY DEF AInv, OInv, IInv
<1>1. params[t].kind = "targets"
  BY DEF Adding
<1>2. /\ Alters(t) /\ task[t].pc = "call" /\ task[t].result = "none"
      /\ Works(t, do) \/ UNCHANGED <<cloud, jobs>>
      /\ \/ Works(t, do) /\ q.pc = "wait" /\ q.job = Len(jobs) + 1
            /\ q.result = task[t].result /\ Like(q, task[t])
         \/ q.pc = "done" /\ q.result \in {"unchanged", "failed"}
         \/ q.pc = "call" /\ q.result = task[t].result /\ Like(q, task[t])
  BY <1>0, <1>1, CallMoves DEF Ordered
<1>3. /\ Grows(t) /\ UNCHANGED cloud
      /\ Works(t, do) => jobs'[Len(jobs) + 1] = [by |-> t, do |-> do, status |-> "doing"]
  BY <1>0, <1>1, <1>2, WorksGrow
<1> HIDE DEF do
<1>4. Registers(t)'
  <2>1. \A k \in Has(params[t].want) : cloud.entries[k] # None \/ k \in task[t].add
    BY <1>0, <1>2 DEF Registers
  <2> QED BY <1>2, <1>3, <2>1 DEF Registers, Like, Alters
<1> QED BY <1>2, <1>3, <1>4, AddingTask

LEMMA AddingWait ==
  ASSUME AInv, Adding, OInv', NEW t \in Tasks, Wait(t)
  PROVE  AInv'
<1>0. Shapes /\ Ordered(t) /\ Registers(t)
  BY DEF AInv, OInv, IInv
<1>1. /\ Alters(t) /\ UNCHANGED <<cloud, jobs>> /\ task[t].pc = "wait"
      /\ \/ jobs[task[t].job].status = "done" /\ task'[t] = Onward(t)
         \/ task'[t].pc = "done" /\ task'[t].result = "failed"
  BY <1>0, WaitMoves
<1>2. CASE jobs[task[t].job].status = "done" /\ task'[t] = Onward(t)
  <2>1. Stocked(t)
    BY <1>0, <1>1, <1>2 DEF Registers
  <2>2. task[t].todo \in Bulks /\ task[t].result = "none"
    BY <1>0, <1>1 DEF Ordered, Bulk, Adding
  <2>3. task'[t].pc # "wait"
    BY <1>0, <1>1, <1>2, <2>2, OnwardTargets
  <2>4. Registers(t)' /\ Grows(t)
    BY <1>1, <2>1, <2>3 DEF Registers, Stocked, Alters, Grows
  <2> QED BY <1>1, <2>4, AddingTask
<1>3. CASE task'[t].pc = "done" /\ task'[t].result = "failed"
  <2>1. Registers(t)' /\ Grows(t)
    BY <1>1, <1>3 DEF Registers, Grows
  <2> QED BY <1>1, <2>1, AddingTask
<1> QED BY <1>1, <1>2, <1>3

LEMMA AddingQuiet ==
  ASSUME AInv, Adding, OInv', NEW t \in Tasks, Start(t) \/ Report(t)
  PROVE  AInv'
<1>0. Shapes /\ Ordered(t) /\ Registers(t)
  BY DEF AInv, OInv, IInv
<1>1. /\ Alters(t) /\ UNCHANGED <<cloud, jobs>>
      /\ \/ task'[t].pc = "find" /\ task'[t].result = "none"
         \/ task[t].pc = "report" /\ task'[t].pc = "done"
  BY <1>0, StartMoves, ReportMoves DEF Ordered
<1>2. Registers(t)' /\ Grows(t)
  BY <1>0, <1>1 DEF Registers, Stocked, Alters, Grows
<1> QED BY <1>1, <1>2, AddingTask

\* The load balancer only adds, and what it was asked to.
LEMMA AddingCarry ==
  ASSUME AInv, Adding, OInv', NEW j \in DOMAIN jobs, Carry(j)
  PROVE  AInv'
<1>0. Shapes /\ Posted(j)
  BY DEF AInv, OInv, IInv
<1>1. /\ UNCHANGED <<params, task, start>>
      /\ jobs[j] \in Job
      /\ \A i \in DOMAIN jobs \ {j} : jobs'[i] = jobs[i]
      /\ \/ cloud'.entries = Changed(cloud.entries, jobs[j].do, jobs[j].by)
         \/ jobs'[j].status = "failed" /\ UNCHANGED cloud
  BY <1>0, CarryMoves
<1>2. CASE jobs'[j].status = "failed" /\ UNCHANGED cloud
  <2>1. ASSUME NEW t \in Tasks PROVE Registers(t)'
    <3>1. Registers(t) /\ Waits(t)
      BY DEF AInv, OInv, Ordered
    <3> QED BY <1>1, <1>2, <3>1 DEF Registers, Waits, Stocked
  <2> QED BY <2>1 DEF AInv
<1>3. CASE cloud'.entries = Changed(cloud.entries, jobs[j].do, jobs[j].by)
  <2> DEFINE u == jobs[j].by
  <2>1. u \in Tasks
    BY <1>1 DEF Job
  <2>2. task[u].remove = {} /\ task[u].add \subseteq Has(params[u].want)
    BY <2>1, AddingPlans DEF AInv
  <2>3. \A k \in Keys : cloud.entries[k] # None => cloud'.entries[k] # None
    BY <1>3, <2>2 DEF Changed, Has
  <2>4. ASSUME jobs[j].do = "add", NEW k \in task[u].add PROVE cloud'.entries[k] # None
    BY <1>3, <2>2, <2>4 DEF Changed, Has
  <2>5. ASSUME NEW t \in Tasks PROVE Registers(t)'
    <3>1. Registers(t) /\ Waits(t) /\ Bulk(t)
      BY DEF AInv, OInv, Ordered
    <3>2. Stocked(t) => Stocked(t)'
      BY <1>1, <2>3 DEF Stocked, Has
    <3>3. ASSUME task[t].pc = "wait", jobs'[task[t].job].status = "done" PROVE Stocked(t)'
      <4>1. CASE task[t].job = j
        <5>1. u = t /\ jobs[j].do = Head(task[t].todo)
          BY <3>1, <3>3, <4>1 DEF Waits
        <5>2. task[t].todo = <<"add">>
          <6>1. task[t].todo # <<>>
            BY <1>0, <3>3 DEF Shapes, WellFormed
          <6> QED BY <6>1, AddingPlans DEF AInv
        <5>3. jobs[j].do = "add"
          BY <5>1, <5>2, Pairs
        <5>4. \A k \in Has(params[t].want) : cloud.entries[k] # None \/ k \in task[t].add
          BY <3>1, <3>3 DEF Registers
        <5> HIDE DEF u
        <5> QED BY <1>1, <2>3, <2>4, <5>1, <5>3, <5>4 DEF Stocked, Has
      <4>2. CASE task[t].job # j
        <5>1. task[t].job \in DOMAIN jobs
          BY <3>1, <3>3 DEF Waits
        <5> QED BY <1>1, <3>1, <3>2, <3>3, <4>2, <5>1 DEF Registers
      <4> QED BY <4>1, <4>2
    <3> QED BY <1>1, <2>3, <3>1, <3>2, <3>3 DEF Registers, Has
  <2> QED BY <2>5 DEF AInv
<1> QED BY <1>1, <1>2, <1>3

LEMMA AddInit == Init => AInv
<1> SUFFICES ASSUME Init PROVE AInv
  OBVIOUS
<1>1. ASSUME NEW t \in Tasks PROVE Registers(t)
  BY DEF Init, Begun, Registers
<1> QED BY <1>1, OrderInit DEF AInv

LEMMA AddStep == AInv /\ [Next]_vars => AInv'
<1> SUFFICES ASSUME AInv, [Next]_vars PROVE AInv'
  OBVIOUS
<1>1. OInv'
  BY OrderStep DEF AInv
<1>2. CASE UNCHANGED vars
  BY <1>1, <1>2 DEF vars, AInv, Adding, Registers, Stocked
<1>3. CASE Next
  <2>1. UNCHANGED params
    BY <1>3 DEF Next, Start, Find, Call, Wait, Report, Carry
  <2>2. CASE Adding
    <3> HIDE DEF AInv
    <3> QED BY <1>1, <1>3, <2>2, AddingQuiet, AddingFind, AddingCall, AddingWait, AddingCarry DEF Next
  <2> QED BY <1>1, <2>1, <2>2 DEF AInv, Adding
<1> QED BY <1>2, <1>3

\* Tasks that register targets on one listener and purge nothing never undo each
\* other: when clb_listener_target reported "changed", its targets are there, and
\* stay there whatever the others and the jobs they gave up do.
THEOREM PlaysAddUpAlways == Spec => []PlaysAddUp
<1>1. AInv => PlaysAddUp
  BY DEF AInv, Adding, Registers, Stocked, Has, PlaysAddUp
<1> QED BY <1>1, AddInit, AddStep, PTL DEF Spec


-----------------------------------------------------------------------------
(***************************************************************************)
(* A listener whose tasks take turns.  The open jobs all belong to the     *)
(* last task that began, and one that removes was posted only when what    *)
(* its task lists was there.                                               *)
(***************************************************************************)
Guarded ==
  /\ \A t \in Tasks : /\ params[t].kind = "targets" /\ params[t].state = "present" /\ Alone(t)
                      /\ Has(params[t].want) # {} /\ task[t].calm
  /\ Has(start) # {}

Sound(t) ==
  /\ task[t].pc \in {"call", "wait"} =>
       \A k \in Has(params[t].want) :
         cloud.entries[k] # None \/ (k \in task[t].add /\ task[t].todo # <<"remove">>)
  /\ task[t].pc = "wait" /\ task[t].todo # <<"remove">> /\ jobs[task[t].job].status = "done" =>
       Stocked(t)
  /\ \A j \in DOMAIN jobs :
       jobs[j].by = t /\ jobs[j].do = "remove" /\ jobs[j].status = "doing" => Stocked(t)

Covered == Has(cloud.entries) # {} /\ \A t \in Tasks : Sound(t)

BInv == OInv /\ (Guarded => Covered)

LEMMA GuardedPlans ==
  ASSUME OInv, Guarded, NEW t \in Tasks
  PROVE  /\ params[t].kind = "targets" /\ params[t].state = "present" /\ params[t] \in Param
         /\ task[t].remove \cap Has(params[t].want) = {}
         /\ task[t].todo \in Bulks /\ task[t].add \subseteq Has(params[t].want)
BY DEF OInv, IInv, Shapes, Ordered, Bulk, Guarded

\* All open jobs are one task's, and those of a task at work are its own.
LEMMA OneOwner ==
  ASSUME OInv, Guarded, NEW j \in DOMAIN jobs, jobs[j].status = "doing", NEW t \in Tasks,
         \/ task[t].pc \in {"call", "wait"}
         \/ \E i \in DOMAIN jobs : jobs[i].by = t /\ jobs[i].status = "doing"
  PROVE  jobs[j].by = t
<1> DEFINE u == jobs[j].by
<1>1. u \in Tasks
  BY JobTyped DEF OInv, IInv, Job
<1>2. task[u].pc \notin {"start", "find"} /\ task[t].pc \notin {"start", "find"}
  BY DEF OInv, Posted
<1>3. u \notin params[t].after
  BY <1>2 DEF OInv, Ordered, Calm, Guarded
<1>4. ASSUME u # t PROVE FALSE
  <2>1. t \in params[u].after
    BY <1>1, <1>3, <1>4 DEF Guarded, Alone
  <2>2. task[t].pc = "done"
    BY <1>1, <1>2, <2>1 DEF OInv, Turns
  <2>3. PICK i \in DOMAIN jobs : jobs[i].by = t /\ jobs[i].status = "doing"
    BY <2>2
  <2>4. Calm(u) /\ task[u].calm
    BY <1>1 DEF OInv, Ordered, Guarded
  <2> QED BY <1>2, <2>1, <2>3, <2>4 DEF Calm
<1> QED BY <1>4

\* A step of t that leaves the listener as it is.
LEMMA BareTask ==
  ASSUME OInv, Guarded, Covered, NEW t \in Tasks, Alters(t), Grows(t), UNCHANGED cloud, Sound(t)'
  PROVE  Covered'
<1>1. ASSUME NEW u \in Tasks \ {t} PROVE Sound(u)'
  <2>1. Sound(u) /\ Waits(u) /\ task'[u] = task[u] /\ params' = params
    BY DEF Covered, OInv, Ordered, Alters
  <2>2. \A j \in DOMAIN jobs' : jobs'[j].by = u => j \in DOMAIN jobs /\ jobs'[j] = jobs[j]
    BY DEF Grows
  <2> QED BY <2>1, <2>2 DEF Sound, Waits, Stocked, Has, Grows
<1>2. Has(cloud.entries)' # {}
  BY DEF Covered, Has
<1> QED BY <1>1, <1>2 DEF Covered

LEMMA BareFind ==
  ASSUME OInv, Guarded, Covered, NEW t \in Tasks, Find(t)
  PROVE  Covered'
<1>0. Shapes /\ Ordered(t) /\ Sound(t)
  BY DEF OInv, IInv, Covered
<1>1. /\ Alters(t) /\ UNCHANGED <<cloud, jobs>> /\ task[t].pc = "find"
      /\ \/ task'[t] = Plan(t)
         \/ task'[t].pc = "done"
  BY <1>0, FindMoves
<1>2. params[t].kind = "targets" /\ params[t].state = "present" /\ params[t] \in Param
  BY GuardedPlans
<1>3. Grows(t)
  BY <1>1 DEF Grows
<1>4. CASE task'[t] = Plan(t)
  <2> DEFINE q == task'[t]
             d == Diff(params[t], cloud.entries)
  <2>1. \/ q.pc = "done"
        \/ q.pc = "call" /\ q.add = d.add /\ (q.todo = <<"remove">> => q.add = {})
    BY <1>0, <1>2, <1>4, PlanTargets
  <2>2. Has(params[t].want) \subseteq Has(cloud.entries) \cup d.add
    BY <1>2, DiffTargets
  <2> HIDE DEF q, d
  <2>3. \/ q.pc = "done"
        \/ /\ q.pc = "call"
           /\ \A k \in Has(params[t].want) :
                cloud.entries[k] # None \/ (k \in q.add /\ q.todo # <<"remove">>)
    BY <2>1, <2>2 DEF Has
  <2>4. Sound(t)'
    BY <1>0, <1>1, <2>3 DEF Sound, Stocked, q, Alters
  <2> QED BY <1>1, <1>3, <2>4, BareTask
<1>5. CASE task'[t].pc = "done"
  <2>1. Sound(t)'
    BY <1>0, <1>1, <1>5 DEF Sound, Stocked, Alters
  <2> QED BY <1>1, <1>3, <2>1, BareTask
<1> QED BY <1>1, <1>4, <1>5

LEMMA BareCall ==
  ASSUME OInv, Guarded, Covered, NEW t \in Tasks, Call(t)
  PROVE  Covered'
<1> DEFINE do == Head(task[t].todo)
           q  == task'[t]
<1>0. Shapes /\ Ordered(t) /\ Sound(t)
  BY DEF OInv, IInv, Covered
<1>1. params[t].kind = "targets" /\ task[t].pc = "call"
  BY DEF Guarded, Call
<1>2. /\ Works(t, do) \/ UNCHANGED <<cloud, jobs>>
      /\ \/ Works(t, do) /\ q.pc = "wait" /\ q.job = Len(jobs) + 1 /\ Like(q, task[t])
         \/ q.pc = "done"
         \/ q.pc = "call" /\ Like(q, task[t])
  BY <1>0, <1>1, CallMoves
<1>3. /\ Alters(t) /\ Grows(t) /\ UNCHANGED cloud
      /\ Works(t, do) => jobs'[Len(jobs) + 1] = [by |-> t, do |-> do, status |-> "doing"]
  BY <1>0, <1>1, <1>2, CallMoves, WorksGrow
<1>4. do = "remove" => task[t].todo = <<"remove">>
  BY <1>0, <1>1, BulkHead DEF Ordered
<1>5. task[t].todo = <<"remove">> => Stocked(t)
  BY <1>0, <1>1 DEF Sound, Stocked
<1>6. ASSUME NEW j \in DOMAIN jobs', jobs'[j].by = t, jobs'[j].do = "remove",
             jobs'[j].status = "doing"
      PROVE  Stocked(t)
  <2>1. CASE j \in DOMAIN jobs
    BY <1>0, <1>3, <1>6, <2>1 DEF Sound, Grows
  <2>2. CASE j \notin DOMAIN jobs
    <3>1. jobs'[j].do = do
      BY <1>3, <1>6, <2>2 DEF Grows
    <3> QED BY <1>4, <1>5, <1>6, <3>1
  <2> QED BY <2>1, <2>2
<1> HIDE DEF do
<1>7. Sound(t)'
  <2>1. Stocked(t) => Stocked(t)'
    BY <1>3 DEF Stocked, Alters
  <2>2. \A k \in Has(params[t].want) :
          cloud.entries[k] # None \/ (k \in task[t].add /\ task[t].todo # <<"remove">>)
    BY <1>0, <1>1 DEF Sound
  <2>3. Has(params[t].want)' = Has(params[t].want)
    BY <1>3 DEF Alters
  <2>4. \A j \in DOMAIN jobs' :
          jobs'[j].by = t /\ jobs'[j].do = "remove" /\ jobs'[j].status = "doing" => Stocked(t)'
    BY <1>6, <2>1
  <2>5. q.pc \in {"call", "wait"} =>
          \A k \in Has(params[t].want)' :
            cloud'.entries[k] # None \/ (k \in q.add /\ q.todo # <<"remove">>)
    BY <1>2, <1>3, <2>2, <2>3 DEF Like
  <2>6. q.pc = "wait" => jobs'[q.job].status # "done"
    BY <1>2, <1>3
  <2> QED BY <2>4, <2>5, <2>6 DEF Sound
<1> QED BY <1>3, <1>7, BareTask

LEMMA BareWait ==
  ASSUME OInv, Guarded, Covered, NEW t \in Tasks, Wait(t)
  PROVE  Covered'
<1>0. Shapes /\ Ordered(t) /\ Sound(t)
  BY DEF OInv, IInv, Covered
<1>1. /\ Alters(t) /\ UNCHANGED <<cloud, jobs>> /\ task[t].pc = "wait"
      /\ \/ jobs[task[t].job].status = "done" /\ task'[t] = Onward(t)
         \/ task'[t].pc = "done"
  BY <1>0, WaitMoves
<1>2. Grows(t)
  BY <1>1 DEF Grows
<1>3. CASE jobs[task[t].job].status = "done" /\ task'[t] = Onward(t)
  <2>1. Stocked(t)
    BY <1>0, <1>1, <1>3 DEF Sound, Stocked
  <2>2. task[t].todo \in Bulks
    BY GuardedPlans
  <2>3. task'[t].pc # "wait"
    BY <1>0, <1>1, <1>3, <2>2, OnwardTargets
  <2>4. Sound(t)'
    BY <1>1, <2>1, <2>3 DEF Sound, Stocked, Alters
  <2> QED BY <1>1, <1>2, <2>4, BareTask
<1>4. CASE task'[t].pc = "done"
  <2>1. Sound(t)'
    BY <1>0, <1>1, <1>4 DEF Sound, Stocked, Alters
  <2> QED BY <1>1, <1>2, <2>1, BareTask
<1> QED BY <1>1, <1>3, <1>4

LEMMA BareQuiet ==
  ASSUME OInv, Guarded, Covered, NEW t \in Tasks, Start(t) \/ Report(t)
  PROVE  Covered'
<1>0. Shapes /\ Sound(t)
  BY DEF OInv, IInv, Covered
<1>1. Alters(t) /\ UNCHANGED <<cloud, jobs>> /\ task'[t].pc \in {"find", "done"}
  BY <1>0, StartMoves, ReportMoves
<1>2. Sound(t)' /\ Grows(t)
  BY <1>0, <1>1 DEF Sound, Stocked, Alters, Grows
<1> QED BY <1>1, <1>2, BareTask

\* The load balancer removes only what the task does not list, and only when
\* what it lists is there.
LEMMA BareCarry ==
  ASSUME OInv, Guarded, Covered, NEW j \in DOMAIN jobs, Carry(j)
  PROVE  Covered'
<1>0. Shapes /\ Posted(j)
  BY DEF OInv, IInv
<1>1. /\ UNCHANGED <<params, task, start>> /\ DOMAIN jobs' = DOMAIN jobs
      /\ jobs[j] \in Job /\ jobs[j].status = "doing" /\ jobs'[j].status # "doing"
      /\ \A i \in DOMAIN jobs \ {j} : jobs'[i] = jobs[i]
      /\ \/ cloud'.entries = Changed(cloud.entries, jobs[j].do, jobs[j].by)
         \/ jobs'[j].status = "failed" /\ UNCHANGED cloud
  BY <1>0, CarryMoves
<1>2. CASE jobs'[j].status = "failed" /\ UNCHANGED cloud
  <2>1. ASSUME NEW t \in Tasks PROVE Sound(t)'
    <3>1. Sound(t) /\ Waits(t)
      BY DEF Covered, OInv, Ordered
    <3> QED BY <1>1, <1>2, <3>1 DEF Sound, Waits, Stocked
  <2> QED BY <1>2, <2>1 DEF Covered
<1>3. CASE cloud'.entries = Changed(cloud.entries, jobs[j].do, jobs[j].by)
  <2> DEFINE u == jobs[j].by
  <2>1. u \in Tasks /\ jobs[j].do \in {"add", "remove"}
    BY <1>0, <1>1 DEF Job, Posted
  <2>2. task[u].remove \cap Has(params[u].want) = {} /\ task[u].add \subseteq Has(params[u].want)
    BY <2>1, GuardedPlans
  <2>3. \A k \in Has(params[u].want) : cloud.entries[k] # None => cloud'.entries[k] # None
    BY <1>3, <2>2 DEF Changed, Has
  <2>4. ASSUME jobs[j].do = "add"
        PROVE  /\ \A k \in Keys : cloud.entries[k] # None => cloud'.entries[k] # None
               /\ \A k \in task[u].add : cloud'.entries[k] # None
    BY <1>3, <2>2, <2>4 DEF Changed, Has
  <2>5. Has(cloud'.entries) # {}
    <3>1. CASE jobs[j].do = "add"
      BY <2>4, <3>1 DEF Covered, Has
    <3>2. CASE jobs[j].do = "remove"
      <4>1. Stocked(u) /\ Has(params[u].want) # {}
        BY <1>1, <2>1, <3>2 DEF Covered, Sound, Guarded
      <4> QED BY <2>3, <4>1 DEF Stocked, Has
    <3> QED BY <2>1, <3>1, <3>2
  <2>6. ASSUME NEW t \in Tasks PROVE Sound(t)'
    <3>1. Sound(t) /\ Waits(t)
      BY DEF Covered, OInv, Ordered
    <3>2. task[t].pc \in {"call", "wait"} => u = t
      BY <1>1, OneOwner
    <3>3. (\E i \in DOMAIN jobs : jobs[i].by = t /\ jobs[i].status = "doing") => u = t
      BY <1>1, OneOwner
    <3>4. u = t /\ Stocked(t) => Stocked(t)'
      BY <1>1, <2>3 DEF Stocked
    <3>5. ASSUME task[t].pc = "wait", task[t].todo # <<"remove">>, jobs'[task[t].job].status = "done"
          PROVE  Stocked(t)'
      <4>1. CASE task[t].job = j
        <5>1. jobs[j].do = "add"
          <6>1. Head(task[t].todo) = "add"
            BY <1>0, <3>5, BulkHead, GuardedPlans DEF Bulk, OInv, Ordered
          <6> QED BY <3>1, <3>5, <4>1, <6>1 DEF Waits
        <5>2. \A k \in Has(params[t].want) : cloud.entries[k] # None \/ k \in task[t].add
          BY <3>1, <3>5 DEF Sound
        <5>3. u = t
          BY <3>2, <3>5
        <5> HIDE DEF u
        <5> QED BY <1>1, <2>4, <5>1, <5>2, <5>3 DEF Stocked, Has
      <4>2. CASE task[t].job # j
        <5>1. task[t].job \in DOMAIN jobs
          BY <3>1, <3>5 DEF Waits
        <5>2. Stocked(t)
          BY <1>1, <3>1, <3>5, <4>2, <5>1 DEF Sound
        <5> QED BY <3>2, <3>4, <3>5, <5>2
      <4> QED BY <4>1, <4>2
    <3>6. ASSUME task[t].pc \in {"call", "wait"}, NEW k \in Has(params[t].want)
          PROVE  cloud'.entries[k] # None \/ (k \in task[t].add /\ task[t].todo # <<"remove">>)
      BY <2>3, <3>1, <3>2, <3>6 DEF Sound
    <3>7. ASSUME NEW i \in DOMAIN jobs', jobs'[i].by = t, jobs'[i].do = "remove",
                 jobs'[i].status = "doing"
          PROVE  Stocked(t)'
      <4>1. i \in DOMAIN jobs /\ i # j /\ jobs'[i] = jobs[i]
        BY <1>1, <3>7
      <4>2. Stocked(t) /\ u = t
        BY <3>1, <3>3, <3>7, <4>1 DEF Sound
      <4> QED BY <3>4, <4>2
    <3> QED BY <1>1, <3>5, <3>6, <3>7 DEF Sound
  <2> QED BY <2>5, <2>6 DEF Covered
<1> QED BY <1>1, <1>2, <1>3

\* A task that was not calm is not calm again.
LEMMA CalmFades ==
  ASSUME OInv, Next, NEW t \in Tasks, task'[t].calm
  PROVE  task[t].calm
<1>0. Shapes /\ Ordered(t)
  BY DEF OInv, IInv
<1>1. \A u \in Tasks : Alters(u) /\ u # t => task'[t] = task[t]
  BY DEF Alters
<1>2. ASSUME NEW u \in Tasks, Start(u) PROVE task[t].calm
  <2>1. Alters(u) /\ task[u].pc = "start"
    BY <1>0, <1>2, StartMoves
  <2> QED BY <1>0, <1>1, <2>1 DEF Ordered, Calm
<1>3. ASSUME NEW u \in Tasks, Find(u) PROVE task[t].calm
  <2>1. Alters(u) /\ (task'[u] = Plan(u) \/ Like(task'[u], task[u]))
    BY <1>0, <1>3, FindMoves
  <2>2. task'[u].calm = task[u].calm
    BY <1>0, <2>1, PlanMoves DEF Like
  <2> QED BY <1>1, <2>1, <2>2
<1>4. ASSUME NEW u \in Tasks, Call(u) PROVE task[t].calm
  <2>1. Alters(u) /\ task[u].pc = "call" /\ (task'[u] = Onward(u) \/ Like(task'[u], task[u]))
    BY <1>0, <1>4, CallMoves
  <2>2. task'[u].calm = task[u].calm
    BY <1>0, <2>1, OnwardIs DEF Like
  <2> QED BY <1>1, <2>1, <2>2
<1>5. ASSUME NEW u \in Tasks, Wait(u) PROVE task[t].calm
  <2>1. Alters(u) /\ task[u].pc = "wait" /\ (task'[u] = Onward(u) \/ Like(task'[u], task[u]))
    BY <1>0, <1>5, WaitMoves
  <2>2. task'[u].calm = task[u].calm
    BY <1>0, <2>1, OnwardIs DEF Like
  <2> QED BY <1>1, <2>1, <2>2
<1>6. ASSUME NEW u \in Tasks, Report(u) PROVE task[t].calm
  <2>1. Alters(u) /\ Like(task'[u], task[u])
    BY <1>0, <1>6, ReportMoves
  <2> QED BY <1>1, <2>1 DEF Like
<1>7. ASSUME NEW j \in DOMAIN jobs, Carry(j) PROVE task[t].calm
  BY <1>7 DEF Carry
<1> QED BY <1>2, <1>3, <1>4, <1>5, <1>6, <1>7 DEF Next

LEMMA BareInit == Init => BInv
<1> SUFFICES ASSUME Init PROVE BInv
  OBVIOUS
<1>1. ASSUME Guarded PROVE Covered
  BY <1>1 DEF Init, Begun, Covered, Sound, Guarded
<1> QED BY <1>1, OrderInit DEF BInv

LEMMA BareStep == BInv /\ [Next]_vars => BInv'
<1> SUFFICES ASSUME BInv, [Next]_vars PROVE BInv'
  OBVIOUS
<1>1. OInv /\ OInv'
  BY OrderStep DEF BInv
<1>2. CASE UNCHANGED vars
  BY <1>1, <1>2 DEF vars, BInv, Guarded, Covered, Sound, Stocked, Alone
<1>3. CASE Next
  <2>1. UNCHANGED <<params, start>>
    BY <1>3 DEF Next, Start, Find, Call, Wait, Report, Carry
  <2>2. Guarded' => Guarded
    BY <1>1, <1>3, <2>1, CalmFades DEF Guarded, Alone
  <2>3. ASSUME Guarded, Covered PROVE Covered'
    BY <1>1, <1>3, <2>3, BareQuiet, BareFind, BareCall, BareWait, BareCarry DEF Next
  <2> QED BY <1>1, <2>2, <2>3 DEF BInv
<1> QED BY <1>2, <1>3

\* A listener with targets, whose tasks list some, never goes without, whichever
\* calls fail or are made twice: reconcile_targets registers before it
\* deregisters, _wait_task goes on only when the job before is done, and no task
\* begins beside an open job.
THEOREM NeverBareAlways == Spec => []NeverBare
<1>1. BInv => NeverBare
  BY DEF BInv, Guarded, Covered, NeverBare
<1> QED BY <1>1, BareInit, BareStep, PTL DEF Spec


-----------------------------------------------------------------------------
(***************************************************************************)
(* The calls a plan has left, and those of a table: additions come last.   *)
(***************************************************************************)
Left(s)    == {s[i] : i \in DOMAIN s}
AddLast(s) == \A i \in DOMAIN s : s[i] = "add" => i = Len(s)

LEMMA LeftNone == Left(<<>>) = {} /\ AddLast(<<>>)
BY DEF Left, AddLast

LEMMA LeftOne == ASSUME NEW x PROVE Left(<<x>>) = {x} /\ AddLast(<<x>>)
BY DEF Left, AddLast

LEMMA LeftConcat ==
  ASSUME NEW s \in Seq(Verbs), NEW u \in Seq(Verbs)
  PROVE  /\ Left(s \o u) = Left(s) \cup Left(u)
         /\ "add" \notin Left(s) /\ AddLast(u) => AddLast(s \o u)
<1> DEFINE v == s \o u
<1>1. /\ v \in Seq(Verbs) /\ Len(v) = Len(s) + Len(u) /\ Len(s) \in Nat /\ Len(u) \in Nat
      /\ DOMAIN v = 1 .. Len(s) + Len(u) /\ DOMAIN s = 1 .. Len(s) /\ DOMAIN u = 1 .. Len(u)
  <2>1. v \in Seq(Verbs) /\ Len(v) = Len(s) + Len(u)
    BY ConcatProperties
  <2> HIDE DEF v
  <2>2. DOMAIN v = 1 .. Len(v)
    BY <2>1, LenProperties
  <2> QED BY <2>1, <2>2, LenProperties
<1>2. \A i \in 1 .. Len(s) + Len(u) : v[i] = IF i <= Len(s) THEN s[i] ELSE u[i - Len(s)]
  BY ConcatProperties
<1> HIDE DEF v
<1>3. Left(v) \subseteq Left(s) \cup Left(u)
  <2>1. ASSUME NEW i \in 1 .. Len(s) + Len(u) PROVE v[i] \in Left(s) \cup Left(u)
    <3>1. CASE i <= Len(s)
      BY <1>1, <1>2, <3>1 DEF Left
    <3>2. CASE ~(i <= Len(s))
      <4>1. v[i] = u[i - Len(s)] /\ i - Len(s) \in DOMAIN u
        BY <1>1, <1>2, <3>2
      <4> QED BY <4>1 DEF Left
    <3> QED BY <3>1, <3>2
  <2> QED BY <1>1, <2>1 DEF Left
<1>4. Left(s) \cup Left(u) \subseteq Left(v)
  <2>1. ASSUME NEW i \in DOMAIN s PROVE s[i] \in Left(v)
    <3>1. i \in DOMAIN v /\ v[i] = s[i]
      BY <1>1, <1>2
    <3> QED BY <3>1 DEF Left
  <2>2. ASSUME NEW i \in DOMAIN u PROVE u[i] \in Left(v)
    <3>1. Len(s) + i \in DOMAIN v /\ v[Len(s) + i] = u[i]
      BY <1>1, <1>2
    <3> QED BY <3>1 DEF Left
  <2> QED BY <2>1, <2>2 DEF Left
<1>5. ASSUME "add" \notin Left(s), AddLast(u), NEW i \in DOMAIN v, v[i] = "add"
      PROVE  i = Len(v)
  <2>1. ~(i <= Len(s))
    BY <1>1, <1>2, <1>5 DEF Left
  <2>2. v[i] = u[i - Len(s)] /\ i - Len(s) \in DOMAIN u
    BY <1>1, <1>2, <2>1
  <2>3. i - Len(s) = Len(u)
    BY <1>5, <2>2 DEF AddLast
  <2> QED BY <1>1, <2>3
<1> QED BY <1>3, <1>4, <1>5 DEF v, AddLast

LEMMA LeftTail ==
  ASSUME NEW s \in Seq(Verbs), s # <<>>
  PROVE  /\ Left(s) = {Head(s)} \cup Left(Tail(s))
         /\ AddLast(s) => AddLast(Tail(s))
         /\ AddLast(s) /\ Head(s) = "add" => Left(Tail(s)) = {}
<1> DEFINE u == Tail(s)
<1>1. /\ Len(s) \in Nat /\ Len(s) > 0 /\ DOMAIN s = 1 .. Len(s) /\ Head(s) = s[1]
      /\ u \in Seq(Verbs) /\ Len(u) = Len(s) - 1 /\ \A i \in 1 .. Len(u) : u[i] = s[i + 1]
  BY HeadTailProperties, EmptySeq, LenProperties
<1> HIDE DEF u
<1>2. DOMAIN u = 1 .. Len(s) - 1
  BY <1>1, LenProperties
<1>3. Left(s) \subseteq {Head(s)} \cup Left(u)
  <2>1. ASSUME NEW i \in DOMAIN s PROVE s[i] \in {Head(s)} \cup Left(u)
    <3>1. CASE i = 1
      BY <1>1, <3>1
    <3>2. CASE i # 1
      <4>1. i - 1 \in DOMAIN u /\ u[i - 1] = s[i]
        BY <1>1, <1>2, <3>2
      <4> QED BY <4>1 DEF Left
    <3> QED BY <3>1, <3>2
  <2> QED BY <2>1 DEF Left
<1>4. {Head(s)} \cup Left(u) \subseteq Left(s)
  <2>1. ASSUME NEW i \in DOMAIN u PROVE u[i] \in Left(s)
    <3>1. i + 1 \in DOMAIN s /\ u[i] = s[i + 1]
      BY <1>1, <1>2
    <3> QED BY <3>1 DEF Left
  <2>2. 1 \in DOMAIN s
    BY <1>1
  <2> QED BY <1>1, <2>1, <2>2 DEF Left
<1>5. ASSUME AddLast(s), NEW i \in DOMAIN u, u[i] = "add" PROVE i = Len(u)
  <2>1. i + 1 \in DOMAIN s /\ s[i + 1] = "add"
    BY <1>1, <1>2, <1>5
  <2>2. i + 1 = Len(s)
    BY <1>5, <2>1 DEF AddLast
  <2> QED BY <1>1, <1>2, <2>2
<1>6. ASSUME AddLast(s), Head(s) = "add" PROVE Left(u) = {}
  <2>1. Len(s) = 1
    BY <1>1, <1>6 DEF AddLast
  <2>2. DOMAIN u = {}
    BY <1>2, <2>1
  <2> QED BY <2>2 DEF Left
<1> QED BY <1>3, <1>4, <1>5, <1>6 DEF u, AddLast

LEMMA LeftOrder ==
  ASSUME NEW p, NEW d
  PROVE  /\ Left(Order(p, d)) = (IF d.add = {} THEN {} ELSE {"add"})
                                  \cup (IF d.remove = {} THEN {} ELSE {"remove"})
         /\ p.kind = "routes" => AddLast(Order(p, d))
<1> DEFINE add    == IF d.add = {} THEN <<>> ELSE <<"add">>
           remove == IF d.remove = {} THEN <<>> ELSE <<"remove">>
<1>1. add \in Seq(Verbs) /\ remove \in Seq(Verbs)
  <2>1. "add" \in Verbs /\ "remove" \in Verbs
    BY DEF Verbs
  <2>2. <<>> \in Seq(Verbs) /\ <<"add">> \in Seq(Verbs) /\ <<"remove">> \in Seq(Verbs)
    BY <2>1, Single, EmptySeq
  <2> QED BY <2>2, Zenon
<1>2. /\ Left(add) = IF d.add = {} THEN {} ELSE {"add"}
      /\ Left(remove) = IF d.remove = {} THEN {} ELSE {"remove"}
      /\ AddLast(add) /\ AddLast(remove)
  BY LeftNone, LeftOne, Zenon
<1>3. Order(p, d) = IF p.kind = "routes" THEN remove \o add ELSE add \o remove
  BY DEF Order
<1> HIDE DEF add, remove
<1>4. /\ Left(remove \o add) = Left(remove) \cup Left(add)
      /\ Left(add \o remove) = Left(add) \cup Left(remove)
      /\ "add" \notin Left(remove) /\ AddLast(add) => AddLast(remove \o add)
  BY <1>1, LeftConcat
<1> QED BY <1>2, <1>3, <1>4


-----------------------------------------------------------------------------
(***************************************************************************)
(* What is left to do.  A plan's calls bring the table or the listener to  *)
(* what the task lists: whichever of them are left do, wherever a task     *)
(* stops, and a call made twice does no harm.                              *)
(***************************************************************************)
TableDue(p, add, remove, c, left) ==
  /\ "delete" \notin left
  /\ c.exists \/ "create" \in left
  /\ c.label = p.label \/ "label" \in left \/ "create" \in left
  /\ p.listed => \A k \in Own(p) :
       \/ "add" \in left /\ k \in add
       \/ p.want[k] = None /\ ("create" \in left \/ ("remove" \in left /\ k \in remove))
       \/ /\ "create" \notin left /\ ~("remove" \in left /\ k \in remove)
          /\ c.entries[k] = p.want[k]

AsListed(p, now, k) ==
  IF p.state = "absent" THEN p.want[k] # None => now = None
  ELSE now = p.want[k] \/ (p.want[k] = None /\ ~p.purge)

ListenerDue(p, add, remove, c, left) ==
  \A k \in Keys : \/ "add" \in left /\ k \in add
                  \/ "remove" \in left /\ k \in remove
                  \/ AsListed(p, c.entries[k], k)

\* Once the calls that are left have been carried out, all is as p says.
Due(p, add, remove, c, left) ==
  /\ p.kind = "routes" /\ p.state = "absent" =>
       left \subseteq {"delete"} /\ (c.exists => "delete" \in left)
  /\ p.kind = "routes" /\ p.state = "present" => TableDue(p, add, remove, c, left)
  /\ p.kind = "targets" => ListenerDue(p, add, remove, c, left)

Busy == {"call", "wait", "report"}

\* A task that has the table or the listener to itself is on its way.
Sure(t) ==
  Alone(t) /\ task[t].calm /\ task[t].pc \in Busy =>
    /\ params[t].kind = "targets" /\ params[t].state = "absent" => task[t].add = {}
    /\ params[t].kind = "routes" => AddLast(task[t].todo)
    /\ Due(params[t], task[t].add, task[t].remove, cloud,
           IF task[t].pc = "report" THEN {} ELSE Left(task[t].todo))
    /\ task[t].pc = "wait" /\ jobs[task[t].job].status = "done" =>
         Due(params[t], task[t].add, task[t].remove, cloud, Left(Tail(task[t].todo)))

RInv == OInv /\ \A t \in Tasks : Sure(t)


LEMMA DueDone ==
  ASSUME NEW p, NEW add, NEW remove, NEW c, Due(p, add, remove, c, {})
  PROVE  Due(p, {}, {}, c, {})
BY DEF Due, TableDue, ListenerDue

\* A listener: what diff finds, its calls will do.
LEMMA TargetsPlanDue ==
  ASSUME NEW p \in Param, p.kind = "targets", NEW c
  PROVE  LET d == Diff(p, c.entries)
         IN  /\ Due(p, d.add, d.remove, c, Left(Order(p, d)))
             /\ p.state = "absent" => d.add = {}
<1> DEFINE d == Diff(p, c.entries)
<1>1. Left(Order(p, d)) = (IF d.add = {} THEN {} ELSE {"add"})
                             \cup (IF d.remove = {} THEN {} ELSE {"remove"})
  BY LeftOrder
<1>2. \A k \in Keys : k \in d.add \/ k \in d.remove \/ AsListed(p, c.entries[k], k)
  BY DEF Diff, Own, Purged, AsListed, Param
<1>3. p.state = "absent" => d.add = {}
  BY DEF Diff
<1> DEFINE left == Left(Order(p, d))
<1>4. /\ \A k : k \in d.add => "add" \in left
      /\ \A k : k \in d.remove => "remove" \in left
  BY <1>1
<1> HIDE DEF d, left
<1>5. Due(p, d.add, d.remove, c, left)
  BY <1>2, <1>4 DEF Due, ListenerDue
<1> QED BY <1>3, <1>5 DEF d, left

\* A table that is there, and one that is to be created.
LEMMA TablePlanDue ==
  ASSUME NEW p \in Param, p.kind = "routes", p.state = "present", NEW c \in Cloud,
         NEW name \in Seq(Verbs), c.exists,
         name = IF c.label = p.label THEN <<>> ELSE <<"label">>
  PROVE  LET d == Diff(p, c.entries)
         IN  Due(p, d.add, d.remove, c, Left(name \o Order(p, d))) /\ AddLast(name \o Order(p, d))
<1> DEFINE d == Diff(p, c.entries)
           left == Left(name \o Order(p, d))
<1>1. /\ Left(Order(p, d)) = (IF d.add = {} THEN {} ELSE {"add"})
                               \cup (IF d.remove = {} THEN {} ELSE {"remove"})
      /\ AddLast(Order(p, d)) /\ Order(p, d) \in Seq(Verbs)
  BY LeftOrder, OrderGentle
<1>2. Left(name) = (IF c.label = p.label THEN {} ELSE {"label"})
  BY LeftNone, LeftOne, Zenon
<1>3. /\ left = Left(name) \cup Left(Order(p, d))
      /\ AddLast(name \o Order(p, d))
  <2>1. "add" \notin Left(name)
    BY <1>2
  <2> HIDE DEF d
  <2> QED BY <1>1, <2>1, LeftConcat
<1>4. p.listed => \A k \in Own(p) : \/ k \in d.add
                                    \/ p.want[k] = None /\ k \in d.remove
                                    \/ k \notin d.remove /\ c.entries[k] = p.want[k]
  BY DEF Diff, Own, Param
<1>5. /\ "delete" \notin left /\ "create" \notin left
      /\ c.label # p.label => "label" \in left
      /\ "add" \in left <=> d.add # {}
      /\ "remove" \in left <=> d.remove # {}
  BY <1>1, <1>2, <1>3
<1> HIDE DEF d, left
<1>6. TableDue(p, d.add, d.remove, c, left)
  BY <1>4, <1>5 DEF TableDue
<1>7. Due(p, d.add, d.remove, c, left)
  BY <1>6 DEF Due
<1> QED BY <1>3, <1>7 DEF d, left

LEMMA NewTablePlanDue ==
  ASSUME NEW p \in Param, p.kind = "routes", p.state = "present", NEW c
  PROVE  LET n == Diff(p, NoEntries)
         IN  /\ Due(p, n.add, n.remove, c, Left(<<"create">> \o Order(p, n)))
             /\ AddLast(<<"create">> \o Order(p, n))
<1> DEFINE n == Diff(p, NoEntries)
           s == <<"create">>
           left == Left(s \o Order(p, n))
<1>1. /\ Left(Order(p, n)) = (IF n.add = {} THEN {} ELSE {"add"})
                               \cup (IF n.remove = {} THEN {} ELSE {"remove"})
      /\ AddLast(Order(p, n)) /\ Order(p, n) \in Seq(Verbs)
  BY LeftOrder, OrderGentle
<1>2. Left(s) = {"create"} /\ s \in Seq(Verbs)
  <2>1. "create" \in Verbs
    BY DEF Verbs
  <2> QED BY <2>1, LeftOne, Single
<1>3. left = Left(s) \cup Left(Order(p, n)) /\ AddLast(s \o Order(p, n))
  <2>1. "add" \notin Left(s)
    BY <1>2
  <2> HIDE DEF n, s
  <2> QED BY <1>1, <1>2, <2>1, LeftConcat
<1>4. p.listed => \A k \in Own(p) : k \in n.add \/ p.want[k] = None
  BY DEF Diff, Own, Param, NoEntries
<1>5. "delete" \notin left /\ "create" \in left /\ ("add" \in left <=> n.add # {})
  BY <1>1, <1>2, <1>3
<1> HIDE DEF n, s, left
<1>6. TableDue(p, n.add, n.remove, c, left)
  BY <1>4, <1>5 DEF TableDue
<1>7. Due(p, n.add, n.remove, c, left)
  BY <1>6 DEF Due
<1> QED BY <1>3, <1>7 DEF n, s, left

\* Whatever Find decides.
LEMMA PlanDue ==
  ASSUME Shapes, NEW t \in Tasks
  PROVE  \E calls \in Seq(Verbs), d \in [add : SUBSET Keys, remove : SUBSET Keys] :
           /\ Plan(t) = Decide(t, calls, d)
           /\ Due(params[t], d.add, d.remove, cloud, Left(calls))
           /\ params[t].kind = "routes" => AddLast(calls)
           /\ params[t].kind = "targets" /\ params[t].state = "absent" => d.add = {}
<1> DEFINE p == params[t]
           d == Diff(p, cloud.entries)
           n == Diff(p, NoEntries)
           name == IF cloud.label = p.label THEN <<>> ELSE <<"label">>
           gone == IF cloud.exists THEN <<"delete">> ELSE <<>>
           S == [add : SUBSET Keys, remove : SUBSET Keys]
<1>1. p \in Param /\ cloud \in Cloud /\ d \in S /\ n \in S
  BY DiffTyped DEF Shapes
<1>2. Order(p, d) \in Seq(Verbs) /\ Order(p, n) \in Seq(Verbs)
  BY OrderGentle
<1>3. name \in Seq(Verbs) /\ <<"create">> \in Seq(Verbs) /\ gone \in Seq(Verbs)
  <2>1. "create" \in Verbs /\ "label" \in Verbs /\ "delete" \in Verbs
    BY DEF Verbs
  <2>2. /\ <<"create">> \in Seq(Verbs) /\ <<"delete">> \in Seq(Verbs) /\ <<"label">> \in Seq(Verbs)
        /\ <<>> \in Seq(Verbs)
    BY <2>1, Single, EmptySeq
  <2> QED BY <2>2, Zenon
<1>4. name \o Order(p, d) \in Seq(Verbs) /\ <<"create">> \o Order(p, n) \in Seq(Verbs)
  BY <1>2, <1>3, ConcatProperties
<1>5. CASE p.kind = "targets"
  <2>1. Plan(t) = Decide(t, Order(p, d), d)
    BY <1>5 DEF Plan
  <2>2. Due(p, d.add, d.remove, cloud, Left(Order(p, d))) /\ (p.state = "absent" => d.add = {})
    BY <1>1, <1>5, TargetsPlanDue
  <2> HIDE DEF d
  <2> QED BY <1>1, <1>2, <1>5, <2>1, <2>2
<1>6. CASE p.kind = "routes" /\ p.state = "absent"
  <2>1. Plan(t) = Decide(t, gone, d)
    BY <1>6 DEF Plan
  <2>2. Left(gone) = (IF cloud.exists THEN {"delete"} ELSE {}) /\ AddLast(gone)
    BY LeftNone, LeftOne, Zenon
  <2> HIDE DEF d, gone
  <2>3. Due(p, d.add, d.remove, cloud, Left(gone))
    BY <1>6, <2>2 DEF Due
  <2> QED BY <1>1, <1>3, <1>6, <2>1, <2>2, <2>3
<1>7. CASE p.kind = "routes" /\ p.state = "present" /\ cloud.exists
  <2> DEFINE calls == name \o Order(p, d)
  <2>1. Plan(t) = Decide(t, calls, d)
    BY <1>7 DEF Plan
  <2>2. Due(p, d.add, d.remove, cloud, Left(calls)) /\ AddLast(calls)
    BY <1>1, <1>3, <1>7, TablePlanDue
  <2> HIDE DEF d, calls
  <2> QED BY <1>1, <1>4, <1>7, <2>1, <2>2 DEF calls
<1>8. CASE p.kind = "routes" /\ p.state = "present" /\ ~cloud.exists
  <2> DEFINE calls == <<"create">> \o Order(p, n)
  <2>1. Plan(t) = Decide(t, calls, n)
    BY <1>8 DEF Plan
  <2>2. Due(p, n.add, n.remove, cloud, Left(calls)) /\ AddLast(calls)
    BY <1>1, <1>8, NewTablePlanDue
  <2> HIDE DEF n, calls
  <2> QED BY <1>1, <1>4, <1>8, <2>1, <2>2 DEF calls
<1> QED BY <1>1, <1>5, <1>6, <1>7, <1>8 DEF Param, Cloud

\* The task after its plan.
LEMMA PlanSure ==
  ASSUME Shapes, NEW t \in Tasks
  PROVE  LET q == Plan(t)
         IN  \/ params[t].check /\ q.pc = "done"
             \/ q.pc = "done" /\ q.result = "unchanged" /\ Due(params[t], {}, {}, cloud, {})
             \/ /\ q.pc = "call" /\ q.result = task[t].result
                /\ Due(params[t], q.add, q.remove, cloud, Left(q.todo))
                /\ params[t].kind = "routes" => AddLast(q.todo)
                /\ params[t].kind = "targets" /\ params[t].state = "absent" => q.add = {}
<1>1. PICK calls \in Seq(Verbs), d \in [add : SUBSET Keys, remove : SUBSET Keys] :
        /\ Plan(t) = Decide(t, calls, d)
        /\ Due(params[t], d.add, d.remove, cloud, Left(calls))
        /\ params[t].kind = "routes" => AddLast(calls)
        /\ params[t].kind = "targets" /\ params[t].state = "absent" => d.add = {}
  BY PlanDue
<1> DEFINE q == Decide(t, calls, d)
<1>2. \/ /\ q.pc = "done"
         /\ \/ calls = <<>> /\ q.result = "unchanged"
            \/ calls # <<>> /\ params[t].check /\ q.result = "changed"
      \/ /\ q.pc = "call" /\ q.todo = calls /\ q.add = d.add /\ q.remove = d.remove
         /\ q.result = task[t].result
  BY DecideIs
<1>3. calls = <<>> => Due(params[t], {}, {}, cloud, {})
  <2>1. calls = <<>> => Left(calls) = {}
    BY LeftNone
  <2> QED BY <1>1, <2>1, DueDone
<1>4. Plan(t) = q
  BY <1>1
<1> HIDE DEF q
<1> QED BY <1>1, <1>2, <1>3, <1>4

-----------------------------------------------------------------------------
(* What a call, or a job, does to what is left to do.                      *)

LEMMA EffectDue ==
  ASSUME Shapes, NEW t \in Tasks, params[t].kind = "routes", task[t].pc = "call",
         AddLast(task[t].todo),
         Due(params[t], task[t].add, task[t].remove, cloud, Left(task[t].todo)),
         cloud' = Effect(t, Head(task[t].todo))
  PROVE  /\ Due(params[t], task[t].add, task[t].remove, cloud', Left(task[t].todo))
         /\ Due(params[t], task[t].add, task[t].remove, cloud', Left(Tail(task[t].todo)))
         /\ Head(task[t].todo) = "delete" => Due(params[t], {}, {}, cloud', {})
<1> DEFINE do == Head(task[t].todo)
           p  == params[t]
           add == task[t].add
           remove == task[t].remove
           L  == Left(task[t].todo)
           R  == Left(Tail(task[t].todo))
<1>1. /\ task[t].todo \in Seq(Verbs) /\ task[t].todo # <<>> /\ p \in Param /\ cloud \in Cloud
      /\ add \subseteq Keys
  BY DEF Shapes, WellFormed, Record
<1>2. L = {do} \cup R /\ (do = "add" => R = {}) /\ do \in Verbs
  BY <1>1, LeftTail, HeadTailProperties
<1>3. Due(p, add, remove, cloud, L) /\ p.kind = "routes" /\ p.state \in {"present", "absent"}
  BY <1>1 DEF Param
<1> DEFINE e == Changed(cloud.entries, do, t)
<1>4. \A k \in Keys : e[k] = IF do = "add" /\ k \in add THEN p.want[k]
                             ELSE IF do = "remove" /\ k \in remove THEN None ELSE cloud.entries[k]
  BY DEF Changed
<1>5. Own(p) \subseteq Keys
  BY DEF Own
<1> HIDE DEF p, add, remove, L, R, do, e
<1>6. CASE p.state = "absent"
  <2>1. do = "delete" /\ R \subseteq {"delete"} /\ L \subseteq {"delete"}
    BY <1>2, <1>3, <1>6 DEF Due
  <2>2. ~cloud'.exists
    BY <1>1, <2>1 DEF Effect, Cloud, do
  <2>3. \A left : left \subseteq {"delete"} => Due(p, add, remove, cloud', left) /\ Due(p, {}, {}, cloud', left)
    BY <1>3, <1>6, <2>2 DEF Due
  <2> QED BY <2>1, <2>3 DEF p, add, remove, L, R
<1>7. CASE p.state = "present"
  <2>1. TableDue(p, add, remove, cloud, L)
    BY <1>3, <1>7 DEF Due
  <2>2. do # "delete"
    BY <1>2, <2>1 DEF TableDue
  <2>3. CASE do = "create"
    <3>1. cloud'.exists /\ cloud'.label = p.label /\ \A k \in Keys : cloud'.entries[k] = None
      BY <2>3 DEF Effect, do, p, NoEntries
    <3>2. TableDue(p, add, remove, cloud', L) /\ TableDue(p, add, remove, cloud', R)
      BY <1>2, <1>5, <2>1, <2>3, <3>1 DEF TableDue
    <3> QED BY <1>3, <1>7, <2>2, <3>2 DEF Due, p, add, remove, L, R, do
  <2>4. CASE do = "label"
    <3>1. cloud'.exists = cloud.exists /\ cloud'.label = p.label /\ cloud'.entries = cloud.entries
      BY <1>1, <2>4 DEF Effect, do, p, Cloud
    <3>2. TableDue(p, add, remove, cloud', L) /\ TableDue(p, add, remove, cloud', R)
      BY <1>2, <1>5, <2>1, <2>4, <3>1 DEF TableDue
    <3> QED BY <1>3, <1>7, <2>2, <3>2 DEF Due, p, add, remove, L, R, do
  <2>5. CASE do \in {"add", "remove"}
    <3>1. cloud' = [cloud EXCEPT !.entries = e]
      BY <2>5 DEF Effect, do, e
    <3>2. cloud'.exists = cloud.exists /\ cloud'.label = cloud.label /\ cloud'.entries = e
      BY <1>1, <3>1 DEF Cloud
    <3>3. TableDue(p, add, remove, cloud', L)
      BY <1>2, <1>4, <1>5, <2>1, <2>5, <3>2 DEF TableDue
    <3>4. TableDue(p, add, remove, cloud', R)
      BY <1>2, <1>4, <1>5, <2>1, <2>5, <3>2 DEF TableDue
    <3> QED BY <1>3, <1>7, <2>2, <3>3, <3>4 DEF Due, p, add, remove, L, R, do
  <2> QED BY <1>2, <2>2, <2>3, <2>4, <2>5 DEF Verbs
<1> QED BY <1>3, <1>6, <1>7

LEMMA JobDue ==
  ASSUME Shapes, NEW t \in Tasks, params[t].kind = "targets", Bulk(t),
         params[t].state = "absent" => task[t].add = {},
         NEW do \in {"add", "remove"}, cloud'.entries = Changed(cloud.entries, do, t),
         NEW left, Due(params[t], task[t].add, task[t].remove, cloud, left)
  PROVE  \A rest : left \subseteq {do} \cup rest =>
                     Due(params[t], task[t].add, task[t].remove, cloud', rest)
<1> DEFINE p == params[t]
           add == task[t].add
           remove == task[t].remove
<1>1. ListenerDue(p, add, remove, cloud, left) /\ p \in Param
  BY DEF Due, Shapes
<1>2. \A k \in Keys : cloud'.entries[k] = IF do = "add" /\ k \in add THEN p.want[k]
                             ELSE IF do = "remove" /\ k \in remove THEN None ELSE cloud.entries[k]
  BY DEF Changed
<1>3. /\ p.kind = "targets" /\ p.state \in {"present", "absent"}
      /\ p.state = "absent" => add = {}
      /\ p.state = "present" => \A k \in Keys : k \in remove => p.want[k] = None
  BY <1>1 DEF Bulk, Has, Param
<1> HIDE DEF p, add, remove
<1>4. \A k \in Keys : /\ k \in add => AsListed(p, p.want[k], k)
                      /\ k \in remove => AsListed(p, None, k)
  BY <1>3 DEF AsListed
<1>5. ASSUME NEW rest, left \subseteq {do} \cup rest PROVE ListenerDue(p, add, remove, cloud', rest)
  BY <1>1, <1>2, <1>4, <1>5 DEF ListenerDue
<1> QED BY <1>3, <1>5 DEF Due, p, add, remove


-----------------------------------------------------------------------------
(* The steps, and what a task says at its last one.                        *)

\* While a task that has the table to itself is busy no other task takes a step,
\* and every open job is its own.
LEMMA BusyAlone ==
  ASSUME OInv, NEW u \in Tasks, Alone(u), task[u].pc \in Busy, NEW t \in Tasks \ {u},
         Start(t) \/ Find(t) \/ Call(t) \/ Wait(t) \/ Report(t)
  PROVE  FALSE
<1>1. task[t].pc # "done" /\ (task[t].pc = "start" => Start(t))
  BY DEF Start, Find, Call, Wait, Report
<1>2. t \notin params[u].after
  BY <1>1 DEF OInv, Turns, Busy
<1>3. u \in params[t].after
  BY <1>2 DEF Alone
<1> QED BY <1>1, <1>3 DEF OInv, Turns, Start, Busy

LEMMA OwnJobs ==
  ASSUME OInv, NEW u \in Tasks, Alone(u), task[u].calm, task[u].pc \in Busy,
         NEW j \in DOMAIN jobs, jobs[j].status = "doing"
  PROVE  jobs[j].by = u
<1> DEFINE w == jobs[j].by
<1>1. w \in Tasks /\ task[w].pc # "start"
  BY JobTyped DEF OInv, IInv, Job, Posted
<1>2. w \notin params[u].after
  BY DEF OInv, Ordered, Calm, Busy
<1>3. w # u => u \in params[w].after
  BY <1>1, <1>2 DEF Alone
<1> QED BY <1>1, <1>3 DEF OInv, Turns, Busy

LEMMA SureTask ==
  ASSUME RInv, OInv', NEW t \in Tasks, Alters(t),
         Start(t) \/ Find(t) \/ Call(t) \/ Wait(t) \/ Report(t), Sure(t)'
  PROVE  RInv'
<1>1. ASSUME NEW u \in Tasks \ {t} PROVE Sure(u)'
  <2>1. task'[u] = task[u] /\ params' = params
    BY DEF Alters
  <2>2. Alone(u)' => Alone(u)
    BY <2>1 DEF Alone
  <2>3. ~(Alone(u) /\ task[u].pc \in Busy)
    BY <1>1, BusyAlone DEF RInv
  <2> QED BY <2>1, <2>2, <2>3 DEF Sure
<1> QED BY <1>1 DEF RInv

LEMMA SureFind == ASSUME RInv, OInv', NEW t \in Tasks, Find(t) PROVE RInv'
<1>0. Shapes
  BY DEF RInv, OInv, IInv
<1>1. /\ Alters(t) /\ UNCHANGED <<cloud, jobs>>
      /\ \/ task'[t] = Plan(t)
         \/ task'[t].pc = "done"
  BY <1>0, FindMoves
<1>2. Sure(t)'
  <2>1. CASE task'[t] = Plan(t)
    <3> DEFINE q == task'[t]
    <3>1. \/ q.pc = "done"
          \/ /\ q.pc = "call"
             /\ Due(params[t], q.add, q.remove, cloud, Left(q.todo))
             /\ params[t].kind = "routes" => AddLast(q.todo)
             /\ params[t].kind = "targets" /\ params[t].state = "absent" => q.add = {}
      BY <1>0, <2>1, PlanSure
    <3>2. cloud' = cloud /\ params' = params
      BY <1>1 DEF Alters
    <3> HIDE DEF q
    <3>3. \/ q.pc = "done"
          \/ /\ q.pc = "call"
             /\ Due(params'[t], q.add, q.remove, cloud', Left(q.todo))
             /\ params'[t].kind = "routes" => AddLast(q.todo)
             /\ params'[t].kind = "targets" /\ params'[t].state = "absent" => q.add = {}
      BY <3>1, <3>2
    <3> QED BY <3>3 DEF Sure, Busy, q
  <2>2. CASE task'[t].pc = "done"
    BY <2>2 DEF Sure, Busy
  <2> QED BY <1>1, <2>1, <2>2
<1> QED BY <1>1, <1>2, SureTask

\* The next call, after one that worked: Due of what is left after it.
LEMMA OnwardSure ==
  ASSUME RInv, NEW t \in Tasks, Alters(t), task[t].pc \in {"call", "wait"}, task'[t] = Onward(t),
         Alone(t) /\ task[t].calm =>
           Due(params[t], task[t].add, task[t].remove, cloud', Left(Tail(task[t].todo)))
  PROVE  Sure(t)'
<1> DEFINE q    == task'[t]
           todo == task[t].todo
<1>0. /\ Shapes /\ Sure(t) /\ task[t].pc \in Busy
      /\ todo \in Seq(Verbs) /\ todo # <<>>
  BY DEF RInv, OInv, IInv, Shapes, WellFormed, Record, Busy
<1>1. /\ q.add = task[t].add /\ q.remove = task[t].remove /\ q.calm = task[t].calm
      /\ \/ q.pc = "done"
         \/ q.pc = "report" /\ q.todo = todo /\ Tail(todo) = <<>>
         \/ q.pc = "call" /\ q.todo = Tail(todo)
  BY <1>0, OnwardIs
<1>2. params' = params /\ (Alone(t)' => Alone(t))
  BY DEF Alters, Alone
<1>3. AddLast(todo) => AddLast(Tail(todo))
  BY <1>0, LeftTail
<1>4. Tail(todo) = <<>> => Left(Tail(todo)) = {}
  BY LeftNone
<1> HIDE DEF q, todo
<1>5. ASSUME Alone(t)', q.calm, q.pc \in Busy
      PROVE  /\ params'[t].kind = "targets" /\ params'[t].state = "absent" => q.add = {}
             /\ params'[t].kind = "routes" => AddLast(q.todo)
             /\ Due(params'[t], q.add, q.remove, cloud', IF q.pc = "report" THEN {} ELSE Left(q.todo))
             /\ q.pc # "wait"
  <2>1. /\ params[t].kind = "targets" /\ params[t].state = "absent" => task[t].add = {}
        /\ params[t].kind = "routes" => AddLast(todo)
        /\ Due(params[t], task[t].add, task[t].remove, cloud', Left(Tail(todo)))
    BY <1>0, <1>1, <1>2, <1>5 DEF Sure, todo
  <2>2. CASE q.pc = "report" /\ q.todo = todo /\ Tail(todo) = <<>>
    BY <1>1, <1>2, <1>4, <2>1, <2>2
  <2>3. CASE q.pc = "call" /\ q.todo = Tail(todo)
    BY <1>1, <1>2, <1>3, <2>1, <2>3
  <2> QED BY <1>1, <1>5, <2>2, <2>3 DEF Busy
<1> QED BY <1>5 DEF Sure, q

LEMMA SureCall == ASSUME RInv, OInv', NEW t \in Tasks, Call(t) PROVE RInv'
<1> DEFINE do == Head(task[t].todo)
           q  == task'[t]
<1>0. Shapes /\ Sure(t) /\ task[t].pc = "call" /\ task[t].pc \in Busy
  BY DEF RInv, OInv, IInv, Call, Busy
<1>1. Alters(t)
  BY <1>0, CallMoves
<1>2. params' = params /\ (Alone(t)' => Alone(t))
  BY <1>1 DEF Alters, Alone
<1>3. ASSUME Alone(t), task[t].calm
      PROVE  /\ params[t].kind = "targets" /\ params[t].state = "absent" => task[t].add = {}
             /\ params[t].kind = "routes" => AddLast(task[t].todo)
             /\ Due(params[t], task[t].add, task[t].remove, cloud, Left(task[t].todo))
  BY <1>0, <1>3 DEF Sure
<1>4. CASE params[t].kind = "routes" /\ Works(t, do) /\ q = Onward(t)
  <2>1. cloud' = Effect(t, do)
    BY <1>4 DEF Works
  <2>2. Alone(t) /\ task[t].calm =>
          Due(params[t], task[t].add, task[t].remove, cloud', Left(Tail(task[t].todo)))
    BY <1>0, <1>3, <1>4, <2>1, EffectDue
  <2>3. Sure(t)'
    BY <1>0, <1>1, <1>4, <2>2, OnwardSure
  <2> QED BY <1>1, <2>3, SureTask
<1>5. CASE /\ Works(t, do) \/ UNCHANGED <<cloud, jobs>>
           /\ Like(q, task[t])
           /\ q.pc = "wait" => /\ params[t].kind # "routes" /\ Works(t, do)
                               /\ q.job = Len(jobs) + 1
           /\ q.pc \in {"call", "wait", "done"}
  <2>1. ASSUME Alone(t), task[t].calm
        PROVE  Due(params[t], task[t].add, task[t].remove, cloud', Left(task[t].todo))
    <3>1. CASE UNCHANGED cloud
      BY <1>3, <2>1, <3>1
    <3>2. CASE ~UNCHANGED cloud
      <4>1. params[t].kind = "routes" /\ cloud' = Effect(t, do)
        <5>1. Works(t, do) /\ params[t].kind # "targets"
          BY <1>5, <3>2 DEF Works
        <5> QED BY <1>0, <5>1 DEF Works, Shapes, Param
      <4> QED BY <1>0, <1>3, <2>1, <4>1, EffectDue
    <3> QED BY <3>1, <3>2
  <2>2. q.pc = "wait" => jobs'[q.job].status # "done"
    <3>1. ASSUME q.pc = "wait" PROVE jobs'[q.job].status # "done"
      <4>1. params[t].kind = "targets" /\ Works(t, do) /\ q.job = Len(jobs) + 1
        BY <1>0, <1>5, <3>1 DEF Shapes, Param
      <4>2. jobs'[Len(jobs) + 1] = [by |-> t, do |-> do, status |-> "doing"]
        BY <1>0, <4>1, WorksGrow
      <4> HIDE DEF do, q
      <4> QED BY <4>1, <4>2
    <3> QED BY <3>1
  <2> HIDE DEF q, do
  <2>3. q.pc # "report" /\ q.todo = task[t].todo /\ q.add = task[t].add /\ q.remove = task[t].remove
        /\ q.calm = task[t].calm
    BY <1>5 DEF Like
  <2>4. Sure(t)'
    <3>1. ASSUME Alone(t)', q.calm
          PROVE  /\ params'[t].kind = "targets" /\ params'[t].state = "absent" => q.add = {}
                 /\ params'[t].kind = "routes" => AddLast(q.todo)
                 /\ Due(params'[t], q.add, q.remove, cloud', IF q.pc = "report" THEN {} ELSE Left(q.todo))
      BY <1>2, <1>3, <2>1, <2>3, <3>1
    <3> QED BY <2>2, <3>1 DEF Sure, q
  <2> QED BY <1>1, <2>4, SureTask
<1> HIDE DEF q, do
<1>6. \/ params[t].kind = "routes" /\ Works(t, do) /\ q = Onward(t)
      \/ /\ Works(t, do) \/ UNCHANGED <<cloud, jobs>>
         /\ q.pc = "done"
      \/ /\ Works(t, do) \/ UNCHANGED <<cloud, jobs>>
         /\ Like(q, task[t])
         /\ q.pc = "wait" => /\ params[t].kind # "routes" /\ Works(t, do)
                             /\ q.job = Len(jobs) + 1
         /\ q.pc \in {"call", "wait", "done"}
  BY <1>0, CallMoves DEF q, do
<1>7. CASE q.pc = "done"
  <2>1. Sure(t)'
    BY <1>7 DEF Sure, Busy, q
  <2> QED BY <1>1, <2>1, SureTask
<1> QED BY <1>4, <1>5, <1>6, <1>7

LEMMA SureWait == ASSUME RInv, OInv', NEW t \in Tasks, Wait(t) PROVE RInv'
<1>0. Shapes /\ Sure(t)
  BY DEF RInv, OInv, IInv
<1>1. /\ Alters(t) /\ UNCHANGED <<cloud, jobs>> /\ task[t].pc = "wait"
      /\ \/ jobs[task[t].job].status = "done" /\ task'[t] = Onward(t)
         \/ task'[t].pc = "done"
  BY <1>0, WaitMoves
<1>2. CASE jobs[task[t].job].status = "done" /\ task'[t] = Onward(t)
  <2>1. Alone(t) /\ task[t].calm =>
          Due(params[t], task[t].add, task[t].remove, cloud', Left(Tail(task[t].todo)))
    BY <1>0, <1>1, <1>2 DEF Sure, Busy
  <2>2. Sure(t)'
    BY <1>1, <1>2, <2>1, OnwardSure
  <2> QED BY <1>1, <2>2, SureTask
<1>3. CASE task'[t].pc = "done"
  <2>1. Sure(t)'
    BY <1>3 DEF Sure, Busy
  <2> QED BY <1>1, <2>1, SureTask
<1> QED BY <1>1, <1>2, <1>3

LEMMA SureQuiet == ASSUME RInv, OInv', NEW t \in Tasks, Start(t) \/ Report(t) PROVE RInv'
<1>0. Shapes
  BY DEF RInv, OInv, IInv
<1>1. Alters(t) /\ task'[t].pc \in {"find", "done"}
  BY <1>0, StartMoves, ReportMoves
<1>2. Sure(t)'
  BY <1>1 DEF Sure, Busy
<1> QED BY <1>1, <1>2, SureTask

LEMMA SureCarry == ASSUME RInv, OInv', NEW j \in DOMAIN jobs, Carry(j) PROVE RInv'
<1>0. Shapes /\ Posted(j)
  BY DEF RInv, OInv, IInv
<1>1. /\ UNCHANGED <<params, task, start>>
      /\ jobs[j] \in Job /\ jobs[j].status = "doing"
      /\ \A i \in DOMAIN jobs \ {j} : jobs'[i] = jobs[i]
      /\ \/ cloud'.entries = Changed(cloud.entries, jobs[j].do, jobs[j].by)
         \/ jobs'[j].status = "failed" /\ UNCHANGED cloud
  BY <1>0, CarryMoves
<1>2. ASSUME NEW t \in Tasks, Alone(t), task[t].calm, task[t].pc \in Busy
      PROVE  /\ Due(params[t], task[t].add, task[t].remove, cloud',
                    IF task[t].pc = "report" THEN {} ELSE Left(task[t].todo))
             /\ task[t].pc = "wait" /\ jobs'[task[t].job].status = "done" =>
                  Due(params[t], task[t].add, task[t].remove, cloud', Left(Tail(task[t].todo)))
  <2> DEFINE now == IF task[t].pc = "report" THEN {} ELSE Left(task[t].todo)
             D(c, left) == Due(params[t], task[t].add, task[t].remove, c, left)
             do == jobs[j].do
  <2>1. /\ D(cloud, now) /\ (params[t].kind = "targets" /\ params[t].state = "absent" => task[t].add = {})
        /\ task[t].pc = "wait" /\ jobs[task[t].job].status = "done" => D(cloud, Left(Tail(task[t].todo)))
        /\ Bulk(t) /\ Waits(t)
    BY <1>2 DEF RInv, Sure, OInv, Ordered
  <2>2. jobs[j].by = t
    BY <1>1, <1>2, OwnJobs DEF RInv
  <2>3. params[t].kind = "targets" /\ do \in {"add", "remove"}
    BY <1>0, <2>2 DEF Posted
  <2>4. task[t].pc = "wait" /\ task[t].job # j => jobs'[task[t].job] = jobs[task[t].job]
    BY <1>1, <2>1 DEF Waits
  <2>5. CASE jobs'[j].status = "failed" /\ UNCHANGED cloud
    <3> HIDE DEF D, now
    <3>1. D(cloud', now)
      BY <2>1, <2>5
    <3>2. task[t].pc = "wait" /\ jobs'[task[t].job].status = "done" => D(cloud', Left(Tail(task[t].todo)))
      BY <2>1, <2>4, <2>5
    <3> QED BY <3>1, <3>2 DEF D, now
  <2>6. CASE cloud'.entries = Changed(cloud.entries, do, t)
    <3>1. \A left : D(cloud, left) => \A rest : left \subseteq {do} \cup rest => D(cloud', rest)
      <4>1. ASSUME NEW left, D(cloud, left) PROVE \A rest : left \subseteq {do} \cup rest => D(cloud', rest)
        BY <1>0, <2>1, <2>3, <2>6, <4>1, JobDue
      <4> QED BY <4>1
    <3>2. task[t].pc = "wait" /\ task[t].job = j => Left(task[t].todo) = {do} \cup Left(Tail(task[t].todo))
      <4>1. ASSUME task[t].pc = "wait", task[t].job = j
            PROVE  Left(task[t].todo) = {do} \cup Left(Tail(task[t].todo))
        <5>1. task[t].todo \in Seq(Verbs) /\ task[t].todo # <<>>
          BY <1>0, <4>1 DEF Shapes, WellFormed, Record
        <5>2. Left(task[t].todo) = {Head(task[t].todo)} \cup Left(Tail(task[t].todo))
          BY <5>1, LeftTail
        <5> QED BY <2>1, <4>1, <5>2 DEF Waits
      <4> QED BY <4>1
    <3>3. task[t].pc = "wait" => now = Left(task[t].todo)
      OBVIOUS
    <3> HIDE DEF D, now, do
    <3>4. D(cloud', now)
      BY <2>1, <3>1
    <3>5. task[t].pc = "wait" /\ jobs'[task[t].job].status = "done" => D(cloud', Left(Tail(task[t].todo)))
      <4>1. CASE task[t].job = j
        BY <2>1, <3>1, <3>2, <3>3, <4>1
      <4>2. CASE task[t].job # j
        BY <2>1, <2>4, <3>1, <4>2
      <4> QED BY <4>1, <4>2
    <3> QED BY <3>4, <3>5 DEF D, now
  <2> QED BY <1>1, <2>2, <2>5, <2>6
<1>3. ASSUME NEW t \in Tasks PROVE Sure(t)'
  <2>1. Alone(t)' => Alone(t)
    BY <1>1 DEF Alone
  <2>2. Alone(t) /\ task[t].calm /\ task[t].pc \in Busy =>
           /\ params[t].kind = "targets" /\ params[t].state = "absent" => task[t].add = {}
           /\ params[t].kind = "routes" => AddLast(task[t].todo)
    BY DEF RInv, Sure
  <2> QED BY <1>1, <1>2, <2>1, <2>2 DEF Sure
<1> QED BY <1>3 DEF RInv

LEMMA SureInit == Init => RInv
<1> SUFFICES ASSUME Init PROVE RInv
  OBVIOUS
<1>1. ASSUME NEW t \in Tasks PROVE Sure(t)
  BY DEF Init, Begun, Sure, Busy
<1> QED BY <1>1, OrderInit DEF RInv

LEMMA SureStep == RInv /\ [Next]_vars => RInv'
<1> SUFFICES ASSUME RInv, [Next]_vars PROVE RInv'
  OBVIOUS
<1>1. OInv'
  BY OrderStep DEF RInv
<1>2. CASE UNCHANGED vars
  <2>1. ASSUME NEW t \in Tasks PROVE Sure(t)'
    <3>1. Sure(t)
      BY DEF RInv
    <3> QED BY <1>2, <3>1 DEF vars, Sure, Alone
  <2> QED BY <1>1, <2>1 DEF RInv
<1>3. CASE Next
  BY <1>1, <1>3, SureQuiet, SureFind, SureCall, SureWait, SureCarry DEF Next
<1> QED BY <1>2, <1>3

\* A task that says it succeeded has nothing left to do.
LEMMA SaysSo ==
  ASSUME RInv, [Next]_vars, NEW t \in Tasks, Alone(t), ~params[t].check, task[t].pc # "done",
         task[t].calm, task'[t].result \in {"changed", "unchanged"}
  PROVE  Due(params[t], {}, {}, cloud', {})
<1> DEFINE q  == task'[t]
           do == Head(task[t].todo)
<1>0. Shapes /\ Sure(t) /\ Ordered(t)
  BY DEF RInv, OInv, IInv
<1>1. task[t].result = "none"
  BY <1>0 DEF Ordered, Shapes, WellFormed, Record, PCs
<1>2. task'[t] # task[t]
  BY <1>1
<1>3. Start(t) \/ Find(t) \/ Call(t) \/ Wait(t) \/ Report(t)
  <2>1. Next
    BY <1>2 DEF vars
  <2>2. ASSUME NEW u \in Tasks \ {t}, Start(u) \/ Find(u) \/ Call(u) \/ Wait(u) \/ Report(u)
        PROVE  FALSE
    <3>1. Alters(u)
      BY <1>0, <2>2, StartMoves, FindMoves, CallMoves, WaitMoves, ReportMoves
    <3> QED BY <1>2, <3>1 DEF Alters
  <2>3. ASSUME NEW j \in DOMAIN jobs, Carry(j) PROVE FALSE
    BY <1>2, <2>3 DEF Carry
  <2> QED BY <2>1, <2>2, <2>3 DEF Next
<1>4. ~Start(t)
  BY <1>0, <1>1, StartMoves
<1>5. CASE Find(t)
  <2>1. UNCHANGED cloud /\ (q = Plan(t) \/ q.result = "failed")
    BY <1>0, <1>5, FindMoves
  <2>2. Due(params[t], {}, {}, cloud, {})
    BY <1>0, <1>1, <2>1, PlanSure, PlanMoves
  <2> QED BY <2>1, <2>2
<1>6. CASE Call(t)
  <2>1. \/ params[t].kind = "routes" /\ Works(t, do) /\ q = Onward(t)
        \/ ~Accepted(t, do) /\ UNCHANGED cloud /\ q.result = IF do = "delete" THEN "unchanged" ELSE "failed"
        \/ q.result \in {"none", "failed"}
    BY <1>0, <1>1, <1>6, CallMoves
  <2>2. /\ task[t].pc = "call" /\ task[t].todo \in Seq(Verbs) /\ task[t].todo # <<>>
        /\ params[t] \in Param
    BY <1>0, <1>6 DEF Call, Shapes, WellFormed, Record
  <2>3. /\ Due(params[t], task[t].add, task[t].remove, cloud, Left(task[t].todo))
        /\ params[t].kind = "routes" => AddLast(task[t].todo)
    BY <1>0, <2>2 DEF Sure, Busy
  <2>4. CASE params[t].kind = "routes" /\ Works(t, do) /\ q = Onward(t)
    <3>1. /\ Due(params[t], task[t].add, task[t].remove, cloud', Left(Tail(task[t].todo)))
          /\ do = "delete" => Due(params[t], {}, {}, cloud', {})
      <4>1. cloud' = Effect(t, do)
        BY <2>4 DEF Works
      <4> QED BY <1>0, <2>2, <2>3, <2>4, <4>1, EffectDue
    <3>2. do = "delete" \/ task[t].todo = <<"create">>
      BY <1>0, <1>1, <2>2, <2>4, OnwardIs
    <3>3. task[t].todo = <<"create">> => Left(Tail(task[t].todo)) = {}
      <4>1. task[t].todo = <<"create">> => Tail(task[t].todo) = <<>>
        BY Pairs
      <4> QED BY <4>1, LeftNone
    <3>4. task[t].todo = <<"create">> => Due(params[t], {}, {}, cloud', {})
      <4>1. task[t].todo = <<"create">> => Due(params[t], task[t].add, task[t].remove, cloud', {})
        BY <3>1, <3>3
      <4> QED BY <4>1, DueDone
    <3> QED BY <3>1, <3>2, <3>4
  <2>5. CASE ~Accepted(t, do) /\ UNCHANGED cloud /\ do = "delete"
    <3>1. ~cloud.exists
      BY <2>5 DEF Accepted
    <3>2. "delete" \in Left(task[t].todo)
      <4>1. Left(task[t].todo) = {do} \cup Left(Tail(task[t].todo))
        BY <2>2, LeftTail
      <4> QED BY <2>5, <4>1
    <3>3. params[t].kind = "routes"
      <4>1. params[t].kind # "targets"
        <5>1. ASSUME params[t].kind = "targets" PROVE FALSE
          <6>1. Head(task[t].todo) \in {"add", "remove"}
            BY <1>0, <2>2, <5>1, BulkHead DEF Ordered
          <6> QED BY <2>5, <6>1
        <5> QED BY <5>1
      <4> QED BY <2>2, <4>1 DEF Param
    <3>4. params[t].state = "absent"
      BY <2>2, <2>3, <3>2, <3>3 DEF Due, TableDue, Param
    <3> QED BY <2>5, <3>1, <3>3, <3>4 DEF Due
  <2> QED BY <1>1, <2>1, <2>4, <2>5
<1>7. ~Wait(t)
  <2>1. ASSUME Wait(t) PROVE FALSE
    <3>1. task[t].pc = "wait" /\ (q = Onward(t) \/ q.result = "failed")
      BY <1>0, <2>1, WaitMoves
    <3>2. task[t].todo \in Bulks
      BY <1>0, <3>1 DEF Ordered, Waits, Bulk
    <3>3. q = Onward(t) => q.result = task[t].result
      BY <1>0, <3>1, <3>2, OnwardTargets
    <3> QED BY <1>1, <3>1, <3>3
  <2> QED BY <2>1
<1>8. CASE Report(t)
  <2>1. UNCHANGED cloud /\ task[t].pc = "report"
    BY <1>0, <1>8, ReportMoves
  <2>2. Due(params[t], task[t].add, task[t].remove, cloud, {})
    BY <1>0, <2>1 DEF Sure, Busy
  <2> QED BY <2>1, <2>2, DueDone
<1> QED BY <1>3, <1>4, <1>5, <1>6, <1>7, <1>8

\* route_table and clb_listener_target report success only when the table or the
\* listener is as the task lists it, whatever was there before, and whichever
\* calls failed, were repeated after a lost reply, or were given up by the tasks
\* before.
THEOREM ReportedIsThereAlways == Spec => ReportedIsThere
<1> DEFINE Said == \A t \in Tasks :
       LET p == params[t]
       IN  /\ Alone(t) /\ ~p.check /\ task[t].pc # "done" /\ task'[t].result \in {"changed", "unchanged"}
           /\ task[t].calm
           => IF p.kind = "routes"
              THEN /\ cloud'.exists = (p.state = "present")
                   /\ p.state = "present" => cloud'.label = p.label
                   /\ p.state = "present" /\ p.listed =>
                        \A k \in Own(p) : cloud'.entries[k] = p.want[k]
              ELSE \A k \in Keys :
                     LET now == cloud'.entries[k]
                     IN  IF p.state = "absent" THEN p.want[k] # None => now = None
                         ELSE now = p.want[k] \/ (p.want[k] = None /\ ~p.purge)
<1>1. RInv /\ [Next]_vars => [Said]_vars
  <2> SUFFICES ASSUME RInv, [Next]_vars PROVE Said
    OBVIOUS
  <2>1. cloud' \in Cloud /\ params \in [Tasks -> Param]
    BY SureStep DEF RInv, OInv, IInv, Shapes
  <2>2. ASSUME NEW t \in Tasks, Alone(t), ~params[t].check, task[t].pc # "done",
               task'[t].result \in {"changed", "unchanged"}, task[t].calm
        PROVE  IF params[t].kind = "routes"
               THEN /\ cloud'.exists = (params[t].state = "present")
                    /\ params[t].state = "present" => cloud'.label = params[t].label
                    /\ params[t].state = "present" /\ params[t].listed =>
                         \A k \in Own(params[t]) : cloud'.entries[k] = params[t].want[k]
               ELSE \A k \in Keys : AsListed(params[t], cloud'.entries[k], k)
    <3>1. Due(params[t], {}, {}, cloud', {})
      BY <2>2, SaysSo
    <3> QED BY <2>1, <3>1 DEF Due, TableDue, ListenerDue, Param, Cloud
  <2> QED BY <2>2 DEF AsListed
<1> QED BY <1>1, SureInit, SureStep, PTL DEF Spec, ReportedIsThere


=============================================================================
