-------------------------- MODULE VpcModule_proofs --------------------------
(***************************************************************************)
(* Proofs about VpcModule, for every account, scenario and set of tasks.   *)
(***************************************************************************)
EXTENDS VpcModule, FiniteSetTheorems, TLAPS

(***************************************************************************)
(* What each place in run_module knows.                                    *)
(***************************************************************************)
Planned(t) ==
  /\ pc[t] \in {"start", "find"} => found[t] = None /\ wrote[t] = {}
  /\ pc[t] = "create" => found[t] = None
  /\ pc[t] \in {"delete", "modify", "tags", "refind"} =>
       found[t] \in Ids /\ snap[t] \in Vpc
  /\ pc[t] \in {"create", "modify", "tags", "refind"} => params[t].state = "present"
  /\ pc[t] = "delete" => params[t].state = "absent"
  /\ pc[t] \in {"create", "delete", "modify", "tags", "refind"} => ~params[t].check
  /\ pc[t] # "done" <=> result[t] = "none"

Blameless(t) ==
  /\ params[t].check => wrote[t] = {}
  /\ result[t] \in {"ambiguous", "invalid"} => wrote[t] = {}
  /\ found[t] # None => wrote[t] \subseteq {found[t]}

IInv == TypeOK /\ \A t \in Tasks : Planned(t) /\ Blameless(t)

LEMMA ParamsTyped ==
  ASSUME TypeOK, NEW t \in Tasks
  PROVE  /\ params[t] \in Param
         /\ params[t].state = "present" => params[t].name \in Names
<1>1. params \in Scenarios /\ params \in [Tasks -> Param]
  BY VpcAssumption DEF TypeOK
<1>2. params[t] \in Param
  BY <1>1
<1>3. params[t].state = "present" => params[t].name # None
  BY <1>1, VpcAssumption
<1>4. params[t].name \in Names \cup {None}
  BY <1>2 DEF Param
<1> QED
  BY <1>2, <1>3, <1>4

LEMMA InitInv == Init => IInv
<1> SUFFICES ASSUME Init PROVE IInv
  OBVIOUS
<1>1. vpcs \in [Ids -> Vpc \cup {Unborn, Gone}]
  <2>1. vpcs \in [Ids -> Vpc \cup {Unborn}]
    BY VpcAssumption DEF Init
  <2> QED
    BY <2>1
<1>2. TypeOK
  BY <1>1, VpcAssumption DEF Init, TypeOK, PCs, Results
<1>3. ASSUME NEW t \in Tasks PROVE Planned(t) /\ Blameless(t)
  BY <1>2, VpcAssumption DEF Init, Planned, Blameless
<1> QED
  BY <1>2, <1>3 DEF IInv

-----------------------------------------------------------------------------
(* What the parts of a step change.                                        *)

\* The control of task t moves, to a place and a result of the right kind.
Control(t) ==
  /\ pc' \in [Tasks -> PCs]
  /\ attempt' \in [Tasks -> Nat]
  /\ result' \in [Tasks -> Results]
  /\ \A u \in Tasks \ {t} : pc'[u] = pc[u] /\ result'[u] = result[u]

\* The account stays well-formed and only task t writes.
Cloud(t) ==
  /\ vpcs' \in [Ids -> Vpc \cup {Unborn, Gone}]
  /\ wrote' \in [Tasks -> SUBSET Ids]
  /\ \A u \in Tasks \ {t} : wrote'[u] = wrote[u]

LEMMA FinishMoves ==
  ASSUME TypeOK, NEW t \in Tasks, NEW how \in Results, Finish(t, how)
  PROVE  Control(t) /\ pc'[t] = "done" /\ result'[t] = how
  BY DEF TypeOK, Finish, Control, PCs

LEMMA GotoMoves ==
  ASSUME TypeOK, NEW t \in Tasks, NEW where \in PCs, Goto(t, where)
  PROVE  Control(t) /\ pc'[t] = where /\ result'[t] = result[t]
  BY DEF TypeOK, Goto, Control

\* A failed attempt leaves the task where it is or ends it; it ends as
\* "unchanged" only in a delete.
LEMMA RaiseMoves ==
  ASSUME TypeOK, NEW t \in Tasks, NEW code, Raise(t, code)
  PROVE  /\ Control(t)
         /\ \/ pc'[t] = pc[t] /\ result'[t] = result[t]
            \/ pc'[t] = "done" /\ result'[t] = "sdkError"
            \/ pc[t] = "delete" /\ pc'[t] = "done" /\ result'[t] = "unchanged"
<1>1. CASE Retried(code) /\ attempt[t] + 1 <= Retries
  BY <1>1 DEF TypeOK, Raise, Control
<1>2. CASE ~(Retried(code) /\ attempt[t] + 1 <= Retries) /\ pc[t] = "delete" /\ IsNotFound(code)
  BY <1>2, FinishMoves DEF Raise, Results
<1>3. CASE ~(Retried(code) /\ attempt[t] + 1 <= Retries) /\ ~(pc[t] = "delete" /\ IsNotFound(code))
  BY <1>3, FinishMoves DEF Raise, Results
<1> QED
  BY <1>1, <1>2, <1>3

LEMMA StoreWrites ==
  ASSUME TypeOK, NEW t \in Tasks, NEW i \in Ids, NEW v \in Vpc \cup {Gone}, Store(t, i, v)
  PROVE  Cloud(t) /\ wrote'[t] = wrote[t] \cup {i}
<1>1. vpcs' \in [Ids -> Vpc \cup {Unborn, Gone}]
  BY DEF TypeOK, Store
<1>2. wrote' \in [Tasks -> SUBSET Ids]
  BY DEF TypeOK, Store
<1> QED
  BY <1>1, <1>2 DEF TypeOK, Store, Cloud

LEMMA UntouchedWrites ==
  ASSUME TypeOK, NEW t \in Tasks, Untouched
  PROVE  Cloud(t) /\ wrote'[t] = wrote[t]
  BY DEF TypeOK, Untouched, Cloud

\* The move of a write that did not bring the module on.
Stalled(t, i) ==
  /\ Control(t) /\ Cloud(t)
  /\ wrote'[t] = wrote[t] \/ (wrote'[t] = wrote[t] \cup {i} /\ \E f \in Faults : f[2])
  /\ \/ pc'[t] = pc[t] /\ result'[t] = result[t]
     \/ pc'[t] = "done" /\ result'[t] = "sdkError"
     \/ pc[t] = "delete" /\ pc'[t] = "done" /\ result'[t] = "unchanged"
  /\ UNCHANGED <<params, found, snap, toAdd, toRemove>>

\* What an attempt of a write does that does not bring the module on.
LEMMA FailsStalls ==
  ASSUME TypeOK, NEW t \in Tasks, NEW i \in Ids, NEW v, NEW there \in BOOLEAN,
         there => v \in Vpc \cup {Gone}, Fails(t, i, v, there),
         UNCHANGED <<params, found, snap>>
  PROVE  Stalled(t, i)
<1>1. CASE ~there /\ Untouched /\ Raise(t, "InvalidVpcId.NotFound")
  BY <1>1, RaiseMoves, UntouchedWrites DEF Stalled, Fails
<1>2. ASSUME NEW f \in Faults, Raise(t, f[1]), there /\ f[2], Store(t, i, v)
      PROVE  Stalled(t, i)
  BY <1>2, RaiseMoves, StoreWrites DEF Stalled, Fails
<1>3. ASSUME NEW f \in Faults, Raise(t, f[1]), Untouched
      PROVE  Stalled(t, i)
  BY <1>3, RaiseMoves, UntouchedWrites DEF Stalled, Fails
<1> QED
  BY <1>1, <1>2, <1>3 DEF Fails

\* A task that stalls keeps what it knew.
LEMMA StalledInv ==
  ASSUME IInv, NEW t \in Tasks, NEW i \in Ids, Stalled(t, i),
         pc[t] = "create" \/ (pc[t] \in {"delete", "modify", "tags", "refind"} /\ i = found[t])
  PROVE  IInv'
<1>0. TypeOK /\ Planned(t) /\ Blameless(t)
  BY DEF IInv
<1>1. TypeOK'
  BY <1>0 DEF Stalled, Control, Cloud, TypeOK
<1>2. Planned(t)'
  BY <1>0 DEF Stalled, Control, Planned, TypeOK
<1>3. Blameless(t)'
  <2>1. ~params[t].check
    BY <1>0 DEF Planned
  <2>2. result'[t] \notin {"ambiguous", "invalid"}
    BY <1>0 DEF Stalled, Planned
  <2>3. found'[t] # None => wrote'[t] \subseteq {found'[t]}
    BY <1>0 DEF Stalled, Planned, Blameless
  <2> QED
    BY <2>1, <2>2, <2>3 DEF Blameless, Stalled
<1>4. ASSUME NEW u \in Tasks, u # t PROVE (Planned(u) /\ Blameless(u))'
  BY <1>4 DEF IInv, Stalled, Control, Cloud, Planned, Blameless
<1> QED
  BY <1>1, <1>2, <1>3, <1>4 DEF IInv

-----------------------------------------------------------------------------
(* The actions.                                                            *)

\* A task that moved on without touching the account or its notes.
LEMMA MovedInv ==
  ASSUME IInv, NEW t \in Tasks, Control(t),
         UNCHANGED <<params, vpcs, found, snap, toAdd, toRemove, wrote>>,
         Planned(t)', result'[t] \in {"ambiguous", "invalid"} => wrote[t] = {}
  PROVE  IInv'
<1>1. TypeOK'
  BY DEF IInv, TypeOK, Control
<1>2. Blameless(t)'
  BY DEF IInv, Blameless
<1>3. ASSUME NEW u \in Tasks, u # t PROVE (Planned(u) /\ Blameless(u))'
  BY <1>3 DEF IInv, Control, Planned, Blameless
<1> QED
  BY <1>1, <1>2, <1>3 DEF IInv

\* A task whose lookup found VPC i, and that moved on knowing it.
LEMMA FoundInv ==
  ASSUME IInv, NEW t \in Tasks, pc[t] = "find", Control(t), NEW i \in Ids, Alive(i),
         UNCHANGED <<params, vpcs, wrote>>,
         found' = [found EXCEPT ![t] = i],
         snap' = [snap EXCEPT ![t] = vpcs[i]],
         NEW add \in SUBSET TagKeys, toAdd' = [toAdd EXCEPT ![t] = add],
         NEW remove \in SUBSET TagKeys, toRemove' = [toRemove EXCEPT ![t] = remove],
         pc'[t] \in {"delete", "modify", "tags", "done"},
         pc'[t] \in {"modify", "tags"} => params[t].state = "present",
         pc'[t] = "delete" => params[t].state = "absent",
         pc'[t] # "done" => ~params[t].check /\ result'[t] = "none",
         pc'[t] = "done" => result'[t] # "none"
  PROVE  IInv'
<1>0. TypeOK /\ wrote[t] = {}
  BY DEF IInv, Planned
<1>1. vpcs[i] \in Vpc
  BY <1>0 DEF Alive, TypeOK
<1>2. TypeOK'
  BY <1>0, <1>1 DEF TypeOK, Control
<1>3. Planned(t)' /\ Blameless(t)'
  BY <1>0, <1>1 DEF Planned, Blameless, TypeOK
<1>4. ASSUME NEW u \in Tasks, u # t PROVE (Planned(u) /\ Blameless(u))'
  <2>1. /\ pc'[u] = pc[u] /\ result'[u] = result[u] /\ found'[u] = found[u]
        /\ snap'[u] = snap[u] /\ wrote'[u] = wrote[u] /\ params'[u] = params[u]
    BY <1>0, <1>4 DEF Control, TypeOK
  <2>2. Planned(u) /\ Blameless(u)
    BY DEF IInv
  <2> QED
    BY <2>1, <2>2 DEF Planned, Blameless
<1> QED
  BY <1>2, <1>3, <1>4 DEF IInv

LEMMA StartInv == ASSUME IInv, NEW t \in Tasks, Start(t) PROVE IInv'
<1>0. TypeOK /\ Planned(t) /\ pc[t] = "start"
  BY DEF IInv, Start
<1>1. /\ Control(t)
      /\ \/ pc'[t] = "done" /\ result'[t] = "invalid"
         \/ pc'[t] = "find" /\ result'[t] = result[t]
  BY <1>0, FinishMoves, GotoMoves DEF Start, Results, PCs
<1>2. Planned(t)'
  BY <1>0, <1>1 DEF Start, Planned
<1>3. wrote[t] = {}
  BY <1>0 DEF Planned
<1> QED
  BY <1>1, <1>2, <1>3, MovedInv DEF Start

\* Where the lookup may send the task.
LEMMA PlanAbsentMoves ==
  ASSUME TypeOK, NEW t \in Tasks, NEW hits, PlanAbsent(t, hits)
  PROVE  /\ Control(t)
         /\ \/ pc'[t] = "done" /\ result'[t] = "unchanged" /\ hits = {}
            \/ pc'[t] = "done" /\ result'[t] = "changed" /\ params[t].check
            \/ pc'[t] = "delete" /\ result'[t] = result[t] /\ ~params[t].check /\ hits # {}
  BY FinishMoves, GotoMoves DEF PlanAbsent, Results, PCs

LEMMA PlanCreateMoves ==
  ASSUME TypeOK, NEW t \in Tasks, PlanCreate(t)
  PROVE  /\ Control(t)
         /\ \/ pc'[t] = "done" /\ result'[t] = "invalid"
            \/ pc'[t] = "done" /\ result'[t] = "changed" /\ params[t].check
            \/ pc'[t] = "create" /\ result'[t] = result[t] /\ ~params[t].check
  BY FinishMoves, GotoMoves DEF PlanCreate, Results, PCs

LEMMA PlanUpdateMoves ==
  ASSUME TypeOK, NEW t \in Tasks, NEW v, PlanUpdate(t, v)
  PROVE  /\ Control(t)
         /\ \/ pc'[t] = "done" /\ result'[t] = "unchanged"
            \/ pc'[t] = "done" /\ result'[t] = "changed" /\ params[t].check
            \/ pc'[t] \in {"modify", "tags"} /\ result'[t] = result[t] /\ ~params[t].check
  BY FinishMoves, GotoMoves DEF PlanUpdate, Results, PCs

\* The resolver only ever answers with VPCs that are there.
LEMMA CandidatesAlive ==
  ASSUME NEW id, NEW name, NEW rows \in Pages(Matching(id, name)),
         NEW i \in Candidates(id, name, rows)
  PROVE  i \in Ids /\ Alive(i)
<1>1. rows \subseteq Matching(id, name)
  BY DEF Pages, kSubset
<1>2. i \in rows
  BY DEF Candidates
<1> QED
  BY <1>1, <1>2 DEF Matching

LEMMA FindInv == ASSUME IInv, NEW t \in Tasks, Find(t) PROVE IInv'
<1>0. TypeOK /\ Planned(t) /\ pc[t] = "find"
  BY DEF IInv, Find
<1>1. wrote[t] = {} /\ found[t] = None /\ result[t] = "none"
  BY <1>0 DEF Planned
<1>2. ASSUME NEW f \in Faults, Raise(t, f[1]),
             UNCHANGED <<params, vpcs, found, snap, toAdd, toRemove, wrote>>
      PROVE  IInv'
  <2>1. Control(t) /\ (\/ pc'[t] = pc[t] /\ result'[t] = result[t]
                       \/ pc'[t] = "done" /\ result'[t] = "sdkError")
    BY <1>0, <1>2, RaiseMoves
  <2>2. Planned(t)'
    BY <1>0, <1>2, <2>1 DEF Planned
  <2> QED
    BY <1>1, <1>2, <2>1, <2>2, MovedInv
<1>3. ASSUME FindAnswered(t) PROVE IInv'
  <2>1. PICK rows \in Pages(Matching(params[t].id, params[t].name)) : FindAnswered(t)!1!(rows)
    BY <1>3 DEF FindAnswered
  <2> DEFINE hits == Candidates(params[t].id, params[t].name, rows)
  <2>2. UNCHANGED <<params, vpcs, wrote>>
    BY <1>3 DEF FindAnswered
  <2> HIDE DEF hits
  <2>3. CASE Cardinality(hits) > 1
    <3>1. Finish(t, "ambiguous") /\ UNCHANGED <<found, snap, toAdd, toRemove>>
      BY <2>1, <2>3 DEF hits
    <3>2. Control(t) /\ pc'[t] = "done" /\ result'[t] = "ambiguous"
      BY <1>0, <3>1, FinishMoves DEF Results
    <3>3. Planned(t)'
      BY <3>2 DEF Planned
    <3> QED
      BY <1>1, <2>2, <3>1, <3>2, <3>3, MovedInv
  <2>4. CASE ~(Cardinality(hits) > 1) /\ hits = {}
    <3>1. /\ IF params[t].state = "absent" THEN PlanAbsent(t, hits) ELSE PlanCreate(t)
          /\ UNCHANGED <<found, snap, toAdd, toRemove>>
      BY <2>1, <2>4 DEF hits
    <3>2. /\ Control(t)
          /\ \/ pc'[t] = "done" /\ result'[t] # "none"
             \/ pc'[t] = "create" /\ result'[t] = result[t] /\ ~params[t].check
                  /\ params[t].state # "absent"
      BY <1>0, <2>4, <3>1, PlanAbsentMoves, PlanCreateMoves
    <3>3. params[t].state # "absent" => params[t].state = "present"
      BY <1>0, ParamsTyped DEF Param
    <3>4. Planned(t)'
      BY <1>0, <1>1, <2>2, <3>1, <3>2, <3>3 DEF Planned
    <3> QED
      BY <1>1, <2>2, <3>1, <3>2, <3>4, MovedInv
  <2>5. CASE ~(Cardinality(hits) > 1) /\ hits # {}
    <3>1. PICK i \in hits :
            /\ IF params[t].state = "absent" THEN PlanAbsent(t, hits) ELSE PlanUpdate(t, vpcs[i])
            /\ found' = [found EXCEPT ![t] = i]
            /\ snap' = [snap EXCEPT ![t] = vpcs[i]]
            /\ toAdd' = [toAdd EXCEPT ![t] = TagsToAdd(params[t].tags, vpcs[i].tags)]
            /\ toRemove' = [toRemove EXCEPT ![t] = TagsToRemove(params[t].tags, vpcs[i].tags)]
      BY <2>1, <2>5 DEF hits
    <3>2. i \in Ids /\ Alive(i)
      BY <3>1, CandidatesAlive DEF hits
    <3>3. /\ TagsToAdd(params[t].tags, vpcs[i].tags) \in SUBSET TagKeys
          /\ TagsToRemove(params[t].tags, vpcs[i].tags) \in SUBSET TagKeys
      BY DEF TagsToAdd, TagsToRemove
    <3>4. params[t].state # "absent" => params[t].state = "present"
      BY <1>0, ParamsTyped DEF Param
    <3>5. /\ Control(t)
          /\ pc'[t] \in {"delete", "modify", "tags", "done"}
          /\ pc'[t] \in {"modify", "tags"} => params[t].state = "present"
          /\ pc'[t] = "delete" => params[t].state = "absent"
          /\ pc'[t] # "done" => ~params[t].check /\ result'[t] = "none"
          /\ pc'[t] = "done" => result'[t] # "none"
      BY <1>0, <1>1, <3>1, <3>4, PlanAbsentMoves, PlanUpdateMoves
    <3> QED
      BY <1>0, <2>2, <3>1, <3>2, <3>3, <3>5, FoundInv
  <2> QED
    BY <2>3, <2>4, <2>5
<1> QED
  BY <1>2, <1>3 DEF Find

\* The VPC a write is for: a new one, or the one the task found.
Target(t, i) ==
  pc[t] = "create" \/ (pc[t] \in {"delete", "modify", "tags"} /\ i = found[t])

\* The move of a write whose reply brought the module on.
Worked(t, i) ==
  /\ Control(t)
  /\ \E v \in Vpc \cup {Gone} : Store(t, i, v)
  /\ UNCHANGED <<params, found, snap>>
  /\ toAdd' \in [Tasks -> SUBSET TagKeys] /\ toRemove' \in [Tasks -> SUBSET TagKeys]
  /\ \/ pc'[t] = "done" /\ result'[t] = "changed"
     \/ /\ pc[t] \in {"modify", "tags"} /\ pc'[t] \in {"tags", "refind"}
        /\ result'[t] = result[t]

LEMMA WorkedInv ==
  ASSUME IInv, NEW t \in Tasks, NEW i \in Ids, Target(t, i), Worked(t, i)
  PROVE  IInv'
<1> USE DEF Target, Worked
<1>0. TypeOK /\ Planned(t) /\ Blameless(t)
  BY DEF IInv
<1>1. Cloud(t) /\ wrote'[t] = wrote[t] \cup {i}
  BY <1>0, StoreWrites
<1>2. TypeOK'
  BY <1>0, <1>1 DEF TypeOK, Control, Cloud
<1>3. Planned(t)'
  BY <1>0 DEF Planned
<1>4. Blameless(t)'
  <2>1. ~params'[t].check
    BY <1>0 DEF Planned
  <2>2. result'[t] \notin {"ambiguous", "invalid"}
    BY <1>0 DEF Planned
  <2>3. found'[t] # None => wrote'[t] \subseteq {found'[t]}
    BY <1>0, <1>1 DEF Planned, Blameless
  <2> QED
    BY <2>1, <2>2, <2>3 DEF Blameless
<1>5. ASSUME NEW u \in Tasks, u # t PROVE (Planned(u) /\ Blameless(u))'
  BY <1>1, <1>5 DEF IInv, Control, Cloud, Planned, Blameless
<1> QED
  BY <1>2, <1>3, <1>4, <1>5 DEF IInv

\* A write on the VPC the task found that fails.
LEMMA StallsStalled ==
  ASSUME IInv, NEW t \in Tasks, NEW v, Alive(found[t]) => v \in Vpc \cup {Gone},
         pc[t] \in {"delete", "modify", "tags"},
         Stalls(t, v), UNCHANGED <<params, found, snap>>
  PROVE  found[t] \in Ids /\ Target(t, found[t]) /\ Stalled(t, found[t])
<1>1. TypeOK /\ found[t] \in Ids
  BY DEF IInv, Planned
<1>2. Alive(found[t]) \in BOOLEAN
  BY DEF Alive
<1>3. Stalled(t, found[t])
  BY <1>1, <1>2, FailsStalls DEF Stalls
<1> QED
  BY <1>1, <1>3 DEF Target

\* What each of the five writes does, in one form: it works, or it stalls.
Writes(t) == \E i \in Ids : Target(t, i) /\ (Worked(t, i) \/ Stalled(t, i))

LEMMA CreateWrites == ASSUME IInv, NEW t \in Tasks, Create(t) PROVE Writes(t)
<1>0. TypeOK /\ Planned(t) /\ pc[t] = "create" /\ params[t].state = "present"
  BY DEF IInv, Create, Planned
<1> DEFINE p == params[t]
           v == [name |-> p.name, dns |-> Or(p.dns, ""), domain |-> Or(p.domain, ""), tags |-> p.tags]
<1>1. v \in Vpc
  <2>1. p.name \in Names /\ p \in Param
    BY <1>0, ParamsTyped
  <2>2. Or(p.dns, "") \in Attrs /\ Or(p.domain, "") \in Attrs /\ p.tags \in Tags
    BY <2>1, VpcAssumption DEF Or, Param
  <2> QED
    BY <2>1, <2>2 DEF Vpc
<1>2. PICK i \in Ids :
        \/ Store(t, i, v) /\ Finish(t, "changed") /\ UNCHANGED <<toAdd, toRemove>>
        \/ Fails(t, i, v, TRUE)
  BY DEF Create
<1>3. UNCHANGED <<params, found, snap>>
  BY DEF Create
<1> HIDE DEF v
<1>4. CASE Store(t, i, v) /\ Finish(t, "changed") /\ UNCHANGED <<toAdd, toRemove>>
  <2>1. Control(t) /\ pc'[t] = "done" /\ result'[t] = "changed"
    BY <1>0, <1>4, FinishMoves DEF Results
  <2>2. toAdd' \in [Tasks -> SUBSET TagKeys] /\ toRemove' \in [Tasks -> SUBSET TagKeys]
    BY <1>0, <1>4 DEF TypeOK
  <2> QED
    BY <1>0, <1>1, <1>3, <1>4, <2>1, <2>2 DEF Worked, Writes, Target
<1>5. CASE Fails(t, i, v, TRUE)
  <2>1. Stalled(t, i)
    BY <1>0, <1>1, <1>3, <1>5, FailsStalls
  <2> QED
    BY <1>0, <2>1 DEF Writes, Target
<1> QED
  BY <1>2, <1>4, <1>5

LEMMA DeleteWrites == ASSUME IInv, NEW t \in Tasks, Delete(t) PROVE Writes(t)
<1>0. TypeOK /\ Planned(t) /\ pc[t] = "delete" /\ found[t] \in Ids
  BY DEF IInv, Delete, Planned
<1>1. CASE Stalls(t, Gone)
  BY <1>0, <1>1, StallsStalled DEF Delete, Writes
<1>2. CASE Works(t, Gone) /\ Finish(t, "changed") /\ UNCHANGED <<toAdd, toRemove>>
  <2>1. Control(t) /\ pc'[t] = "done" /\ result'[t] = "changed"
    BY <1>0, <1>2, FinishMoves DEF Results
  <2>2. toAdd' \in [Tasks -> SUBSET TagKeys] /\ toRemove' \in [Tasks -> SUBSET TagKeys]
    BY <1>0, <1>2 DEF TypeOK
  <2> QED
    BY <1>0, <1>2, <2>1, <2>2 DEF Delete, Works, Worked, Writes, Target
<1> QED
  BY <1>1, <1>2 DEF Delete

LEMMA ModifyWrites == ASSUME IInv, NEW t \in Tasks, Modify(t) PROVE Writes(t)
<1>0. TypeOK /\ Planned(t) /\ pc[t] = "modify" /\ found[t] \in Ids /\ params[t].state = "present"
  BY DEF IInv, Modify, Planned
<1>1. ASSUME Alive(found[t]) PROVE Modified(t) \in Vpc
  <2> DEFINE v == vpcs[found[t]]
  <2>1. v \in Vpc /\ snap[t] \in Vpc
    BY <1>0, <1>1 DEF TypeOK, Alive, Planned
  <2>2. params[t].name \in Names /\ params[t] \in Param
    BY <1>0, ParamsTyped
  <2>3. Or(params[t].dns, snap[t].dns) \in Attrs /\ Or(params[t].domain, snap[t].domain) \in Attrs
    BY <2>1, <2>2 DEF Or, Param, Vpc
  <2> QED
    BY <2>1, <2>2, <2>3 DEF Vpc, Modified
<1>2. CASE Stalls(t, Modified(t))
  BY <1>0, <1>1, <1>2, StallsStalled DEF Modify, Writes
<1>3. CASE /\ Works(t, Modified(t))
           /\ Goto(t, IF toAdd[t] \cup toRemove[t] = {} THEN "refind" ELSE "tags")
           /\ UNCHANGED <<toAdd, toRemove>>
  <2>1. Control(t) /\ pc'[t] \in {"tags", "refind"} /\ result'[t] = result[t]
    BY <1>0, <1>3, GotoMoves DEF PCs
  <2>2. toAdd' \in [Tasks -> SUBSET TagKeys] /\ toRemove' \in [Tasks -> SUBSET TagKeys]
    BY <1>0, <1>3 DEF TypeOK
  <2>3. Store(t, found[t], Modified(t)) /\ Modified(t) \in Vpc
    BY <1>1, <1>3 DEF Works
  <2> QED
    BY <1>0, <2>1, <2>2, <2>3 DEF Modify, Worked, Writes, Target
<1> QED
  BY <1>2, <1>3 DEF Modify

\* A tag call on the VPC leaves a VPC.
LEMMA TaggedTyped ==
  ASSUME TypeOK, NEW t \in Tasks, found[t] \in Ids, Alive(found[t]),
         NEW k \in TagKeys, NEW value \in TagVals \cup {None}
  PROVE  Tagged(t, k, value) \in Vpc
<1>1. vpcs[found[t]] \in Vpc
  BY DEF TypeOK, Alive
<1>2. [vpcs[found[t]].tags EXCEPT ![k] = value] \in Tags
  BY <1>1 DEF Vpc, Tags
<1> QED
  BY <1>1, <1>2 DEF Vpc, Tagged

LEMMA AttachTagWrites == ASSUME IInv, NEW t \in Tasks, AttachTag(t) PROVE Writes(t)
<1>0. TypeOK /\ Planned(t) /\ pc[t] = "tags" /\ found[t] \in Ids
  BY DEF IInv, AttachTag, Planned
<1>1. PICK k \in toAdd[t] : AttachTag(t)!2!(k)
  BY DEF AttachTag
<1>2. k \in TagKeys
  BY <1>0 DEF TypeOK
<1> DEFINE v == Tagged(t, k, params[t].tags[k])
<1>3. ASSUME Alive(found[t]) PROVE v \in Vpc
  <2>1. params[t].tags[k] \in TagVals \cup {None}
    BY <1>0, <1>2, ParamsTyped DEF Param, Tags
  <2> QED
    BY <1>0, <1>2, <1>3, <2>1, TaggedTyped
<1> HIDE DEF v
<1>4. CASE Stalls(t, v)
  BY <1>0, <1>3, <1>4, StallsStalled DEF AttachTag, Writes
<1>5. CASE /\ Works(t, v)
           /\ toAdd' = [toAdd EXCEPT ![t] = @ \ {k}]
           /\ Goto(t, IF (toAdd[t] \ {k}) \cup toRemove[t] = {} THEN "refind" ELSE "tags")
           /\ UNCHANGED toRemove
  <2>1. Control(t) /\ pc'[t] \in {"tags", "refind"} /\ result'[t] = result[t]
    BY <1>0, <1>5, GotoMoves DEF PCs
  <2>2. toAdd' \in [Tasks -> SUBSET TagKeys] /\ toRemove' \in [Tasks -> SUBSET TagKeys]
    BY <1>0, <1>5 DEF TypeOK
  <2>3. Store(t, found[t], v) /\ v \in Vpc
    BY <1>3, <1>5 DEF Works
  <2> QED
    BY <1>0, <2>1, <2>2, <2>3 DEF AttachTag, Worked, Writes, Target
<1> QED
  BY <1>1, <1>4, <1>5 DEF v

LEMMA DetachTagWrites == ASSUME IInv, NEW t \in Tasks, DetachTag(t) PROVE Writes(t)
<1>0. TypeOK /\ Planned(t) /\ pc[t] = "tags" /\ found[t] \in Ids
  BY DEF IInv, DetachTag, Planned
<1>1. PICK k \in toRemove[t] : DetachTag(t)!3!(k)
  BY DEF DetachTag
<1>2. k \in TagKeys
  BY <1>0 DEF TypeOK
<1>3. ASSUME Alive(found[t]) PROVE Tagged(t, k, None) \in Vpc
  BY <1>0, <1>2, <1>3, TaggedTyped
<1>4. CASE Stalls(t, Tagged(t, k, None))
  BY <1>0, <1>3, <1>4, StallsStalled DEF DetachTag, Writes
<1>5. CASE /\ Works(t, Tagged(t, k, None))
           /\ toRemove' = [toRemove EXCEPT ![t] = @ \ {k}]
           /\ Goto(t, IF toRemove[t] = {k} THEN "refind" ELSE "tags")
           /\ UNCHANGED toAdd
  <2>1. Control(t) /\ pc'[t] \in {"tags", "refind"} /\ result'[t] = result[t]
    BY <1>0, <1>5, GotoMoves DEF PCs
  <2>2. toAdd' \in [Tasks -> SUBSET TagKeys] /\ toRemove' \in [Tasks -> SUBSET TagKeys]
    BY <1>0, <1>5 DEF TypeOK
  <2>3. Store(t, found[t], Tagged(t, k, None)) /\ Tagged(t, k, None) \in Vpc
    BY <1>3, <1>5 DEF Works
  <2> QED
    BY <1>0, <2>1, <2>2, <2>3 DEF DetachTag, Worked, Writes, Target
<1> QED
  BY <1>1, <1>4, <1>5

LEMMA WritesInv == ASSUME IInv, NEW t \in Tasks, Writes(t) PROVE IInv'
  BY WorkedInv, StalledInv DEF Writes, Target

LEMMA RefindInv == ASSUME IInv, NEW t \in Tasks, Refind(t) PROVE IInv'
<1>0. TypeOK /\ Planned(t) /\ pc[t] = "refind"
  BY DEF IInv, Refind
<1>1. /\ Control(t)
      /\ \/ pc'[t] = pc[t] /\ result'[t] = result[t]
         \/ pc'[t] = "done" /\ result'[t] \in {"sdkError", "changed"}
  BY <1>0, FinishMoves, RaiseMoves DEF Refind, Results
<1>2. Planned(t)'
  BY <1>0, <1>1 DEF Refind, Planned
<1>3. result'[t] \notin {"ambiguous", "invalid"}
  BY <1>0, <1>1 DEF Planned
<1> QED
  BY <1>1, <1>2, <1>3, MovedInv DEF Refind

LEMMA StepInv == IInv /\ [Next]_vars => IInv'
<1> SUFFICES ASSUME IInv, [Next]_vars PROVE IInv'
  OBVIOUS
<1>1. ASSUME NEW t \in Tasks, Step(t) PROVE IInv'
  BY <1>1, StartInv, FindInv, CreateWrites, DeleteWrites, ModifyWrites, AttachTagWrites,
     DetachTagWrites, WritesInv, RefindInv DEF Step
<1>2. CASE UNCHANGED vars
  BY <1>2 DEF vars, task, IInv, TypeOK, Planned, Blameless
<1> QED
  BY <1>1, <1>2 DEF Next

LEMMA Invariance == Spec => []IInv
  BY InitInv, StepInv, PTL DEF Spec

\* The module's variables and the account stay well-formed: every VPC it
\* creates or rewrites is one the API could hold.
THEOREM TypeCorrect == Spec => []TypeOK
<1>1. IInv => TypeOK
  BY DEF IInv
<1> QED
  BY <1>1, Invariance, PTL

\* For every account, scenario and fault: check mode and the refusals of an
\* ambiguous reference or of incomplete arguments write nothing.
THEOREM ReadOnlyOutcomesAlways == Spec => []ReadOnlyOutcomes
<1>1. IInv => ReadOnlyOutcomes
  BY DEF IInv, Blameless, ReadOnlyOutcomes
<1> QED
  BY <1>1, Invariance, PTL

\* For every number of concurrent tasks and every fault, lost replies included:
\* a task that resolved its reference writes to no other VPC.
THEOREM WritesWhatItFoundAlways == Spec => []WritesWhatItFound
<1>1. IInv => WritesWhatItFound
  BY DEF IInv, Blameless, WritesWhatItFound
<1> QED
  BY <1>1, Invariance, PTL

-----------------------------------------------------------------------------
(***************************************************************************)
(* The report is honest as long as no reply is lost.  A task has written   *)
(* nothing before the cloud answers its first write, and has written when  *)
(* it comes to read the VPC back.                                          *)
(***************************************************************************)
NoLostReplies == \A f \in Faults : ~f[2]

Accounted(t) ==
  /\ pc[t] \in {"start", "find", "create", "delete"} => wrote[t] = {}
  /\ pc[t] = "refind" => wrote[t] # {}
  /\ result[t] = "unchanged" => wrote[t] = {}
  /\ result[t] = "changed" /\ ~params[t].check => wrote[t] # {}

HInv == NoLostReplies /\ IInv /\ \A t \in Tasks : Accounted(t)

\* A stalled write has written nothing when no reply is lost.
LEMMA StalledHonest ==
  ASSUME HInv, NEW t \in Tasks, NEW i \in Ids, Stalled(t, i),
         pc[t] \in {"create", "delete", "modify", "tags"}
  PROVE  /\ Accounted(t)'
         /\ \A u \in Tasks \ {t} : Accounted(u)'
<1>1. Accounted(t)'
  BY DEF HInv, IInv, Planned, Accounted, Stalled, NoLostReplies
<1>2. ASSUME NEW u \in Tasks \ {t} PROVE Accounted(u)'
  BY DEF HInv, Accounted, Stalled, Control, Cloud
<1> QED
  BY <1>1, <1>2

\* A write that worked accounts for what the task goes on to report.
LEMMA WorkedHonest ==
  ASSUME HInv, NEW t \in Tasks, NEW i \in Ids, Worked(t, i)
  PROVE  /\ Accounted(t)'
         /\ \A u \in Tasks \ {t} : Accounted(u)'
<1>0. TypeOK /\ Planned(t)
  BY DEF HInv, IInv
<1>1. Cloud(t) /\ wrote'[t] = wrote[t] \cup {i}
  BY <1>0, StoreWrites DEF Worked
<1>2. Accounted(t)'
  BY <1>0, <1>1 DEF Accounted, Worked, Planned
<1>3. ASSUME NEW u \in Tasks \ {t} PROVE Accounted(u)'
  BY <1>1 DEF HInv, Accounted, Control, Cloud, Worked
<1> QED
  BY <1>2, <1>3

\* A task that only moved accounts for what it had written before.
LEMMA MovedHonest ==
  ASSUME HInv, NEW t \in Tasks, Control(t), UNCHANGED <<params, wrote>>, Accounted(t)'
  PROVE  \A u \in Tasks : Accounted(u)'
  BY DEF HInv, Accounted, Control

LEMMA FindHonest ==
  ASSUME HInv, NEW t \in Tasks, Find(t)
  PROVE  \A u \in Tasks : Accounted(u)'
<1>0. TypeOK /\ pc[t] = "find" /\ wrote[t] = {} /\ result[t] = "none"
  BY DEF HInv, IInv, Planned, Find
<1>1. UNCHANGED <<params, wrote>>
  BY DEF Find, FindAnswered
<1>2. ASSUME NEW f \in Faults, Raise(t, f[1]) PROVE Control(t) /\ Accounted(t)'
  BY <1>0, <1>1, <1>2, RaiseMoves DEF Accounted
<1>3. ASSUME NEW hits, PlanAbsent(t, hits) PROVE Control(t) /\ Accounted(t)'
  BY <1>0, <1>1, <1>3, PlanAbsentMoves DEF Accounted
<1>4. ASSUME PlanCreate(t) PROVE Control(t) /\ Accounted(t)'
  BY <1>0, <1>1, <1>4, PlanCreateMoves DEF Accounted
<1>5. ASSUME NEW v, PlanUpdate(t, v) PROVE Control(t) /\ Accounted(t)'
  BY <1>0, <1>1, <1>5, PlanUpdateMoves DEF Accounted
<1>6. ASSUME Finish(t, "ambiguous") PROVE Control(t) /\ Accounted(t)'
  BY <1>0, <1>1, <1>6, FinishMoves DEF Accounted, Results
<1>7. Control(t) /\ Accounted(t)'
  BY <1>2, <1>3, <1>4, <1>5, <1>6 DEF Find, FindAnswered
<1> QED
  BY <1>1, <1>7, MovedHonest

LEMMA HonestStep == HInv /\ [Next]_vars => HInv'
<1> SUFFICES ASSUME HInv, [Next]_vars PROVE HInv'
  OBVIOUS
<1>0. IInv /\ IInv'
  BY StepInv DEF HInv
<1>1. ASSUME NEW t \in Tasks, Step(t) PROVE \A u \in Tasks : Accounted(u)'
  <2>0. TypeOK /\ Planned(t)
    BY <1>0 DEF IInv
  <2>1. CASE Start(t)
    <3>1. /\ Control(t)
          /\ \/ pc'[t] = "done" /\ result'[t] = "invalid"
             \/ pc'[t] = "find" /\ result'[t] = result[t]
      BY <2>0, <2>1, FinishMoves, GotoMoves DEF Start, Results, PCs
    <3>2. Accounted(t)'
      BY <2>0, <2>1, <3>1 DEF Accounted, Start, Planned
    <3> QED
      BY <2>1, <3>1, <3>2, MovedHonest DEF Start
  <2>2. CASE Find(t)
    BY <2>2, FindHonest
  <2>3. CASE Create(t) \/ Delete(t) \/ Modify(t) \/ AttachTag(t) \/ DetachTag(t)
    <3>1. PICK i \in Ids : Target(t, i) /\ (Worked(t, i) \/ Stalled(t, i))
      BY <1>0, <2>3, CreateWrites, DeleteWrites, ModifyWrites, AttachTagWrites, DetachTagWrites
         DEF Writes
    <3>2. pc[t] \in {"create", "delete", "modify", "tags"}
      BY <3>1 DEF Target
    <3> QED
      BY <3>1, <3>2, StalledHonest, WorkedHonest
  <2>4. CASE Refind(t)
    <3>1. Control(t) /\ (\/ pc'[t] = pc[t] /\ result'[t] = result[t]
                         \/ pc'[t] = "done" /\ result'[t] \in {"sdkError", "changed"})
      BY <2>0, <2>4, FinishMoves, RaiseMoves DEF Refind, Results
    <3>2. Accounted(t)'
      BY <2>0, <2>4, <3>1 DEF Accounted, Refind, HInv, Planned
    <3> QED
      BY <2>4, <3>1, <3>2, MovedHonest DEF Refind
  <2> QED
    BY <1>1, <2>1, <2>2, <2>3, <2>4 DEF Step
<1>2. CASE UNCHANGED vars
  BY <1>0, <1>2 DEF vars, task, HInv, Accounted, NoLostReplies
<1> QED
  BY <1>0, <1>1, <1>2 DEF Next, HInv, NoLostReplies

\* If no reply is lost, then for every account, scenario and interleaving of
\* the tasks changed=false means that the task changed nothing, and
\* changed=true, outside check mode, that it did.
THEOREM HonestReportAlways == NoLostReplies /\ Spec => []HonestReport
<1>1. NoLostReplies /\ Init => HInv
  BY InitInv DEF Init, HInv, Accounted
<1>2. HInv /\ [Next]_vars => HInv'
  BY HonestStep
<1>3. HInv => HonestReport
  BY DEF HInv, Accounted, HonestReport
<1> QED
  BY <1>1, <1>2, <1>3, PTL DEF Spec

-----------------------------------------------------------------------------
(***************************************************************************)
(* A step in terms of the account: what one task puts there, and what it   *)
(* leaves to the others.                                                   *)
(***************************************************************************)
NewVpc(p) == [name |-> p.name, dns |-> Or(p.dns, ""), domain |-> Or(p.domain, ""), tags |-> p.tags]

\* Task t leaves VPC i as v.
Puts(t, i, v) ==
  \/ pc[t] = "create" /\ vpcs[i] = Unborn /\ v = NewVpc(params[t])
  \/ /\ i = found[t] /\ Alive(i)
     /\ \/ pc[t] = "delete" /\ v = Gone
        \/ pc[t] = "modify" /\ v = Modified(t)
        \/ pc[t] = "tags" /\ \E k \in toAdd[t] : v = Tagged(t, k, params[t].tags[k])
        \/ pc[t] = "tags" /\ \E k \in toRemove[t] : v = Tagged(t, k, None)

Still(u) ==
  /\ pc'[u] = pc[u] /\ result'[u] = result[u] /\ found'[u] = found[u] /\ snap'[u] = snap[u]
  /\ toAdd'[u] = toAdd[u] /\ toRemove'[u] = toRemove[u] /\ wrote'[u] = wrote[u]

LEMMA OthersStill ==
  ASSUME TypeOK, NEW t \in Tasks, Step(t)
  PROVE  params' = params /\ pc[t] # "done" /\ \A u \in Tasks \ {t} : Still(u)
<1> USE DEF TypeOK, Still, Finish, Goto, Raise
<1>1. CASE Start(t)
  BY <1>1 DEF Start
<1>2. CASE Find(t)
  BY <1>2 DEF Find, FindAnswered, PlanAbsent, PlanCreate, PlanUpdate
<1>3. CASE Create(t)
  BY <1>3 DEF Create, Fails, Store, Untouched
<1>4. CASE Delete(t)
  BY <1>4 DEF Delete, Works, Stalls, Fails, Store, Untouched
<1>5. CASE Modify(t)
  BY <1>5 DEF Modify, Works, Stalls, Fails, Store, Untouched
<1>6. CASE AttachTag(t)
  BY <1>6 DEF AttachTag, Works, Stalls, Fails, Store, Untouched
<1>7. CASE DetachTag(t)
  BY <1>7 DEF DetachTag, Works, Stalls, Fails, Store, Untouched
<1>8. CASE Refind(t)
  BY <1>8 DEF Refind
<1> QED
  BY <1>1, <1>2, <1>3, <1>4, <1>5, <1>6, <1>7, <1>8 DEF Step

\* What is put there is a VPC, or the end of one.
LEMMA PutsTyped ==
  ASSUME IInv, NEW t \in Tasks, NEW i, NEW v, Puts(t, i, v)
  PROVE  v \in Vpc \cup {Gone} /\ (pc[t] # "delete" => v \in Vpc)
<1>0. TypeOK /\ Planned(t)
  BY DEF IInv
<1>1. CASE pc[t] = "create" /\ v = NewVpc(params[t])
  <2>1. params[t].name \in Names /\ params[t] \in Param
    BY <1>0, <1>1, ParamsTyped DEF Planned
  <2>2. Or(params[t].dns, "") \in Attrs /\ Or(params[t].domain, "") \in Attrs /\ params[t].tags \in Tags
    BY <2>1, VpcAssumption DEF Or, Param
  <2>3. v \in Vpc
    BY <1>1, <2>1, <2>2 DEF Vpc, NewVpc
  <2> QED
    BY <2>3
<1>2. CASE pc[t] = "delete" /\ v = Gone
  BY <1>2
<1>3. CASE i = found[t] /\ Alive(i) /\ pc[t] = "modify" /\ v = Modified(t)
  <2>1. vpcs[i] \in Vpc /\ snap[t] \in Vpc
    BY <1>0, <1>3 DEF TypeOK, Alive, Planned
  <2>2. params[t].name \in Names /\ params[t] \in Param
    BY <1>0, <1>3, ParamsTyped DEF Planned
  <2>3. Or(params[t].dns, snap[t].dns) \in Attrs /\ Or(params[t].domain, snap[t].domain) \in Attrs
    BY <2>1, <2>2 DEF Or, Param, Vpc
  <2>4. v \in Vpc
    BY <1>3, <2>1, <2>2, <2>3 DEF Vpc, Modified
  <2> QED
    BY <2>4
<1>4. ASSUME i = found[t], Alive(i), pc[t] = "tags", NEW k \in TagKeys, NEW value \in TagVals \cup {None},
             v = Tagged(t, k, value)
      PROVE  v \in Vpc
  BY <1>0, <1>4, TaggedTyped DEF Planned
<1>5. CASE i = found[t] /\ Alive(i) /\ pc[t] = "tags" /\ \E k \in toAdd[t] : v = Tagged(t, k, params[t].tags[k])
  <2>1. PICK k \in toAdd[t] : v = Tagged(t, k, params[t].tags[k])
    BY <1>5
  <2>2. k \in TagKeys
    BY <1>0, <2>1 DEF TypeOK
  <2>3. params[t].tags[k] \in TagVals \cup {None}
    BY <1>0, <2>2, ParamsTyped DEF Param, Tags
  <2> QED
    BY <1>4, <1>5, <2>1, <2>2, <2>3
<1>6. CASE i = found[t] /\ Alive(i) /\ pc[t] = "tags" /\ \E k \in toRemove[t] : v = Tagged(t, k, None)
  <2>1. PICK k \in toRemove[t] : v = Tagged(t, k, None)
    BY <1>6
  <2>2. k \in TagKeys
    BY <1>0, <2>1 DEF TypeOK
  <2> QED
    BY <1>4, <1>6, <2>1, <2>2
<1> QED
  BY <1>1, <1>2, <1>3, <1>5, <1>6 DEF Puts

\* A write that fails leaves the account alone, or what it would have left.
LEMMA FailsPuts ==
  ASSUME NEW t \in Tasks, NEW i, NEW v, NEW there, Fails(t, i, v, there)
  PROVE  Untouched \/ (there /\ Store(t, i, v))
BY DEF Fails

\* A step leaves the account alone or puts one VPC there.
LEMMA StepPuts ==
  ASSUME IInv, NEW t \in Tasks, Step(t)
  PROVE  Untouched \/ \E i \in Ids, v \in Vpc \cup {Gone} : Puts(t, i, v) /\ Store(t, i, v)
<1>0. TypeOK /\ Planned(t)
  BY DEF IInv
<1>1. ASSUME NEW i \in Ids, NEW v, Puts(t, i, v), Store(t, i, v)
      PROVE  \E j \in Ids, w \in Vpc \cup {Gone} : Puts(t, j, w) /\ Store(t, j, w)
  BY <1>1, PutsTyped
<1>2. ASSUME NEW v, Works(t, v) \/ Stalls(t, v), pc[t] \in {"delete", "modify", "tags"},
             Alive(found[t]) => Puts(t, found[t], v)
      PROVE  Untouched \/ \E j \in Ids, w \in Vpc \cup {Gone} : Puts(t, j, w) /\ Store(t, j, w)
  <2>1. found[t] \in Ids
    BY <1>0, <1>2 DEF Planned
  <2>2. Untouched \/ (Alive(found[t]) /\ Store(t, found[t], v))
    BY <1>2, FailsPuts DEF Works, Stalls
  <2> QED
    BY <1>1, <1>2, <2>1, <2>2
<1>3. CASE Start(t) \/ Find(t) \/ Refind(t)
  BY <1>3 DEF Start, Find, FindAnswered, Refind, Untouched
<1>4. CASE Create(t)
  <2>1. PICK i \in Ids : vpcs[i] = Unborn /\ (Store(t, i, NewVpc(params[t])) \/ Fails(t, i, NewVpc(params[t]), TRUE))
    BY <1>4 DEF Create, NewVpc
  <2>2. Puts(t, i, NewVpc(params[t]))
    BY <1>4, <2>1 DEF Create, Puts
  <2> QED
    BY <1>1, <2>1, <2>2, FailsPuts
<1>5. CASE Delete(t)
  BY <1>2, <1>5 DEF Delete, Puts
<1>6. CASE Modify(t)
  BY <1>2, <1>6 DEF Modify, Puts
<1>7. CASE AttachTag(t)
  <2>1. PICK k \in toAdd[t] : LET v == Tagged(t, k, params[t].tags[k]) IN Works(t, v) \/ Stalls(t, v)
    BY <1>7 DEF AttachTag
  <2> QED
    BY <1>2, <1>7, <2>1 DEF AttachTag, Puts
<1>8. CASE DetachTag(t)
  <2>1. PICK k \in toRemove[t] : Works(t, Tagged(t, k, None)) \/ Stalls(t, Tagged(t, k, None))
    BY <1>8 DEF DetachTag
  <2> QED
    BY <1>2, <1>8, <2>1 DEF DetachTag, Puts
<1> QED
  BY <1>3, <1>4, <1>5, <1>6, <1>7, <1>8 DEF Step

-----------------------------------------------------------------------------
(***************************************************************************)
(* Racing deletes.  A task that reports a delete leaves the id Gone, and    *)
(* an id never comes back, so that no other task finds it there to delete. *)
(***************************************************************************)
Deletes(t) == params[t].state = "absent" /\ ~params[t].check

Buried(t) ==
  Deletes(t) /\ result[t] = "changed" => found[t] \in Ids /\ vpcs[found[t]] = Gone

DInv == IInv /\ (\A t \in Tasks : Buried(t)) /\ OneTaskClaimsADelete

\* Only a delete that worked, on a VPC that was there, ends as changed.
LEMMA DeleteChanged ==
  ASSUME IInv, NEW t \in Tasks, Step(t), Deletes(t), result'[t] = "changed"
  PROVE  /\ found[t] \in Ids /\ found'[t] = found[t]
         /\ Alive(found[t]) /\ vpcs'[found[t]] = Gone
<1>0. TypeOK /\ Planned(t) /\ pc[t] # "done" /\ result[t] = "none"
  BY OthersStill DEF IInv, Planned
<1>1. CASE Start(t)
  BY <1>0, <1>1, FinishMoves, GotoMoves DEF Start, Results, PCs
<1>2. CASE Find(t)
  <2>1. ~\E f \in Faults : Raise(t, f[1])
    BY <1>0, <1>2, RaiseMoves DEF Find
  <2>2. PICK rows : FindAnswered(t)!1!(rows)
    BY <1>2, <2>1 DEF Find, FindAnswered
  <2>3. ~Finish(t, "ambiguous")
    BY <1>0, FinishMoves DEF Results
  <2>4. PICK hits : PlanAbsent(t, hits)
    BY <2>2, <2>3 DEF Deletes
  <2> QED
    BY <1>0, <2>4, PlanAbsentMoves DEF Deletes
<1>3. CASE Delete(t)
  <2>1. ~Stalls(t, Gone)
    BY <1>0, <1>3, RaiseMoves DEF Stalls, Fails
  <2> QED
    BY <1>0, <1>3, <2>1 DEF Delete, Works, Store, TypeOK, Planned
<1>4. CASE Create(t) \/ Modify(t) \/ AttachTag(t) \/ DetachTag(t) \/ Refind(t)
  BY <1>0, <1>4 DEF Planned, Deletes, Create, Modify, AttachTag, DetachTag, Refind
<1> QED
  BY <1>1, <1>2, <1>3, <1>4 DEF Step

LEMMA GoneStays ==
  ASSUME IInv, NEW t \in Tasks, Step(t), NEW i \in Ids, vpcs[i] = Gone
  PROVE  vpcs'[i] = Gone
<1>1. TypeOK /\ Unborn # Gone
  BY VpcAssumption DEF IInv
<1> QED
  BY <1>1, StepPuts DEF Puts, Store, Untouched, Alive, TypeOK

LEMMA DeletesStep == DInv /\ [Next]_vars => DInv'
<1> SUFFICES ASSUME DInv, [Next]_vars PROVE DInv'
  OBVIOUS
<1>0. IInv /\ IInv' /\ TypeOK
  BY StepInv DEF DInv, IInv
<1>1. ASSUME NEW t \in Tasks, Step(t) PROVE DInv'
  <2>1. params' = params /\ \A u \in Tasks \ {t} : Still(u)
    BY <1>0, <1>1, OthersStill
  <2>2. ASSUME NEW u \in Tasks PROVE Buried(u)'
    <3>1. CASE u = t
      BY <1>0, <1>1, <2>1, <3>1, DeleteChanged DEF Buried, Deletes
    <3>2. CASE u # t
      BY <1>0, <1>1, <2>1, <3>2, GoneStays DEF DInv, Buried, Deletes, Still
    <3> QED
      BY <3>1, <3>2
  <2>3. ASSUME NEW u \in Tasks \ {t}, found'[t] = found'[u], Deletes(t), Deletes(u),
               result'[t] = "changed", result'[u] = "changed"
        PROVE  FALSE
    <3>1. Alive(found[t]) /\ found'[t] = found[t]
      BY <1>0, <1>1, <2>3, DeleteChanged
    <3>2. vpcs[found[u]] = Gone /\ found'[u] = found[u]
      BY <2>1, <2>3 DEF DInv, Buried, Still
    <3> QED
      BY <2>3, <3>1, <3>2 DEF Alive
  <2>4. OneTaskClaimsADelete'
    BY <2>1, <2>3 DEF DInv, OneTaskClaimsADelete, Deletes, Still
  <2> QED
    BY <1>0, <2>2, <2>4 DEF DInv
<1>2. CASE UNCHANGED vars
  BY <1>0, <1>2 DEF vars, task, DInv, Buried, Deletes, OneTaskClaimsADelete
<1> QED
  BY <1>1, <1>2 DEF Next

\* However many tasks race to delete a VPC, and whatever replies are lost, at most
\* one of them reports the delete as its own: the others are answered "not found",
\* which delete_resource reports as unchanged.
THEOREM OneTaskClaimsADeleteAlways == Spec => []OneTaskClaimsADelete
<1>1. Init => DInv
  BY InitInv DEF Init, DInv, Buried, OneTaskClaimsADelete
<1>2. DInv => OneTaskClaimsADelete
  BY DEF DInv
<1> QED
  BY <1>1, <1>2, DeletesStep, PTL DEF Spec

-----------------------------------------------------------------------------
(***************************************************************************)
(* Tasks in turn.  A task that has the account to itself from its first    *)
(* call to its last finds what it wrote as it wrote it.                    *)
(***************************************************************************)

\* A task that has begun comes after those that the play runs before it.
Turns == \A t \in Tasks : pc[t] # "start" => \A u \in params[t].after : pc[u] = "done"

\* Every other task ended before t began, or begins after t ends.
Alone(t) == \A u \in Tasks \ {t} : u \in params[t].after \/ t \in params[u].after

Running(t) == pc[t] \notin {"start", "done"}

LEMMA StartsInTurn ==
  ASSUME NEW t \in Tasks, Step(t), pc[t] = "start"
  PROVE  \A u \in params[t].after : pc[u] = "done"
BY DEF Step, Start, Find, Create, Delete, Modify, AttachTag, DetachTag, Refind

LEMMA TurnsStep ==
  ASSUME IInv, Turns, NEW t \in Tasks, Step(t)
  PROVE  Turns'
<1>1. TypeOK /\ params' = params /\ pc[t] # "done" /\ \A u \in Tasks \ {t} : Still(u)
  BY OthersStill DEF IInv
<1>2. ASSUME NEW u \in Tasks, pc'[u] # "start", NEW w \in params[u].after PROVE pc'[w] = "done"
  <2>1. w \in Tasks
    BY <1>1, ParamsTyped DEF Param
  <2>2. pc[w] = "done"
    BY <1>1, <1>2, StartsInTurn DEF Turns, Still
  <2> QED
    BY <1>1, <2>1, <2>2 DEF Still
<1> QED
  BY <1>1, <1>2 DEF Turns

\* While such a task is at work no other task takes a step.
LEMMA Exclusive ==
  ASSUME IInv, Turns, NEW t \in Tasks, Alone(t), Running(t), NEW u \in Tasks, Step(u)
  PROVE  u = t
<1>1. pc[u] # "done"
  BY OthersStill DEF IInv
<1>2. ASSUME t \in params[u].after PROVE FALSE
  BY <1>2, StartsInTurn DEF Turns, Running
<1> QED
  BY <1>1, <1>2 DEF Alone, Turns, Running

\* What stands between the first write of a task and its report: the VPC is there,
\* the tags that need no more calls are as asked, and so are the attributes, or
\* they are as the task read them.
Holds(t) ==
  LET p == params[t]
      v == vpcs[found[t]]
  IN  pc[t] \in {"modify", "tags", "refind"} =>
        /\ Alive(found[t])
        /\ \A k \in TagKeys : k \in toRemove[t] => p.tags[k] = None
        /\ \A k \in TagKeys : k \notin toAdd[t] \cup toRemove[t] => v.tags[k] = p.tags[k]
        /\ pc[t] = "modify" => /\ p.dns = None => v.dns = snap[t].dns
                               /\ p.domain = None => v.domain = snap[t].domain
        /\ pc[t] # "modify" => ~AttrsDiffer(p, v)
        /\ pc[t] = "refind" => toAdd[t] \cup toRemove[t] = {}

TInv == IInv /\ Turns /\ \A t \in Tasks : Alone(t) => Holds(t)

\* Where the answer of the first describe leads, for the candidates it leaves.
Answered(t, hits) ==
  \/ Cardinality(hits) > 1 /\ pc'[t] = "done" /\ result'[t] = "ambiguous"
  \/ /\ hits = {} /\ found'[t] = None
     /\ IF params[t].state = "absent" THEN PlanAbsent(t, hits) ELSE PlanCreate(t)
  \/ \E i \in Ids :
       /\ hits = {i} /\ Alive(i) /\ found'[t] = i /\ snap'[t] = vpcs[i]
       /\ toAdd'[t] = TagsToAdd(params[t].tags, vpcs[i].tags)
       /\ toRemove'[t] = TagsToRemove(params[t].tags, vpcs[i].tags)
       /\ IF params[t].state = "absent" THEN PlanAbsent(t, hits) ELSE PlanUpdate(t, vpcs[i])

LEMMA FindIs ==
  ASSUME IInv, NEW t \in Tasks, Find(t)
  PROVE  /\ UNCHANGED <<params, vpcs, wrote>>
         /\ \/ pc'[t] = "find" /\ found'[t] = None
            \/ pc'[t] = "done" /\ result'[t] = "sdkError"
            \/ \E rows \in Pages(Matching(params[t].id, params[t].name)) :
                 Answered(t, Candidates(params[t].id, params[t].name, rows))
<1>0. TypeOK /\ pc[t] = "find" /\ found[t] = None
  BY DEF IInv, Find, Planned
<1>1. UNCHANGED <<params, vpcs, wrote>>
  BY DEF Find, FindAnswered
<1>2. ASSUME NEW f \in Faults, Raise(t, f[1]), UNCHANGED found
      PROVE  \/ pc'[t] = "find" /\ found'[t] = None
             \/ pc'[t] = "done" /\ result'[t] = "sdkError"
  BY <1>0, <1>2, RaiseMoves
<1>3. ASSUME FindAnswered(t)
      PROVE  \E rows \in Pages(Matching(params[t].id, params[t].name)) :
               Answered(t, Candidates(params[t].id, params[t].name, rows))
  <2>1. PICK rows \in Pages(Matching(params[t].id, params[t].name)) : FindAnswered(t)!1!(rows)
    BY <1>3 DEF FindAnswered
  <2> DEFINE hits == Candidates(params[t].id, params[t].name, rows)
  <2>2. \A i \in hits : i \in Ids /\ Alive(i)
    BY CandidatesAlive
  <2>3. IsFiniteSet(hits) /\ Cardinality(hits) \in Nat
    BY <2>2, VpcAssumption, FS_Subset, FS_CardinalityType
  <2> HIDE DEF hits
  <2>4. CASE Cardinality(hits) > 1
    <3>1. Finish(t, "ambiguous")
      BY <2>1, <2>4 DEF hits
    <3>2. Answered(t, hits)
      BY <1>0, <2>4, <3>1, FinishMoves DEF Answered, Results
    <3> QED
      BY <3>2 DEF hits
  <2>5. CASE ~(Cardinality(hits) > 1) /\ hits = {}
    <3>1. /\ IF params[t].state = "absent" THEN PlanAbsent(t, hits) ELSE PlanCreate(t)
          /\ found' = found
      BY <2>1, <2>5 DEF hits
    <3>2. Answered(t, hits)
      BY <1>0, <2>5, <3>1 DEF Answered
    <3> QED
      BY <3>2 DEF hits
  <2>6. CASE ~(Cardinality(hits) > 1) /\ hits # {}
    <3>1. PICK i \in hits :
            /\ IF params[t].state = "absent" THEN PlanAbsent(t, hits) ELSE PlanUpdate(t, vpcs[i])
            /\ found' = [found EXCEPT ![t] = i]
            /\ snap' = [snap EXCEPT ![t] = vpcs[i]]
            /\ toAdd' = [toAdd EXCEPT ![t] = TagsToAdd(params[t].tags, vpcs[i].tags)]
            /\ toRemove' = [toRemove EXCEPT ![t] = TagsToRemove(params[t].tags, vpcs[i].tags)]
      BY <2>1, <2>6 DEF hits
    <3>2. Cardinality(hits) # 0
      BY <2>3, <2>6, FS_EmptySet
    <3>3. Cardinality(hits) = 1
      BY <2>3, <2>6, <3>2
    <3>4. hits = {i}
      BY <2>3, <3>1, <3>3, FS_Singleton
    <3>5. /\ found'[t] = i /\ snap'[t] = vpcs[i]
          /\ toAdd'[t] = TagsToAdd(params[t].tags, vpcs[i].tags)
          /\ toRemove'[t] = TagsToRemove(params[t].tags, vpcs[i].tags)
      BY <1>0, <3>1 DEF TypeOK
    <3>6. Answered(t, hits)
      BY <2>2, <3>1, <3>4, <3>5 DEF Answered
    <3> QED
      BY <3>6 DEF hits
  <2> QED
    BY <2>4, <2>5, <2>6
<1> QED
  BY <1>1, <1>2, <1>3 DEF Find

\* The plan for a VPC that is there, with the tags it leaves to the calls.
LEMMA PlanUpdateIs ==
  ASSUME TypeOK, NEW t \in Tasks, NEW v, PlanUpdate(t, v)
  PROVE  \/ pc'[t] = "done" /\ result'[t] = "unchanged"
              /\ ~AttrsDiffer(params[t], v) /\ params[t].tags = v.tags
         \/ pc'[t] = "done" /\ result'[t] = "changed" /\ params[t].check
              /\ (AttrsDiffer(params[t], v) \/ params[t].tags # v.tags)
         \/ pc'[t] = "modify" /\ AttrsDiffer(params[t], v) /\ ~params[t].check
         \/ pc'[t] = "tags" /\ ~AttrsDiffer(params[t], v) /\ params[t].tags # v.tags /\ ~params[t].check
BY FinishMoves, GotoMoves DEF PlanUpdate, Results, PCs

LEMMA FindHolds ==
  ASSUME IInv, NEW t \in Tasks, Find(t)
  PROVE  Holds(t)'
<1> SUFFICES ASSUME pc'[t] \in {"modify", "tags", "refind"} PROVE Holds(t)'
  BY DEF Holds
<1>0. TypeOK /\ IInv' /\ UNCHANGED <<params, vpcs>>
  BY FindInv, FindIs DEF IInv
<1>1. PICK hits : Answered(t, hits)
  BY FindIs
<1>2. params[t].state # "absent"
  BY <1>0 DEF IInv, Planned
<1>3. PICK i \in Ids : /\ hits = {i} /\ Alive(i) /\ found'[t] = i /\ snap'[t] = vpcs[i]
                       /\ toAdd'[t] = TagsToAdd(params[t].tags, vpcs[i].tags)
                       /\ toRemove'[t] = TagsToRemove(params[t].tags, vpcs[i].tags)
                       /\ PlanUpdate(t, vpcs[i])
  BY <1>0, <1>1, <1>2, PlanCreateMoves DEF Answered
<1>4. pc'[t] \in {"modify", "tags"} /\ (pc'[t] = "tags" => ~AttrsDiffer(params[t], vpcs[i]))
  BY <1>0, <1>3, PlanUpdateIs
<1>5. \A k \in TagKeys : /\ k \in toRemove'[t] => params[t].tags[k] = None
                         /\ k \notin toAdd'[t] \cup toRemove'[t] => vpcs[i].tags[k] = params[t].tags[k]
  BY <1>3 DEF TagsToAdd, TagsToRemove
<1> QED
  BY <1>0, <1>3, <1>4, <1>5 DEF Holds, Alive

LEMMA ModifiedIs ==
  ASSUME TypeOK, NEW t \in Tasks, found[t] \in Ids, Alive(found[t])
  PROVE  LET w == Modified(t)
         IN  /\ w.name = params[t].name /\ w.dns = Or(params[t].dns, snap[t].dns)
             /\ w.domain = Or(params[t].domain, snap[t].domain)
             /\ w.tags = vpcs[found[t]].tags
<1>1. vpcs[found[t]] \in Vpc
  BY DEF TypeOK, Alive
<1> QED
  BY <1>1 DEF Vpc, Modified

LEMMA TaggedIs ==
  ASSUME TypeOK, NEW t \in Tasks, found[t] \in Ids, Alive(found[t]), NEW k \in TagKeys, NEW value
  PROVE  LET v == vpcs[found[t]]
             w == Tagged(t, k, value)
         IN  /\ w.name = v.name /\ w.dns = v.dns /\ w.domain = v.domain
             /\ w.tags[k] = value /\ \A j \in TagKeys \ {k} : w.tags[j] = v.tags[j]
<1>1. vpcs[found[t]] \in Vpc
  BY DEF TypeOK, Alive
<1> QED
  BY <1>1 DEF Vpc, Tags, Tagged

\* A write of the task that left VPC v, whatever became of the call.
LEMMA StoreHere ==
  ASSUME TypeOK, NEW t \in Tasks, found[t] \in Ids, NEW v \in Vpc, Store(t, found[t], v),
         found' = found
  PROVE  vpcs'[found'[t]] = v /\ Alive(found[t])'
BY VpcAssumption DEF TypeOK, Store, Alive

LEMMA ModifyHolds ==
  ASSUME IInv, NEW t \in Tasks, Holds(t), Modify(t)
  PROVE  Holds(t)'
<1>0. /\ TypeOK /\ pc[t] = "modify" /\ found[t] \in Ids /\ UNCHANGED <<params, found, snap, toAdd, toRemove>>
      /\ Alive(found[t]) /\ ~params[t].check
  BY DEF IInv, Modify, Stalls, Fails, Planned, Holds
<1> DEFINE v == vpcs[found[t]]
           w == Modified(t)
<1>1. w \in Vpc
  BY <1>0, PutsTyped DEF Puts
<1>2. w.name = params[t].name /\ w.tags = v.tags
      /\ w.dns = Or(params[t].dns, snap[t].dns) /\ w.domain = Or(params[t].domain, snap[t].domain)
  BY <1>0, ModifiedIs
<1>3. CASE Works(t, w) /\ Goto(t, IF toAdd[t] \cup toRemove[t] = {} THEN "refind" ELSE "tags")
  <2>1. vpcs'[found'[t]] = w /\ Alive(found[t])'
    BY <1>0, <1>1, <1>3, StoreHere DEF Works
  <2>2. /\ pc'[t] \in {"tags", "refind"}
        /\ pc'[t] = "refind" => toAdd[t] \cup toRemove[t] = {}
    BY <1>0, <1>3 DEF Goto, TypeOK
  <2>3. ~AttrsDiffer(params[t], w)
    BY <1>2 DEF AttrsDiffer, Or
  <2> HIDE DEF w
  <2> QED
    BY <1>0, <1>2, <2>1, <2>2, <2>3 DEF Holds, Alive
<1>4. CASE Stalls(t, w)
  <2>1. pc'[t] \in {"modify", "done"}
    BY <1>0, <1>4, RaiseMoves DEF Stalls, Fails
  <2>2. Untouched \/ Store(t, found[t], w)
    BY <1>4, FailsPuts DEF Stalls
  <2>3. vpcs'[found'[t]] \in {v, w} /\ Alive(found[t])'
    BY <1>0, <1>1, <2>2, StoreHere DEF Untouched, Alive
  <2> HIDE DEF w
  <2> QED
    BY <1>0, <1>2, <2>1, <2>3 DEF Holds, Or, Alive
<1> QED
  BY <1>3, <1>4 DEF Modify

\* One tag is as asked, and the others are as they were.
LEMMA TagHolds ==
  ASSUME IInv, NEW t \in Tasks, Holds(t), AttachTag(t) \/ DetachTag(t)
  PROVE  Holds(t)'
<1>0. /\ TypeOK /\ pc[t] = "tags" /\ found[t] \in Ids /\ UNCHANGED <<params, found, snap>>
      /\ Alive(found[t]) /\ toAdd[t] \subseteq TagKeys /\ toRemove[t] \subseteq TagKeys
  BY DEF IInv, TypeOK, AttachTag, DetachTag, Planned, Holds
<1> DEFINE v == vpcs[found[t]]
           left == toAdd'[t] \cup toRemove'[t]
<1>1. PICK k \in TagKeys :
        /\ k \in toAdd[t] \cup toRemove[t]
        /\ LET w == Tagged(t, k, params[t].tags[k])
           IN  \/ /\ Works(t, w)
                  /\ toAdd'[t] = toAdd[t] \ {k} /\ toRemove'[t] \subseteq toRemove[t]
                  /\ toRemove[t] \ {k} \subseteq toRemove'[t]
                  /\ Goto(t, IF left = {} THEN "refind" ELSE "tags")
               \/ Stalls(t, w)
  <2>1. CASE AttachTag(t)
    <3>1. PICK k \in toAdd[t] : AttachTag(t)!2!(k)
      BY <2>1 DEF AttachTag
    <3>2. CASE Stalls(t, Tagged(t, k, params[t].tags[k]))
      BY <1>0, <3>2
    <3>3. CASE /\ Works(t, Tagged(t, k, params[t].tags[k]))
               /\ toAdd' = [toAdd EXCEPT ![t] = @ \ {k}]
               /\ Goto(t, IF (toAdd[t] \ {k}) \cup toRemove[t] = {} THEN "refind" ELSE "tags")
               /\ UNCHANGED toRemove
      <4>1. toAdd'[t] = toAdd[t] \ {k} /\ toRemove'[t] = toRemove[t]
        BY <1>0, <3>3 DEF TypeOK
      <4>2. Goto(t, IF left = {} THEN "refind" ELSE "tags")
        BY <3>3, <4>1
      <4> QED
        BY <1>0, <3>3, <4>1, <4>2
    <3> QED
      BY <3>1, <3>2, <3>3
  <2>2. CASE DetachTag(t)
    <3>1. PICK k \in toRemove[t] : DetachTag(t)!3!(k)
      BY <2>2 DEF DetachTag
    <3>2. toAdd[t] = {} /\ params[t].tags[k] = None
      BY <1>0, <2>2 DEF DetachTag, Holds
    <3>3. CASE Stalls(t, Tagged(t, k, None))
      BY <1>0, <3>2, <3>3
    <3>4. CASE /\ Works(t, Tagged(t, k, None))
               /\ toRemove' = [toRemove EXCEPT ![t] = @ \ {k}]
               /\ Goto(t, IF toRemove[t] = {k} THEN "refind" ELSE "tags")
               /\ UNCHANGED toAdd
      <4>1. toRemove'[t] = toRemove[t] \ {k} /\ toAdd'[t] = {}
        BY <1>0, <3>2, <3>4 DEF TypeOK
      <4>2. Goto(t, IF left = {} THEN "refind" ELSE "tags")
        <5>1. left = {} <=> toRemove[t] = {k}
          BY <4>1
        <5> HIDE DEF left
        <5> QED
          BY <3>4, <5>1, Zenon
      <4> QED
        BY <1>0, <3>2, <3>4, <4>1, <4>2
    <3> QED
      BY <3>1, <3>3, <3>4
  <2> QED
    BY <2>1, <2>2
<1> DEFINE w == Tagged(t, k, params[t].tags[k])
<1>2. w \in Vpc
  <2>1. params[t].tags[k] \in TagVals \cup {None}
    BY <1>0, ParamsTyped DEF Param, Tags
  <2> QED
    BY <1>0, <2>1, TaggedTyped
<1>3. /\ w.name = v.name /\ w.dns = v.dns /\ w.domain = v.domain
      /\ w.tags[k] = params[t].tags[k] /\ \A j \in TagKeys \ {k} : w.tags[j] = v.tags[j]
  BY <1>0, TaggedIs
<1>4. ~AttrsDiffer(params[t], v) /\ ~AttrsDiffer(params[t], w)
  BY <1>0, <1>3 DEF Holds, AttrsDiffer
<1>5. CASE /\ Works(t, w)
           /\ toAdd'[t] = toAdd[t] \ {k} /\ toRemove'[t] \subseteq toRemove[t]
           /\ toRemove[t] \ {k} \subseteq toRemove'[t]
           /\ Goto(t, IF left = {} THEN "refind" ELSE "tags")
  <2>1. vpcs'[found'[t]] = w /\ Alive(found[t])'
    BY <1>0, <1>2, <1>5, StoreHere DEF Works
  <2>2. /\ pc'[t] \in {"tags", "refind"}
        /\ pc'[t] = "refind" => left = {}
    BY <1>0, <1>5 DEF Goto, TypeOK
  <2> HIDE DEF w
  <2> QED
    BY <1>0, <1>3, <1>4, <1>5, <2>1, <2>2 DEF Holds, Alive
<1>6. CASE Stalls(t, w)
  <2>1. pc'[t] \in {"tags", "done"} /\ UNCHANGED <<toAdd, toRemove>>
    BY <1>0, <1>6, RaiseMoves DEF Stalls, Fails
  <2>2. Untouched \/ Store(t, found[t], w)
    BY <1>6, FailsPuts DEF Stalls
  <2>3. vpcs'[found'[t]] \in {v, w} /\ Alive(found[t])'
    BY <1>0, <1>2, <2>2, StoreHere DEF Untouched, Alive
  <2> HIDE DEF w
  <2> QED
    BY <1>0, <1>3, <1>4, <2>1, <2>3 DEF Holds, Alive
<1> QED
  BY <1>1, <1>5, <1>6

LEMMA HoldsStep ==
  ASSUME TInv, NEW t \in Tasks, Alone(t), NEW u \in Tasks, Step(u)
  PROVE  Holds(t)'
<1>0. IInv /\ TypeOK /\ Holds(t) /\ Turns
  BY DEF TInv, IInv
<1>1. CASE u # t
  <2>1. ~Running(t) /\ pc'[t] = pc[t]
    BY <1>0, <1>1, Exclusive, OthersStill DEF Still
  <2> QED
    BY <2>1 DEF Running, Holds
<1>2. CASE u = t /\ Start(t)
  <2>1. pc'[t] \in {"find", "done"}
    BY <1>0, <1>2, FinishMoves, GotoMoves DEF Start, Results, PCs
  <2> QED
    BY <2>1 DEF Holds
<1>3. CASE u = t /\ Find(t)
  BY <1>0, <1>3, FindHolds
<1>4. CASE u = t /\ (Create(t) \/ Delete(t))
  <2>1. pc'[t] \in {"create", "delete", "done"}
    BY <1>0, <1>4, FinishMoves, RaiseMoves DEF Create, Delete, Stalls, Fails, Results
  <2> QED
    BY <2>1 DEF Holds
<1>5. CASE u = t /\ Modify(t)
  BY <1>0, <1>5, ModifyHolds
<1>6. CASE u = t /\ (AttachTag(t) \/ DetachTag(t))
  BY <1>0, <1>6, TagHolds
<1>7. CASE u = t /\ Refind(t)
  <2>1. pc'[t] \in {"refind", "done"} /\ pc[t] = "refind"
    BY <1>0, <1>7, FinishMoves, RaiseMoves DEF Refind, Results
  <2> QED
    BY <1>0, <1>7, <2>1 DEF Refind, Holds, Alive
<1> QED
  BY <1>1, <1>2, <1>3, <1>4, <1>5, <1>6, <1>7 DEF Step

LEMMA TurnsInv == TInv /\ [Next]_vars => TInv'
<1> SUFFICES ASSUME TInv, [Next]_vars PROVE TInv'
  OBVIOUS
<1>0. IInv /\ IInv' /\ TypeOK
  BY StepInv DEF TInv, IInv
<1>1. ASSUME NEW u \in Tasks, Step(u) PROVE TInv'
  <2>1. params' = params
    BY <1>0, <1>1, OthersStill
  <2>2. \A t \in Tasks : Alone(t)' => Holds(t)'
    BY <1>1, <2>1, HoldsStep DEF Alone
  <2>3. Turns'
    BY <1>0, <1>1, TurnsStep DEF TInv
  <2> QED
    BY <1>0, <2>2, <2>3 DEF TInv
<1>2. CASE UNCHANGED vars
  BY <1>0, <1>2 DEF vars, task, TInv, Turns, Alone, Holds, Alive
<1> QED
  BY <1>1, <1>2 DEF Next

LEMMA TurnsInit == Init => TInv
  BY InitInv DEF Init, TInv, Turns, Holds

-----------------------------------------------------------------------------
(***************************************************************************)
(* What a task that reports success has achieved.                          *)
(***************************************************************************)

\* The cloud says "not found" only of what is not there: Fails models that answer.
TruthfulFaults == \A f \in Faults : ~IsNotFound(f[1])

LEMMA RaiseUnchanged ==
  ASSUME TypeOK, NEW t \in Tasks, NEW code, Raise(t, code), result[t] = "none", result'[t] = "unchanged"
  PROVE  IsNotFound(code)
BY DEF TypeOK, Raise, Finish

LEMMA FindAsAsked ==
  ASSUME IInv, NEW t \in Tasks, Find(t), result'[t] \in Reported, ~params[t].check
  PROVE  AsAsked(t)'
<1>0. IInv' /\ TypeOK /\ UNCHANGED <<params, vpcs, wrote>> /\ pc'[t] = "done"
  BY FindInv, FindIs DEF IInv, Planned, Reported
<1>1. PICK rows \in Pages(Matching(params[t].id, params[t].name)) :
        Answered(t, Candidates(params[t].id, params[t].name, rows))
  BY <1>0, FindIs DEF Reported
<1> DEFINE hits == Candidates(params[t].id, params[t].name, rows)
<1> HIDE DEF hits
<1>2. CASE params[t].state = "absent"
  <2>1. hits = {} /\ found'[t] = None
    BY <1>0, <1>1, <1>2, PlanAbsentMoves DEF Answered, Reported, hits
  <2> QED
    BY <1>0, <1>2, <2>1 DEF AsAsked
<1>3. CASE params[t].state # "absent"
  <2>1. PICK i \in Ids : found'[t] = i /\ Alive(i) /\ PlanUpdate(t, vpcs[i])
    BY <1>0, <1>1, <1>3, PlanCreateMoves DEF Answered, Reported, hits
  <2>2. ~AttrsDiffer(params[t], vpcs[i]) /\ params[t].tags = vpcs[i].tags
    BY <1>0, <2>1, PlanUpdateIs
  <2> QED
    BY <1>0, <1>3, <2>1, <2>2 DEF AsAsked, AttrsDiffer, Or, Alive
<1> QED
  BY <1>2, <1>3

LEMMA ReportedAsAsked ==
  ASSUME TruthfulFaults, TInv, NEW t \in Tasks, Alone(t), Step(t),
         result'[t] \in Reported, ~params[t].check
  PROVE  AsAsked(t)'
<1>0. /\ IInv /\ TypeOK /\ Planned(t) /\ Holds(t) /\ params' = params
      /\ pc[t] # "done" /\ result[t] = "none"
  BY OthersStill DEF TInv, IInv, Planned
<1>1. CASE Start(t)
  BY <1>0, <1>1, FinishMoves, GotoMoves DEF Start, Results, PCs, Reported
<1>2. CASE Find(t)
  BY <1>0, <1>2, FindAsAsked
<1>3. CASE Create(t)
  <2> DEFINE v == NewVpc(params[t])
  <2>1. ~\E f \in Faults : Raise(t, f[1])
    BY <1>0, <1>3, RaiseMoves DEF Create, Reported
  <2>2. PICK i \in Ids : vpcs[i] = Unborn /\ Store(t, i, v)
    BY <1>3, <2>1 DEF Create, NewVpc, Fails
  <2>3. v \in Vpc /\ params[t].state = "present"
    BY <1>0, <1>3, <2>2, PutsTyped DEF Puts, Create, Planned
  <2>4. vpcs'[i] = v /\ i \in wrote'[t] /\ v \notin {Unborn, Gone}
    BY <1>0, <2>2, <2>3, VpcAssumption DEF Store, TypeOK
  <2>5. /\ v.name = params[t].name /\ v.tags = params[t].tags
        /\ v.dns = Or(params[t].dns, v.dns) /\ v.domain = Or(params[t].domain, v.domain)
    BY DEF NewVpc, Or
  <2> HIDE DEF v
  <2> QED
    BY <1>0, <2>3, <2>4, <2>5 DEF AsAsked, Alive
<1>4. CASE Delete(t)
  <2>1. found[t] \in Ids /\ found' = found /\ pc[t] = "delete"
    BY <1>0, <1>4 DEF Delete, Planned
  <2>2. ~Alive(found[t])'
    <3>1. CASE Works(t, Gone)
      BY <1>0, <2>1, <3>1 DEF Works, Store, Alive, TypeOK
    <3>2. CASE Stalls(t, Gone)
      <4>1. ~\E f \in Faults : Raise(t, f[1])
        BY <1>0, <2>1, RaiseMoves, RaiseUnchanged DEF TruthfulFaults, Reported
      <4> QED
        BY <2>1, <3>2, <4>1 DEF Stalls, Fails, Untouched, Alive
    <3> QED
      BY <1>4, <3>1, <3>2 DEF Delete
  <2>3. params[t].state = "absent"
    BY <1>0, <2>1 DEF Planned
  <2> QED
    BY <1>0, <2>2, <2>3 DEF AsAsked
<1>5. CASE Modify(t) \/ AttachTag(t) \/ DetachTag(t)
  BY <1>0, <1>5, GotoMoves, RaiseMoves DEF Modify, AttachTag, DetachTag, Stalls, Fails, Reported, PCs
<1>6. CASE Refind(t)
  <2> DEFINE v == vpcs[found[t]]
  <2>1. /\ UNCHANGED <<vpcs, found, wrote>> /\ pc[t] = "refind" /\ found[t] \in Ids
        /\ params[t].state = "present" /\ params[t] \in Param
    BY <1>0, <1>6, ParamsTyped DEF Refind, Planned
  <2>2. Alive(found[t]) /\ ~AttrsDiffer(params[t], v) /\ \A k \in TagKeys : v.tags[k] = params[t].tags[k]
    BY <1>0, <2>1 DEF Holds
  <2>3. v.tags = params[t].tags
    <3>1. v \in Vpc
      BY <1>0, <2>1, <2>2 DEF TypeOK, Alive
    <3>2. v.tags \in [TagKeys -> TagVals \cup {None}] /\ params[t].tags \in [TagKeys -> TagVals \cup {None}]
      BY <2>1, <3>1 DEF Vpc, Param, Tags
    <3> HIDE DEF v
    <3> QED
      BY <2>2, <3>2
  <2> QED
    BY <1>0, <2>1, <2>2, <2>3 DEF AsAsked, AttrsDiffer, Or, Alive
<1> QED
  BY <1>0, <1>1, <1>2, <1>3, <1>4, <1>5, <1>6 DEF Step

\* In a play of one task after the other it is the task that reports that moved.
LEMMA ConvergesStep ==
  ASSUME TruthfulFaults, TInv, [Next]_vars
  PROVE  [InSequence =>
            \A t \in Tasks :
              pc[t] # "done" /\ result'[t] \in Reported /\ ~params[t].check => AsAsked(t)']_vars
<1> SUFFICES ASSUME InSequence, NEW t \in Tasks, pc[t] # "done", result'[t] \in Reported,
                    ~params[t].check, ~UNCHANGED vars
             PROVE  AsAsked(t)'
  OBVIOUS
<1>1. PICK u \in Tasks : Step(u)
  BY DEF Next
<1>2. u = t
  <2>1. IInv /\ result[t] = "none"
    BY DEF TInv, IInv, Planned
  <2> QED
    BY <1>1, <2>1, OthersStill DEF IInv, Still, Reported
<1>3. Alone(t)
  BY DEF InSequence, Alone
<1> QED
  BY <1>1, <1>2, <1>3, ReportedAsAsked

\* For every sequence of tasks, account, budget of retries and lost reply: a task
\* that reports success outside check mode leaves what it was asked for, also when
\* an earlier task failed between two of its calls.
THEOREM ConvergesAlways == TruthfulFaults /\ Spec => Converges
<1>1. TruthfulFaults /\ Init => TruthfulFaults /\ TInv
  BY TurnsInit
<1>2. (TruthfulFaults /\ TInv) /\ [Next]_vars => (TruthfulFaults /\ TInv)'
  BY TurnsInv DEF TruthfulFaults
<1>3. (TruthfulFaults /\ TInv) /\ [Next]_vars =>
        [InSequence =>
            \A t \in Tasks :
              pc[t] # "done" /\ result'[t] \in Reported /\ ~params[t].check => AsAsked(t)']_vars
  BY ConvergesStep
<1> QED
  BY <1>1, <1>2, <1>3, PTL DEF Spec, Converges

LEMMA UnmanagedStep ==
  ASSUME TInv, InSequence, NEW t \in Tasks, Step(t), NEW i \in Ids, Alive(i), Alive(i)'
  PROVE  /\ vpcs'[i].dns # vpcs[i].dns => params[t].dns = vpcs'[i].dns
         /\ vpcs'[i].domain # vpcs[i].domain => params[t].domain = vpcs'[i].domain
<1>0. IInv /\ TypeOK /\ Holds(t) /\ vpcs \in [Ids -> Vpc \cup {Unborn, Gone}]
  BY DEF TInv, IInv, TypeOK, InSequence, Alone
<1>1. CASE vpcs'[i] = vpcs[i]
  BY <1>1
<1>2. CASE vpcs'[i] # vpcs[i]
  <2>1. PICK j \in Ids, v \in Vpc \cup {Gone} : Puts(t, j, v) /\ Store(t, j, v)
    BY <1>0, <1>2, StepPuts DEF Untouched
  <2>2. i = j /\ vpcs'[i] = v
    BY <1>0, <1>2, <2>1 DEF Store
  <2>3. i = found[t] /\ pc[t] # "delete"
    BY <2>1, <2>2 DEF Puts, Alive
  <2>4. CASE pc[t] = "modify"
    <3>1. v = Modified(t)
      BY <2>1, <2>2, <2>4 DEF Puts, Alive
    <3>2. v.dns = Or(params[t].dns, snap[t].dns) /\ v.domain = Or(params[t].domain, snap[t].domain)
      BY <1>0, <2>3, <3>1, ModifiedIs
    <3> QED
      BY <1>0, <2>2, <2>3, <2>4, <3>2 DEF Holds, Or
  <2>5. CASE pc[t] = "tags"
    <3>1. PICK k \in toAdd[t] \cup toRemove[t] : \E x : v = Tagged(t, k, x)
      BY <2>1, <2>2, <2>5 DEF Puts, Alive
    <3>2. k \in TagKeys
      BY <1>0, <3>1 DEF TypeOK
    <3> QED
      BY <1>0, <2>2, <2>3, <3>1, <3>2, TaggedIs
  <2> QED
    BY <2>1, <2>2, <2>3, <2>4, <2>5 DEF Puts, Alive
<1> QED
  BY <1>1, <1>2

\* For every sequence of tasks and every fault: the attributes a task does not manage
\* keep the values that an earlier task asked for, or that they had at the start,
\* although ModifyVpcAttribute rewrites them all.
THEOREM UnmanagedSurvivesAlways == Spec => UnmanagedSurvives
<1>1. TInv /\ [Next]_vars =>
        [InSequence => \A i \in Ids :
           Alive(i) /\ Alive(i)' =>
             /\ vpcs'[i].dns # vpcs[i].dns => \E t \in Tasks : params[t].dns = vpcs'[i].dns
             /\ vpcs'[i].domain # vpcs[i].domain =>
                  \E t \in Tasks : params[t].domain = vpcs'[i].domain]_vars
  BY UnmanagedStep DEF Next
<1> QED
  BY <1>1, TurnsInit, TurnsInv, PTL DEF Spec, UnmanagedSurvives

-----------------------------------------------------------------------------
(***************************************************************************)
(* A task and the one that repeats it, for accounts whose matches fit on   *)
(* the one page that find_vpc reads.                                       *)
(***************************************************************************)
OnePage == \A t \in Tasks : Cardinality(Matching(params[t].id, params[t].name)) <= Limit

Hits(p) == Candidates(p.id, p.name, Matching(p.id, p.name))

Unnamed(p) == p.state = "absent" /\ p.name = None /\ p.id = None

\* How the task ends if nothing fails and nobody else writes.
Outlook(p) ==
  IF Unnamed(p) THEN "invalid"
  ELSE IF Cardinality(Hits(p)) > 1 THEN "ambiguous"
  ELSE IF Hits(p) = {}
       THEN IF p.state = "absent" THEN "unchanged" ELSE IF p.cidr THEN "changed" ELSE "invalid"
  ELSE IF p.state = "absent" \/ \E i \in Hits(p) : AttrsDiffer(p, vpcs[i]) \/ p.tags # vpcs[i].tags
       THEN "changed" ELSE "unchanged"

Named == \A t \in Tasks : pc[t] = "find" => ~Unnamed(params[t])

LEMMA NamedStep ==
  ASSUME IInv, Named, NEW t \in Tasks, Step(t)
  PROVE  Named'
<1>0. TypeOK /\ params' = params /\ pc[t] # "done" /\ \A u \in Tasks \ {t} : Still(u)
  BY OthersStill DEF IInv
<1>1. CASE Start(t)
  <2>1. pc'[t] = "find" => ~Unnamed(params[t])
    BY <1>0, <1>1, FinishMoves DEF Start, Unnamed, Results
  <2> QED
    BY <1>0, <2>1 DEF Named, Still
<1>2. CASE ~Start(t)
  <2>1. pc'[t] = "find" => pc[t] = "find"
    BY <1>0, <1>2, FinishMoves, GotoMoves, RaiseMoves
       DEF Step, Find, Create, Delete, Modify, AttachTag, DetachTag, Refind, Stalls, Fails, Results, PCs
  <2> QED
    BY <1>0, <2>1 DEF Named, Still
<1> QED
  BY <1>1, <1>2

LEMMA PlanCreateIs ==
  ASSUME TypeOK, NEW t \in Tasks, PlanCreate(t)
  PROVE  \/ pc'[t] = "done" /\ result'[t] = "invalid" /\ ~params[t].cidr
         \/ pc'[t] = "done" /\ result'[t] = "changed" /\ params[t].cidr /\ params[t].check
         \/ pc'[t] = "create" /\ params[t].cidr /\ ~params[t].check
BY FinishMoves, GotoMoves DEF PlanCreate, Results, PCs

\* The lookup decides as foreseen, and in check mode it also reports so.
LEMMA FindOutlook ==
  ASSUME IInv, OnePage, Named, NEW t \in Tasks, Find(t)
  PROVE  \/ pc'[t] = "find"
         \/ pc'[t] = "done" /\ result'[t] = "sdkError"
         \/ pc'[t] = "done" /\ result'[t] = Outlook(params[t])
         \/ /\ pc'[t] \in {"create", "delete", "modify", "tags"}
            /\ ~params[t].check /\ Outlook(params[t]) = "changed"
            /\ pc'[t] = "delete" => Alive(found[t])'
<1> DEFINE p == params[t]
           hits == Hits(p)
<1>0. TypeOK /\ ~Unnamed(p) /\ vpcs' = vpcs
  BY FindIs DEF IInv, Named, Find
<1>1. ASSUME Answered(t, hits)
      PROVE  \/ pc'[t] = "done" /\ result'[t] = Outlook(p)
             \/ /\ pc'[t] \in {"create", "delete", "modify", "tags"}
                /\ ~p.check /\ Outlook(p) = "changed"
                /\ pc'[t] = "delete" => Alive(found[t])'
  <2>1. CASE Cardinality(hits) > 1
    <3>1. hits # {} /\ \A i \in Ids : hits # {i}
      <4>1. Cardinality({}) = 0 /\ \A i \in Ids : Cardinality({i}) = 1
        BY FS_EmptySet, FS_Singleton
      <4> HIDE DEF hits
      <4> QED
        BY <2>1, <4>1
    <3>2. pc'[t] = "done" /\ result'[t] = "ambiguous"
      BY <1>1, <3>1 DEF Answered
    <3>3. Outlook(p) = "ambiguous"
      BY <1>0, <2>1 DEF Outlook
    <3> QED
      BY <3>2, <3>3
  <2>2. CASE ~(Cardinality(hits) > 1) /\ hits = {} /\ p.state = "absent"
    <3>1. Outlook(p) = "unchanged"
      BY <1>0, <2>2 DEF Outlook
    <3>2. Finish(t, "unchanged")
      BY <1>1, <2>2 DEF Answered, PlanAbsent
    <3> QED
      BY <1>0, <3>1, <3>2, FinishMoves DEF Results
  <2>3. CASE ~(Cardinality(hits) > 1) /\ hits = {} /\ p.state # "absent"
    <3>1. Outlook(p) = IF p.cidr THEN "changed" ELSE "invalid"
      BY <1>0, <2>3 DEF Outlook
    <3>2. PlanCreate(t)
      BY <1>1, <2>3 DEF Answered
    <3> QED
      BY <1>0, <3>1, <3>2, PlanCreateIs
  <2>4. CASE ~(Cardinality(hits) > 1) /\ hits # {}
    <3>1. PICK i \in Ids :
            /\ hits = {i} /\ Alive(i) /\ found'[t] = i
            /\ IF p.state = "absent" THEN PlanAbsent(t, hits) ELSE PlanUpdate(t, vpcs[i])
      BY <1>1, <2>4 DEF Answered
    <3>2. Outlook(p) = IF p.state = "absent" \/ AttrsDiffer(p, vpcs[i]) \/ p.tags # vpcs[i].tags
                       THEN "changed" ELSE "unchanged"
      BY <1>0, <2>4, <3>1 DEF Outlook
    <3>3. Alive(found[t])'
      BY <1>0, <3>1 DEF Alive
    <3>4. CASE p.state = "absent"
      BY <1>0, <3>1, <3>2, <3>3, <3>4, PlanAbsentMoves
    <3>5. CASE p.state # "absent"
      BY <1>0, <3>1, <3>2, <3>5, PlanUpdateIs
    <3> QED
      BY <3>4, <3>5
  <2> QED
    BY <2>1, <2>2, <2>3, <2>4
<1>2. \A rows \in Pages(Matching(p.id, p.name)) : rows = Matching(p.id, p.name)
  BY DEF OnePage, Pages
<1> QED
  BY <1>1, <1>2, FindIs DEF Hits

LEMMA RepeatsSame ==
  ASSUME TypeOK, NEW t \in Tasks, NEW u \in Tasks, Repeats(t, u)
  PROVE  /\ params[t].state = params[u].state /\ params[t].id = params[u].id
         /\ params[t].name = params[u].name /\ params[t].cidr = params[u].cidr
         /\ params[t].dns = params[u].dns /\ params[t].domain = params[u].domain
         /\ params[t].tags = params[u].tags
<1>1. params[t] \in Param /\ params[u] \in Param
  BY ParamsTyped
<1>2. params[u] = [params[t] EXCEPT !.check = params[u].check, !.after = params[u].after]
  BY DEF Repeats
<1> QED
  BY <1>1, <1>2 DEF Param

LEMMA SameOutlook ==
  ASSUME TypeOK, NEW t \in Tasks, NEW u \in Tasks, Repeats(t, u)
  PROVE  Outlook(params[t]) = Outlook(params[u])
<1>1. Hits(params[t]) = Hits(params[u]) /\ (Unnamed(params[t]) <=> Unnamed(params[u]))
  BY RepeatsSame DEF Hits, Unnamed
<1>2. \A i : AttrsDiffer(params[t], vpcs[i]) <=> AttrsDiffer(params[u], vpcs[i])
  BY RepeatsSame DEF AttrsDiffer
<1> QED
  BY <1>1, <1>2, RepeatsSame DEF Outlook

\* Until the repetition has ended no third task takes a step.
LEMMA PairTurn ==
  ASSUME IInv, Turns, NEW t \in Tasks, NEW u \in Tasks, Repeats(t, u),
         pc[u] # "start", pc[t] # "done", NEW w \in Tasks, Step(w)
  PROVE  t # u /\ (w = t \/ w = u) /\ (w = u => pc[t] = "start") /\ (w = t => pc[u] = "done")
<1>1. pc[w] # "done" /\ u \in params[t].after
  BY OthersStill DEF IInv, Repeats
<1>2. t # u /\ (pc[t] # "start" => pc[u] = "done")
  BY <1>1 DEF Turns
<1>3. w = t => pc[u] = "done"
  BY <1>1, StartsInTurn DEF Turns
<1>4. ASSUME w \notin {t, u} PROVE FALSE
  <2>1. CASE w \in params[u].after
    BY <1>1, <2>1 DEF Turns
  <2>2. CASE t \in params[w].after
    BY <1>1, <2>2, StartsInTurn DEF Turns
  <2> QED
    BY <1>4, <2>1, <2>2 DEF Repeats
<1> QED
  BY <1>1, <1>2, <1>3, <1>4

LEMMA SameAccount ==
  ASSUME vpcs' = vpcs, params' = params, NEW t \in Tasks
  PROVE  Outlook(params[t])' = Outlook(params[t])
<1>1. (Hits(params[t]))' = Hits(params[t])
  BY DEF Hits, Candidates, Matching, Alive
<1> QED
  BY <1>1 DEF Outlook, Unnamed, AttrsDiffer

\* What a run in check mode announced is what the run after it is about to do.
Foretold(t, u) ==
  Repeats(t, u) /\ params[u].check /\ result[u] \notin {"none", "sdkError"} =>
    /\ pc[t] \in {"start", "find"} => result[u] = Outlook(params[u])
    /\ Running(t) /\ pc[t] # "find" => result[u] = "changed"
    /\ pc[t] = "delete" => Alive(found[t])
    /\ pc[t] = "done" => result[t] \in {"sdkError", result[u]}

CInv == /\ NoLostReplies /\ TruthfulFaults
        /\ TInv /\ Named /\ \A t, u \in Tasks : Foretold(t, u)

LEMMA CheckedStep ==
  ASSUME CInv, OnePage, NEW w \in Tasks, Step(w), NEW t \in Tasks, NEW u \in Tasks
  PROVE  Foretold(t, u)'
<1>0. /\ IInv /\ TypeOK /\ Turns /\ Named /\ Planned(t) /\ Planned(u)
      /\ params' = params /\ pc[w] # "done" /\ \A x \in Tasks \ {w} : Still(x)
  BY OthersStill DEF CInv, TInv, IInv
<1> SUFFICES ASSUME Repeats(t, u), params[u].check, result'[u] \notin {"none", "sdkError"}
             PROVE  /\ pc'[t] \in {"start", "find"} => result'[u] = Outlook(params[u])'
                    /\ Running(t)' /\ pc'[t] # "find" => result'[u] = "changed"
                    /\ pc'[t] = "delete" => Alive(found[t])'
                    /\ pc'[t] = "done" => result'[t] \in {"sdkError", result'[u]}
  BY <1>0 DEF Foretold, Repeats
<1>1. CASE pc[t] = "done"
  <2>1. pc[u] = "done" /\ w # t /\ w # u
    BY <1>0, <1>1 DEF Turns, Repeats
  <2> QED
    BY <1>0, <1>1, <2>1 DEF CInv, Foretold, Still, Running
<1>2. CASE pc[t] # "done" /\ pc[u] = "start"
  <2>1. w = u /\ t # u /\ pc[t] = "start" /\ Start(u)
    BY <1>0, <1>2 DEF Planned, Turns, Repeats, Still, Step, Find, Create, Delete, Modify, AttachTag, DetachTag, Refind
  <2>2. result'[u] = "invalid" /\ Unnamed(params[u]) /\ vpcs' = vpcs
    BY <1>0, <1>2, <2>1, FinishMoves, GotoMoves DEF Start, Unnamed, Planned, Results, PCs
  <2>3. Outlook(params[u])' = "invalid"
    BY <1>0, <2>2, SameAccount DEF Outlook
  <2> QED
    BY <1>0, <2>1, <2>2, <2>3 DEF Still, Running
<1>3. CASE pc[t] # "done" /\ pc[u] # "start" /\ w = u
  <2>1. pc[t] = "start" /\ t # u
    BY <1>0, <1>3, PairTurn
  <2>2. Find(u)
    BY <1>0, <1>3 DEF Planned, Step, Start, Create, Delete, Modify, AttachTag, DetachTag, Refind
  <2>3. vpcs' = vpcs /\ (pc'[u] # "done" => result'[u] = "none")
    BY <1>0, <2>2, FindIs, FindInv DEF IInv, Planned
  <2>4. result'[u] = Outlook(params[u])
    BY <1>0, <2>2, <2>3, FindOutlook
  <2> QED
    BY <1>0, <1>3, <2>1, <2>3, <2>4, SameAccount DEF Still, Running
<1>4. CASE pc[t] # "done" /\ pc[u] # "start" /\ w # u
  <2>1. w = t /\ t # u /\ pc[u] = "done" /\ result'[u] = result[u] /\ Foretold(t, u)
    BY <1>0, <1>4, PairTurn DEF Still, CInv
  <2>2. Outlook(params[t]) = Outlook(params[u])
    BY <1>0, SameOutlook
  <2>3. CASE Start(t)
    <3>1. vpcs' = vpcs /\ pc[t] = "start"
      BY <2>3 DEF Start
    <3>2. \/ pc'[t] = "done" /\ result'[t] = "invalid" /\ Unnamed(params[t])
          \/ pc'[t] = "find"
      BY <1>0, <2>3, FinishMoves, GotoMoves DEF Start, Unnamed, Results, PCs
    <3>3. Unnamed(params[t]) => Outlook(params[t]) = "invalid"
      BY DEF Outlook
    <3> QED
      BY <1>0, <2>1, <2>2, <3>1, <3>2, <3>3, SameAccount DEF Foretold, Running
  <2>4. CASE Find(t)
    <3>1. vpcs' = vpcs /\ pc[t] = "find"
      BY <1>0, <2>4, FindIs DEF Find
    <3>2. result[u] = Outlook(params[u])
      BY <2>1, <3>1 DEF Foretold
    <3> QED
      BY <1>0, <2>1, <2>2, <2>4, <3>1, <3>2, FindOutlook, SameAccount DEF Running
  <2>5. CASE Create(t) \/ Modify(t) \/ AttachTag(t) \/ DetachTag(t) \/ Refind(t)
    <3>1. pc[t] \in {"create", "modify", "tags", "refind"}
      BY <2>5 DEF Create, Modify, AttachTag, DetachTag, Refind
    <3>2. result[u] = "changed"
      BY <2>1, <3>1 DEF Foretold, Running
    <3>3. /\ pc'[t] \in {"create", "modify", "tags", "refind", "done"}
          /\ pc'[t] = "done" => result'[t] \in {"sdkError", "changed"}
      BY <1>0, <2>5, FinishMoves, GotoMoves, RaiseMoves
         DEF Create, Modify, AttachTag, DetachTag, Refind, Stalls, Fails, Planned, Results, PCs
    <3> QED
      BY <2>1, <3>2, <3>3
  <2>6. CASE Delete(t)
    <3>1. pc[t] = "delete" /\ result[u] = "changed" /\ Alive(found[t]) /\ UNCHANGED found
      BY <2>1, <2>6 DEF Delete, Foretold, Running
    <3>2. CASE Finish(t, "changed")
      BY <1>0, <2>1, <3>1, <3>2, FinishMoves DEF Results
    <3>3. CASE Stalls(t, Gone)
      <4>1. PICK f \in Faults : Untouched /\ Raise(t, f[1])
        BY <3>1, <3>3 DEF Stalls, Fails, CInv, NoLostReplies
      <4>2. ~IsNotFound(f[1])
        BY DEF CInv, TruthfulFaults
      <4>3. \/ pc'[t] = "delete"
            \/ pc'[t] = "done" /\ result'[t] = "sdkError"
        BY <1>0, <3>1, <4>1, <4>2, RaiseMoves, RaiseUnchanged DEF Planned
      <4> QED
        BY <2>1, <3>1, <4>1, <4>3 DEF Untouched, Alive
    <3> QED
      BY <2>6, <3>2, <3>3 DEF Delete
  <2> QED
    BY <2>1, <2>3, <2>4, <2>5, <2>6 DEF Step
<1> QED
  BY <1>1, <1>2, <1>3, <1>4

\* When no reply is lost, "not found" is only said of what is not there, and the
\* matches of a name fit on the page that is read: whatever the account holds, and
\* whatever other tasks do before and after, the run that follows a check mode run
\* ends as announced, or with an error of the API.
THEOREM CheckModePredictsAlways ==
  NoLostReplies /\ TruthfulFaults /\ Spec /\ []OnePage => []CheckModePredicts
<1>1. NoLostReplies /\ TruthfulFaults /\ Init => CInv
  BY TurnsInit DEF Init, CInv, Named, Foretold
<1>2. CInv /\ OnePage /\ [Next]_vars => CInv'
  <2> SUFFICES ASSUME CInv, OnePage, [Next]_vars PROVE CInv'
    OBVIOUS
  <2>1. TInv' /\ NoLostReplies' /\ TruthfulFaults'
    BY TurnsInv DEF CInv, NoLostReplies, TruthfulFaults
  <2>2. CASE Next
    BY <2>1, <2>2, CheckedStep, NamedStep DEF Next, CInv, TInv
  <2>3. CASE UNCHANGED vars
    <3>1. Named'
      BY <2>3 DEF vars, task, CInv, Named, Unnamed
    <3>2. ASSUME NEW t \in Tasks, NEW u \in Tasks PROVE Foretold(t, u)'
      <4>1. /\ vpcs' = vpcs /\ params' = params /\ pc' = pc
            /\ found' = found /\ result' = result
        BY <2>3 DEF vars, task
      <4>2. Outlook(params[u])' = Outlook(params[u])
        BY <4>1, SameAccount
      <4>3. Repeats(t, u)' = Repeats(t, u) /\ Running(t)' = Running(t) /\ Alive(found[t])' = Alive(found[t])
        BY <4>1 DEF Repeats, Running, Alive
      <4>4. Foretold(t, u)
        BY DEF CInv
      <4> QED
        BY <4>1, <4>2, <4>3, <4>4 DEF Foretold
    <3> QED
      BY <2>1, <3>1, <3>2 DEF CInv
  <2> QED
    BY <2>2, <2>3
<1>3. CInv => CheckModePredicts
  <2> SUFFICES ASSUME CInv, NEW t \in Tasks, NEW u \in Tasks, Repeats(t, u), params[u].check,
                      result[u] # "sdkError"
               PROVE  result[t] \in {"none", "sdkError", result[u]}
    BY DEF CheckModePredicts
  <2>1. Foretold(t, u) /\ Planned(t) /\ Planned(u) /\ Turns
    BY DEF CInv, TInv, IInv
  <2>2. CASE result[u] = "none"
    BY <2>1, <2>2 DEF Planned, Turns, Repeats
  <2>3. CASE result[u] # "none"
    BY <2>1, <2>3 DEF Foretold, Planned
  <2> QED
    BY <2>2, <2>3
<1> QED
  BY <1>1, <1>2, <1>3, PTL DEF Spec

-----------------------------------------------------------------------------
(***************************************************************************)
(* Once a task with state=present has reported, its reference leads to one *)
(* VPC, that VPC is as asked, and so the repetition has nothing to do.     *)
(***************************************************************************)

\* VPC i is as p asks, and p refers to no other.
Settled(p, i) ==
  /\ Alive(i) /\ ~AttrsDiffer(p, vpcs[i]) /\ p.tags = vpcs[i].tags
  /\ IF p.id = None THEN \A j \in Ids : Alive(j) /\ vpcs[j].name = p.name => j = i
                    ELSE i = p.id

SettledSuffices ==
  \A p \in Param, i \in Ids :
    p.state = "present" /\ p.name \in Names /\ Settled(p, i) => Outlook(p) = "unchanged"

LEMMA SettledOutlook == SettledSuffices
<1> SUFFICES ASSUME NEW p \in Param, NEW i \in Ids, p.state = "present", p.name \in Names, Settled(p, i)
             PROVE  Outlook(p) = "unchanged"
  BY DEF SettledSuffices
<1> DEFINE rows == Matching(p.id, p.name)
<1>1. vpcs[i].name = p.name /\ p.name # None /\ <<p.name, p.name>> \in Substring
  BY VpcAssumption DEF Settled, AttrsDiffer
<1>2. i \in rows
  BY <1>1 DEF Settled, Matching
<1>3. rows \subseteq Ids /\ \A j \in rows : Alive(j) /\ (p.id # None => j = p.id)
  BY DEF Matching
<1> HIDE DEF rows
<1>4. Candidates(p.id, p.name, rows) = {i}
  <2>1. CASE p.id = None
    <3>1. {j \in rows : vpcs[j].name = p.name} = {i}
      BY <1>1, <1>2, <1>3, <2>1 DEF Settled
    <3> QED
      BY <2>1, <3>1 DEF Candidates
  <2>2. CASE p.id # None
    BY <1>2, <2>2 DEF Settled, Candidates
  <2> QED
    BY <2>1, <2>2
<1>5. Hits(p) = {i}
  BY <1>4 DEF Hits, rows
<1>6. Cardinality({i}) = 1
  BY FS_Singleton
<1> QED
  BY <1>5, <1>6 DEF Outlook, Unnamed, Settled

LEMMA SettledNext == SettledSuffices'
  BY SettledOutlook, PTL

\* While a task works on its VPC no other VPC answers to its reference.
Sole(t) ==
  LET p == params[t]
  IN  /\ pc[t] \in {"modify", "tags", "refind"} =>
           IF p.id = None THEN \A j \in Ids : Alive(j) /\ vpcs[j].name = p.name => j = found[t]
                          ELSE found[t] = p.id
      /\ pc[t] = "create" /\ p.id = None => \A j \in Ids : Alive(j) => vpcs[j].name # p.name

\* The lookup of a task that goes on to write.
LEMMA FindSole ==
  ASSUME IInv, OnePage, NEW t \in Tasks, Find(t)
  PROVE  Sole(t)'
<1>0. TypeOK /\ IInv' /\ UNCHANGED <<params, vpcs>>
  BY FindInv, FindIs DEF IInv
<1> DEFINE p == params[t]
           rows == Matching(p.id, p.name)
<1> SUFFICES ASSUME pc'[t] \in {"create", "modify", "tags", "refind"} PROVE Sole(t)'
  BY DEF Sole
<1>1. Answered(t, Candidates(p.id, p.name, rows))
  BY FindIs DEF OnePage, Pages
<1>2. p.state = "present" /\ p.name # None
  BY <1>0, ParamsTyped, VpcAssumption DEF IInv, Planned
<1>3. \A j \in Ids : p.id = None /\ Alive(j) /\ vpcs[j].name = p.name => j \in rows
  <2>1. \A n \in Names : <<n, n>> \in Substring
    BY VpcAssumption
  <2> QED
    BY <1>0, <1>2, <2>1 DEF Matching, TypeOK, Alive, Vpc
<1> HIDE DEF rows
<1> DEFINE hits == Candidates(p.id, p.name, rows)
<1>4. \A j \in Ids : p.id = None /\ Alive(j) /\ vpcs[j].name = p.name => j \in hits
  BY <1>3 DEF Candidates
<1>5. p.id # None => hits \subseteq {p.id}
  BY DEF Candidates
<1> HIDE DEF hits
<1>6. Answered(t, hits)
  BY <1>1 DEF hits
<1>7. CASE hits = {}
  <2>1. PlanCreate(t) /\ pc'[t] = "create"
    BY <1>0, <1>2, <1>6, <1>7, PlanCreateMoves DEF Answered
  <2> QED
    BY <1>0, <1>4, <1>7, <2>1 DEF Sole, Alive
<1>8. CASE hits # {}
  <2>1. PICK i \in Ids : hits = {i} /\ found'[t] = i /\ PlanUpdate(t, vpcs[i])
    BY <1>2, <1>6, <1>8 DEF Answered
  <2>2. pc'[t] # "create"
    BY <1>0, <2>1, PlanUpdateIs
  <2> QED
    BY <1>0, <1>4, <1>5, <2>1, <2>2 DEF Sole, Alive
<1> QED
  BY <1>7, <1>8

LEMMA SoleStep ==
  ASSUME NoLostReplies, TInv, OnePage, NEW t \in Tasks, Alone(t), Sole(t), NEW u \in Tasks, Step(u)
  PROVE  Sole(t)'
<1>0. /\ IInv /\ TypeOK /\ Turns /\ Holds(t) /\ Planned(t) /\ params' = params
      /\ pc[u] # "done" /\ \A x \in Tasks \ {u} : Still(x)
  BY OthersStill DEF TInv, IInv
<1>1. CASE u # t
  <2>1. ~Running(t) /\ pc'[t] = pc[t]
    BY <1>0, <1>1, Exclusive DEF Still
  <2> QED
    BY <2>1 DEF Running, Sole
<1>2. CASE u = t /\ Start(t)
  <2>1. pc'[t] \in {"find", "done"}
    BY <1>0, <1>2, FinishMoves, GotoMoves DEF Start, Results, PCs
  <2> QED
    BY <2>1 DEF Sole
<1>3. CASE u = t /\ Find(t)
  BY <1>0, <1>3, FindSole
<1>4. CASE u = t /\ (Create(t) \/ Delete(t))
  <2>1. pc'[t] \in {pc[t], "done"} /\ pc[t] \in {"create", "delete"}
    BY <1>0, <1>4, FinishMoves, RaiseMoves DEF Create, Delete, Stalls, Fails, Results
  <2>2. pc'[t] = "create" => Untouched
    BY <1>0, <1>4, <2>1, FinishMoves DEF Create, Delete, Fails, NoLostReplies, Results
  <2> QED
    BY <1>0, <2>1, <2>2 DEF Sole, Untouched, Alive
<1>5. CASE u = t /\ (Modify(t) \/ AttachTag(t) \/ DetachTag(t))
  <2>1. /\ pc[t] \in {"modify", "tags"} /\ pc'[t] \in {"modify", "tags", "refind", "done"}
        /\ found' = found
    BY <1>0, <1>5, GotoMoves, RaiseMoves DEF Modify, AttachTag, DetachTag, Stalls, Fails, PCs
  <2>2. \A j \in Ids : j # found[t] => vpcs'[j] = vpcs[j]
    BY <1>0, <1>5, <2>1, StepPuts DEF Puts, Store, Untouched, TypeOK
  <2> QED
    BY <1>0, <2>1, <2>2 DEF Sole, Alive
<1>6. CASE u = t /\ Refind(t)
  <2>1. pc'[t] \in {"refind", "done"} /\ pc[t] = "refind"
    BY <1>0, <1>6, FinishMoves, RaiseMoves DEF Refind, Results
  <2> QED
    BY <1>0, <1>6, <2>1 DEF Refind, Sole, Alive
<1> QED
  BY <1>1, <1>2, <1>3, <1>4, <1>5, <1>6 DEF Step

\* The report of the first run: from now on there is nothing to do.
LEMMA ReportSettles ==
  ASSUME NoLostReplies, TInv, OnePage, Named, NEW t \in Tasks, Alone(t), Sole(t), Step(t),
         params[t].state = "present", ~params[t].check, result'[t] \in Reported,
         params[t].id = None \/ found'[t] # None
  PROVE  (Outlook(params[t]) = "unchanged")'
<1>0. /\ IInv /\ IInv' /\ TypeOK /\ Planned(t) /\ Holds(t) /\ params' = params
      /\ pc[t] # "done" /\ result[t] = "none"
  BY OthersStill, StepInv DEF TInv, IInv, Planned, Next
<1>1. params[t] \in Param /\ params[t].name \in Names
  BY <1>0, ParamsTyped
<1>2. ASSUME NEW i \in Ids, Settled(params[t], i)'
      PROVE  (Outlook(params[t]) = "unchanged")'
  BY <1>0, <1>1, <1>2, SettledNext DEF SettledSuffices
<1>3. CASE Start(t)
  BY <1>0, <1>3, FinishMoves, GotoMoves DEF Start, Results, PCs, Reported
<1>4. CASE Find(t)
  <2>1. pc'[t] = "done" /\ vpcs' = vpcs
    BY <1>0, <1>4, FindIs DEF IInv, Planned, Reported
  <2>2. result'[t] = Outlook(params[t])
    BY <1>0, <1>4, <2>1, FindOutlook DEF Reported
  <2>3. PICK hits : Answered(t, hits)
    BY <1>0, <1>4, <2>1, FindIs DEF Reported
  <2>4. result'[t] # "changed"
    <3>1. ASSUME PlanCreate(t) PROVE result'[t] # "changed"
      BY <1>0, <2>1, <3>1, PlanCreateIs
    <3>2. ASSUME NEW v, PlanUpdate(t, v) PROVE result'[t] # "changed"
      BY <1>0, <2>1, <3>2, PlanUpdateIs
    <3> QED
      BY <2>3, <3>1, <3>2 DEF Answered
  <2> QED
    BY <1>0, <2>1, <2>2, <2>4, SameAccount DEF Reported
<1>5. CASE Create(t)
  <2> DEFINE v == NewVpc(params[t])
  <2>1. ~\E f \in Faults : Raise(t, f[1])
    BY <1>0, <1>5, RaiseMoves DEF Create, Reported
  <2>2. PICK i \in Ids : vpcs[i] = Unborn /\ Store(t, i, v)
    BY <1>5, <2>1 DEF Create, NewVpc, Fails
  <2>3. v \in Vpc
    BY <1>0, <1>5, <2>2, PutsTyped DEF Puts, Create
  <2>4. vpcs'[i] = v /\ v \notin {Unborn, Gone} /\ \A j \in Ids \ {i} : vpcs'[j] = vpcs[j]
    BY <1>0, <2>2, <2>3, VpcAssumption DEF Store, TypeOK
  <2>5. v.tags = params[t].tags /\ ~AttrsDiffer(params[t], v)
    BY DEF NewVpc, AttrsDiffer, Or
  <2>6. params[t].id = None
    BY <1>0, <1>5 DEF Create, Planned
  <2>7. \A j \in Ids : Alive(j) => vpcs[j].name # params[t].name
    BY <1>5, <2>6 DEF Sole, Create
  <2> HIDE DEF v
  <2>8. Settled(params[t], i)'
    BY <1>0, <2>4, <2>5, <2>6, <2>7 DEF Settled, Alive, AttrsDiffer
  <2> QED
    BY <1>2, <2>8
<1>6. CASE Delete(t)
  BY <1>0, <1>6 DEF Delete, Planned
<1>7. CASE Modify(t) \/ AttachTag(t) \/ DetachTag(t)
  BY <1>0, <1>7, GotoMoves, RaiseMoves DEF Modify, AttachTag, DetachTag, Stalls, Fails, Reported, PCs
<1>8. CASE Refind(t)
  <2> DEFINE v == vpcs[found[t]]
  <2>1. UNCHANGED <<vpcs, found>> /\ pc[t] = "refind" /\ found[t] \in Ids
    BY <1>0, <1>8 DEF Refind, Planned
  <2>2. Alive(found[t]) /\ ~AttrsDiffer(params[t], v) /\ \A k \in TagKeys : v.tags[k] = params[t].tags[k]
    BY <1>0, <2>1 DEF Holds
  <2>3. v.tags = params[t].tags
    <3>1. v \in Vpc
      BY <1>0, <2>1, <2>2 DEF TypeOK, Alive
    <3>2. v.tags \in [TagKeys -> TagVals \cup {None}] /\ params[t].tags \in [TagKeys -> TagVals \cup {None}]
      BY <1>1, <3>1 DEF Vpc, Param, Tags
    <3> HIDE DEF v
    <3> QED
      BY <2>2, <3>2
  <2>4. Settled(params[t], found[t])
    BY <2>1, <2>2, <2>3 DEF Settled, Sole
  <2>5. Settled(params[t], found[t])'
    BY <1>0, <2>1, <2>4 DEF Settled, Alive, AttrsDiffer
  <2> QED
    BY <1>2, <2>1, <2>5
<1> QED
  BY <1>0, <1>3, <1>4, <1>5, <1>6, <1>7, <1>8 DEF Step

\* The repetition of a run with state=present that has reported.
Repeated(t, u) ==
  /\ Repeats(t, u) /\ ~params[u].check /\ params[t].state = "present"
  /\ params[u].id = None \/ found[u] # None
  /\ result[u] \in Reported
  => /\ pc[t] \in {"start", "find", "done"}
     /\ pc[t] \in {"start", "find"} => Outlook(params[u]) = "unchanged"
     /\ wrote[t] = {} /\ result[t] \in {"none", "unchanged", "sdkError"}

LInv == /\ NoLostReplies /\ TInv /\ Named
        /\ \A t \in Tasks : Alone(t) => Sole(t)
        /\ \A t, u \in Tasks : Repeated(t, u)

LEMMA RepeatedStep ==
  ASSUME LInv, OnePage, NEW w \in Tasks, Step(w), NEW t \in Tasks, NEW u \in Tasks
  PROVE  Repeated(t, u)'
<1>0. /\ IInv /\ IInv' /\ TypeOK /\ Turns /\ Named /\ Planned(t) /\ Planned(u) /\ Planned(u)'
      /\ TInv /\ NoLostReplies
      /\ params' = params /\ pc[w] # "done" /\ \A x \in Tasks \ {w} : Still(x)
  BY OthersStill, StepInv DEF LInv, TInv, IInv, Next
<1> SUFFICES ASSUME Repeats(t, u), ~params[u].check, params[t].state = "present",
                    params[u].id = None \/ found'[u] # None, result'[u] \in Reported
             PROVE  /\ pc'[t] \in {"start", "find", "done"}
                    /\ pc'[t] \in {"start", "find"} => (Outlook(params[u]) = "unchanged")'
                    /\ wrote'[t] = {} /\ result'[t] \in {"none", "unchanged", "sdkError"}
  BY <1>0 DEF Repeated, Repeats
<1>1. pc'[u] = "done" /\ params[u].state = "present"
  BY <1>0, RepeatsSame DEF Planned, Reported
<1>2. CASE pc[u] # "done"
  <2>1. w = u
    BY <1>0, <1>1, <1>2 DEF Still
  <2>2. pc[t] = "start" /\ t # u
    BY <1>0, <1>2, <2>1, StartsInTurn DEF Turns, Repeats, Planned
  <2>3. Alone(u) /\ Sole(u)
    BY DEF LInv, Alone, Repeats
  <2>4. (Outlook(params[u]) = "unchanged")'
    BY <1>0, <1>1, <2>1, <2>3, ReportSettles
  <2> QED
    BY <1>0, <2>1, <2>2, <2>4 DEF Still, Planned
<1>3. CASE pc[u] = "done"
  <2>1. w # u /\ result'[u] = result[u] /\ found'[u] = found[u]
    BY <1>0, <1>3 DEF Still
  <2>2. /\ pc[t] \in {"start", "find", "done"}
        /\ pc[t] \in {"start", "find"} => Outlook(params[u]) = "unchanged"
        /\ wrote[t] = {} /\ result[t] \in {"none", "unchanged", "sdkError"}
    BY <2>1 DEF LInv, Repeated
  <2>3. CASE pc[t] = "done"
    BY <1>0, <2>2, <2>3 DEF Still
  <2>4. CASE pc[t] # "done"
    <3>1. w = t /\ Outlook(params[t]) = "unchanged" /\ result[t] = "none"
      BY <1>0, <1>3, <2>1, <2>2, <2>4, PairTurn, SameOutlook DEF Planned
    <3>2. CASE Start(t)
      <4>1. UNCHANGED <<vpcs, wrote>>
        BY <3>2 DEF Start
      <4>2. pc'[t] = "find" /\ result'[t] = "none"
        BY <1>0, <3>1, <3>2, FinishMoves, GotoMoves DEF Start, Results, PCs
      <4> QED
        BY <1>0, <2>2, <3>1, <4>1, <4>2, SameAccount, SameOutlook
    <3>3. CASE Find(t)
      <4>1. UNCHANGED <<vpcs, wrote>>
        BY <1>0, <3>3, FindIs
      <4>2. pc'[t] # "done" => result'[t] = "none"
        BY <1>0 DEF IInv, Planned
      <4>3. \/ pc'[t] = "find"
            \/ pc'[t] = "done" /\ result'[t] \in {"sdkError", "unchanged"}
        BY <1>0, <3>1, <3>3, FindOutlook
      <4> QED
        BY <1>0, <2>2, <3>1, <4>1, <4>2, <4>3, SameAccount, SameOutlook
    <3> QED
      BY <1>0, <2>2, <2>4, <3>1, <3>2, <3>3
         DEF Step, Create, Delete, Modify, AttachTag, DetachTag, Refind
  <2> QED
    BY <2>3, <2>4
<1> QED
  BY <1>2, <1>3

\* When no reply is lost and the matches of a name fit on the page that is read:
\* whatever the account holds, a run with state=present that succeeded leaves nothing
\* to do to the same run after it, which writes nothing and reports changed=false.
THEOREM SecondRunUnchangedAlways ==
  NoLostReplies /\ Spec /\ []OnePage => []SecondRunUnchanged
<1>1. NoLostReplies /\ Init => LInv
  BY TurnsInit DEF Init, LInv, Named, Sole, Repeated, Reported
<1>2. LInv /\ OnePage /\ [Next]_vars => LInv'
  <2> SUFFICES ASSUME LInv, OnePage, [Next]_vars PROVE LInv'
    OBVIOUS
  <2>1. TInv' /\ NoLostReplies'
    BY TurnsInv DEF LInv, NoLostReplies
  <2>2. ASSUME NEW w \in Tasks, Step(w) PROVE LInv'
    <3>1. IInv /\ Named /\ Turns /\ params' = params
      BY <2>2, OthersStill DEF LInv, TInv, IInv
    <3>2. Named'
      BY <2>2, <3>1, NamedStep
    <3>3. ASSUME NEW t \in Tasks, Alone(t)' PROVE Sole(t)'
      <4>1. Alone(t)
        BY <3>1, <3>3 DEF Alone
      <4> QED
        BY <2>2, <4>1, SoleStep DEF LInv
    <3>4. \A t, u \in Tasks : Repeated(t, u)'
      BY <2>2, RepeatedStep
    <3> QED
      BY <2>1, <3>2, <3>3, <3>4 DEF LInv
  <2>3. CASE UNCHANGED vars
    <3>1. Named'
      BY <2>3 DEF vars, task, LInv, Named, Unnamed
    <3>2. ASSUME NEW t \in Tasks, Alone(t)' PROVE Sole(t)'
      BY <2>3, <3>2 DEF vars, task, LInv, Sole, Alone, Alive
    <3>3. ASSUME NEW t \in Tasks, NEW u \in Tasks PROVE Repeated(t, u)'
      <4>1. /\ vpcs' = vpcs /\ params' = params /\ pc' = pc
            /\ found' = found /\ wrote' = wrote /\ result' = result
        BY <2>3 DEF vars, task
      <4>2. Outlook(params[u])' = Outlook(params[u])
        BY <4>1, SameAccount
      <4>3. Repeats(t, u)' = Repeats(t, u)
        BY <4>1 DEF Repeats
      <4>4. Repeated(t, u)
        BY DEF LInv
      <4> QED
        BY <4>1, <4>2, <4>3, <4>4 DEF Repeated
    <3> QED
      BY <2>1, <3>1, <3>2, <3>3 DEF LInv
  <2> QED
    BY <2>2, <2>3 DEF Next
<1>3. LInv => SecondRunUnchanged
  BY DEF LInv, Repeated, SecondRunUnchanged
<1> QED
  BY <1>1, <1>2, <1>3, PTL DEF Spec

=============================================================================
