----------------------------- MODULE CvmInstance -----------------------------
(***************************************************************************)
(* The cvm_instance module (plugins/modules/cvm_instance.py) as run by the *)
(* tasks of one or more plays: a pool of instances brought to exact_count, *)
(* and single instances created, updated, started, stopped, rebooted and   *)
(* terminated, with the waits for the asynchronous part.                   *)
(*                                                                         *)
(* One step of a task is one attempt of one API call.  The cloud is        *)
(* external: inst is the account, Settle its own progress.  A task's tags  *)
(* contain the count_tag of its pool, as the module's examples have it;    *)
(* the field "tags" is what else they hold, and never None: a task that    *)
(* names no tags has the default {}, and removes those there are.  Of the  *)
(* names, none is a substring of another (VpcModule treats fuzzy matches). *)
(*                                                                         *)
(* Init, Next, Spec, vars and Ended carry Cvm or As in their names so that *)
(* one module can extend this one and TatConnection.                       *)
(***************************************************************************)
EXTENDS Integers, Sequences, FiniteSets, SequencesExt

CONSTANTS
  Tasks,        \* task executions
  MaxId,        \* instances the account can ever hold; ids are given in order
  Names,        \* instance names
  Vals,         \* values of a field that can be changed
  Limit,        \* rows of a DescribeInstances page (the request asks for 100)
  Retries,      \* the module parameter "retries"
  Faults,       \* [done, retry]: done: after the work; retry: retry_on retries
  Scenarios,    \* runs: what the tasks are asked for, and the account they find
  EagerReboot,  \* RebootInstances shows REBOOTING from the start
  None          \* an omitted parameter, no instance

Ids    == 1 .. MaxId
Fields == {"image", "attributes", "tags", "type", "password"}
States == {"UNBORN", "PENDING", "LAUNCH_FAILED", "RUNNING", "STARTING", "STOPPING",
           "STOPPED", "REBOOTING", "TERMINATING", "TERMINATED", "GONE"}
Inst   == [state : States, name : Names \cup {None}, pool : BOOLEAN, prepaid : BOOLEAN,
           batch : Nat, conf : [Fields -> Vals], asked : BOOLEAN,
           killer : Tasks \cup {None}]
Param  == [kind : {"pool", "present", "running", "stopped", "rebooted", "absent"},
           check : BOOLEAN, id : Ids \cup {None}, name : Names \cup {None},
           count : Nat, zones : Nat, want : [Fields -> Vals \cup {None}],
           dry : BOOLEAN, after : SUBSET Tasks]

ASSUME CvmAssumption ==
  /\ MaxId \in Nat /\ Limit \in Nat \ {0} /\ Retries \in Int
  /\ Faults \subseteq [done : BOOLEAN, retry : BOOLEAN]
  /\ None \notin Ids /\ None \notin Names /\ None \notin Vals /\ None \notin Tasks
  /\ Scenarios \subseteq [asks : [Tasks -> Param], account : [Ids -> Inst]]
  /\ \A s \in Scenarios, t \in Tasks :
       /\ s.asks[t].kind # "pool" => (s.asks[t].id = None) # (s.asks[t].name = None)
       /\ s.asks[t].want["tags"] # None
  /\ EagerReboot \in BOOLEAN

VARIABLES
  params,   \* the parameters of every task
  inst,     \* the account
  task,     \* what each task knows and where it is
  start     \* the members of the pool when the run began (history)

cvmVars == <<params, inst, task, start>>

Begun == [pc |-> "start", tries |-> 0, offset |-> 0, seen |-> <<>>, batches |-> <<>>,
          doomed |-> <<>>, todo |-> <<>>, goal |-> "", target |-> None, snap |-> "",
          writes |-> <<>>, result |-> "none", lost |-> FALSE, clean |-> TRUE]

Listed(i) == inst[i].state \notin {"UNBORN", "GONE"}
Pool      == {i \in Ids : Listed(i) /\ inst[i].pool /\ inst[i].state # "TERMINATED"}
Serving   == {i \in Pool : inst[i].state # "TERMINATING"}

CvmInit ==
  /\ \E s \in Scenarios : params = s.asks /\ inst = s.account
  /\ task = [t \in Tasks |-> Begun]
  /\ start = Serving

-----------------------------------------------------------------------------
(* The cloud.                                                              *)

Becomes(i, state) == inst' = [inst EXCEPT ![i].state = state, ![i].asked = FALSE]

\* What the cloud has accepted makes progress; a launch may fail.
Settle(i) ==
  /\ \/ inst[i].state = "PENDING" /\ \E s \in {"RUNNING", "LAUNCH_FAILED"} : Becomes(i, s)
     \/ inst[i].state \in {"STARTING", "REBOOTING"} /\ Becomes(i, "RUNNING")
     \/ inst[i].state = "STOPPING" /\ Becomes(i, "STOPPED")
     \/ inst[i].state = "RUNNING" /\ inst[i].asked /\ Becomes(i, "REBOOTING")
     \/ inst[i].state = "TERMINATING" /\ Becomes(i, "TERMINATED")
     \/ inst[i].state = "TERMINATED" /\ Becomes(i, "GONE")
  /\ UNCHANGED <<params, task, start>>

Unborn    == {i \in Ids : inst[i].state = "UNBORN"}
NewIds(n) == {i \in Unborn : Cardinality({j \in Unborn : j < i}) < n}

InOrder(S) == SelectSeq([i \in Ids |-> i], LAMBDA i : i \in S)

\* RunInstances: n instances of one batch (CreatedTime).
Launched(n, p) ==
  [i \in Ids |->
     IF i \notin NewIds(n) THEN inst[i]
     ELSE [inst[i] EXCEPT !.state = "PENDING", !.name = p.name, !.pool = p.kind = "pool",
                          !.batch = CHOOSE m \in NewIds(n) : \A j \in NewIds(n) : m <= j,
                          !.conf = [f \in Fields |-> IF p.want[f] = None THEN @[f] ELSE p.want[f]]]]

\* The states in which Start-, Stop- and RebootInstances are accepted, and what
\* the instance shows afterwards.
Verb(kind) ==
  CASE kind = "running"  -> [from |-> "STOPPED", to |-> "STARTING", goal |-> "RUNNING"]
    [] kind = "stopped"  -> [from |-> "RUNNING", to |-> "STOPPING", goal |-> "STOPPED"]
    [] kind = "rebooted" -> [from |-> "RUNNING", goal |-> "RUNNING",
                             to |-> IF EagerReboot THEN "REBOOTING" ELSE "RUNNING"]

-----------------------------------------------------------------------------
(* One attempt of a call (sdk_call), and the ends of a task.               *)

Set(t, k)          == task' = [task EXCEPT ![t] = k]
EndedAs(t, result) == [task[t] EXCEPT !.pc = "done", !.result = result]
At(t, pc)          == [task[t] EXCEPT !.pc = pc, !.tries = 0]

\* Mutant: a call that failed counts as done.
RaiseForgiven(t, f) ==
  IF f.retry /\ task[t].tries < Retries
  THEN [task[t] EXCEPT !.tries = @ + 1, !.lost = @ \/ f.done]
  ELSE [EndedAs(t, "changed") EXCEPT !.lost = @ \/ f.done]

Raise(t, f) ==
  IF f.retry /\ task[t].tries < Retries
  THEN [task[t] EXCEPT !.tries = @ + 1, !.lost = @ \/ f.done]
  ELSE [EndedAs(t, "failed") EXCEPT !.lost = @ \/ f.done]

\* The call is accepted and the task goes on as k, or it is refused, or it
\* meets a fault before or after the work.
Call(t, accepted, effect, k) ==
  /\ \/ accepted /\ inst' = effect /\ Set(t, k)
     \/ ~accepted /\ inst' = inst /\ Set(t, EndedAs(t, "failed"))
     \/ \E f \in Faults :
          /\ inst' = IF accepted /\ f.done THEN effect ELSE inst
          /\ Set(t, Raise(t, f))
  /\ UNCHANGED <<params, start>>

Read(t, k) == Call(t, TRUE, inst, k)

-----------------------------------------------------------------------------
(* exact_count.                                                            *)

\* The API lists the newest first.
NewestFirst(S) ==
  [n \in 1 .. Cardinality(S) |-> CHOOSE i \in S : Cardinality({j \in S : j >= i}) = n]

Listing == NewestFirst({i \in Ids : Listed(i) /\ inst[i].pool})

\* _spread_counts.
SpreadCounts(total, zones) ==
  [z \in 1 .. zones |-> total \div zones + IF z <= total % zones THEN 1 ELSE 0]

\* The zones that get none come last, and are skipped.
NonZero(counts) == SubSeq(counts, 1, Cardinality({z \in DOMAIN counts : counts[z] > 0}))

\* Mutant: the newest go first.
ByListing(s) == s

\* sorted() by CreatedTime, which leaves instances of one batch as listed.
ByAge(s) ==
  LET upTo(n) == {m \in DOMAIN s : \/ inst[s[m]].batch < inst[s[n]].batch
                                   \/ inst[s[m]].batch = inst[s[n]].batch /\ m <= n}
  IN  [k \in DOMAIN s |-> s[CHOOSE n \in DOMAIN s : Cardinality(upTo(n)) = k]]

Decide(t, k) ==
  LET p      == params[t]
      short  == p.count - Len(k.seen)
      doomed == IF short < 0 THEN SubSeq(ByAge(k.seen), 1, -short) ELSE <<>>
      counts == IF p.zones = 0 THEN <<short>> ELSE SpreadCounts(short, p.zones)
  IN  IF short = 0 THEN [k EXCEPT !.pc = "done", !.result = "unchanged"]
      ELSE IF \E i \in ToSet(doomed) : inst[i].prepaid THEN [k EXCEPT !.pc = "done", !.result = "failed"]
      ELSE IF p.check THEN [k EXCEPT !.pc = "done", !.result = "changed"]
      ELSE IF short < 0 THEN [k EXCEPT !.pc = "terminate", !.doomed = doomed]
      ELSE [k EXCEPT !.pc = "run", !.batches = NonZero(counts)]

\* The rows of one page, TERMINATED ones included.
PageAt(offset) ==
  LET rest == Len(Listing) - offset
  IN  IF rest <= 0 THEN <<>>
      ELSE SubSeq(Listing, offset + 1, offset + (IF rest < Limit THEN rest ELSE Limit))

\* One page of find_instances_by_tags; after the last one the task decides, or
\* reports the pool it has left.
Page(t) ==
  LET k     == task[t]
      total == Len(Listing)
      rows  == PageAt(k.offset)
      now   == [k EXCEPT !.tries = 0, !.offset = @ + Len(rows),
                         !.seen = @ \o NewestFirst(ToSet(rows) \cap Pool)]
      last  == rows = <<>> \/ now.offset >= total \/ Len(now.seen) >= total
  IN  /\ k.pc \in {"count", "recount"}
      /\ Read(t, IF ~last THEN now
                 ELSE IF k.pc = "count" THEN Decide(t, now)
                 ELSE [now EXCEPT !.pc = "done", !.result = "changed"])

\* One RunInstances, of as many instances as a zone gets.
RunBatch(t) ==
  LET n == Head(task[t].batches)
  IN  /\ task[t].pc = "run"
      /\ Call(t, Cardinality(Unborn) >= n, Launched(n, params[t]),
              [At(t, "await") EXCEPT !.batches = Tail(@), !.goal = "RUNNING",
                                     !.todo = InOrder(NewIds(n))])

Killed(i, t) == [inst EXCEPT ![i].state = "TERMINATING", ![i].killer = t]
Killable(i)  == inst[i].state \notin {"TERMINATING", "TERMINATED", "GONE"}

\* Mutant: the oldest is looked up again before each termination.
TerminateAgain(t) ==
  LET i == CHOOSE i \in Serving : \A j \in Serving : inst[i].batch <= inst[j].batch
  IN  /\ task[t].pc = "terminate" /\ Serving # {}
      /\ Call(t, Killable(i), Killed(i, t),
              [At(t, "await") EXCEPT !.doomed = Tail(@), !.goal = "GONE", !.todo = <<i>>])

\* One TerminateInstances, of the oldest that the list had.
TerminateOldest(t) ==
  LET i == Head(task[t].doomed)
  IN  /\ task[t].pc = "terminate"
      /\ Call(t, Killable(i), Killed(i, t),
              [At(t, "await") EXCEPT !.doomed = Tail(@), !.goal = "GONE", !.todo = <<i>>])

-----------------------------------------------------------------------------
(* The waits, for all kinds of task.                                       *)

Waited(t) ==
  LET k == [task[t] EXCEPT !.todo = Tail(@), !.tries = 0]
  IN  IF k.todo # <<>> THEN k
      ELSE IF params[t].kind = "pool"
           THEN [k EXCEPT !.pc = IF k.batches # <<>> THEN "run"
                                 ELSE IF k.doomed # <<>> THEN "terminate" ELSE "recount",
                          !.offset = 0, !.seen = <<>>]
      ELSE IF params[t].kind = "absent" THEN [k EXCEPT !.pc = "done", !.result = "changed"]
      ELSE [k EXCEPT !.pc = "refind"]

\* _wait_state and _wait_gone: the instance is where it should be; it is gone,
\* which fails a wait for a state; or it is looked at again later.
Poll(t) ==
  LET i == Head(task[t].todo)
      goal == task[t].goal
  IN  /\ task[t].pc = "await"
      /\ \/ inst[i].state = goal /\ Read(t, Waited(t))
         \/ inst[i].state = "GONE" /\ goal # "GONE" /\ Read(t, EndedAs(t, "failed"))
         \/ inst[i].state \notin {goal, "GONE"} /\ Read(t, [task[t] EXCEPT !.tries = 0])

\* waiter_timeout is up; what the last poll saw may be old by now.
TimeOut(t) ==
  /\ task[t].pc = "await"
  /\ Set(t, EndedAs(t, "failed"))
  /\ UNCHANGED <<params, inst, start>>

-----------------------------------------------------------------------------
(* A single instance.                                                      *)

Drifts(p, i) ==
  LET due(f) == IF p.want[f] # None /\ (f = "password" \/ p.want[f] # inst[i].conf[f])
                THEN <<f>> ELSE <<>>
  IN  due("attributes") \o due("tags") \o due("type") \o due("password")

\* state=present.
PlanPresent(t, i) ==
  LET p == params[t]
      k == [At(t, "write") EXCEPT !.target = i, !.snap = inst[i].state, !.writes = Drifts(p, i)]
  IN  IF i = None
      THEN IF None \in {p.want["image"], p.want["type"]} THEN EndedAs(t, "failed")
           ELSE IF p.check THEN EndedAs(t, "changed") ELSE At(t, "create")
      ELSE IF \/ p.want["image"] \notin {None, inst[i].conf["image"]}
              \/ "type" \in ToSet(k.writes) /\ k.snap # "STOPPED"
           THEN EndedAs(t, "failed")
      ELSE IF k.writes = <<>> THEN EndedAs(t, "unchanged")
      ELSE IF p.check THEN EndedAs(t, "changed") ELSE k

\* state=running, stopped, rebooted: from one settled state only.
PlanPower(t, i) ==
  LET p == params[t]
      v == Verb(p.kind)
  IN  IF i = None THEN EndedAs(t, "failed")
      ELSE IF inst[i].state = v.goal /\ p.kind # "rebooted" THEN EndedAs(t, "unchanged")
      ELSE IF inst[i].state # v.from THEN EndedAs(t, "failed")
      ELSE IF p.check THEN EndedAs(t, "changed")
      ELSE [At(t, "power") EXCEPT !.target = i]

PlanAbsent(t, i) ==
  IF i = None THEN EndedAs(t, "unchanged")
  ELSE IF params[t].check THEN EndedAs(t, "changed")
  ELSE [At(t, "delete") EXCEPT !.target = i]

Plan(t, i) ==
  CASE params[t].kind = "present" -> PlanPresent(t, i)
    [] params[t].kind = "absent"  -> PlanAbsent(t, i)
    [] OTHER                      -> PlanPower(t, i)

\* find_instance for the reference; a name that two instances have fails.
Find(t) ==
  LET p    == params[t]
      rows == {i \in Ids : Listed(i) /\ (IF p.id # None THEN i = p.id ELSE inst[i].name = p.name)}
  IN  /\ task[t].pc = "find"
      /\ Read(t, IF Cardinality(rows) > 1 THEN EndedAs(t, "failed")
                 ELSE Plan(t, IF rows = {} THEN None ELSE CHOOSE i \in rows : TRUE))

\* RunInstances of one; a dry run creates nothing and is not waited for.
Create(t) ==
  LET i == CHOOSE i \in NewIds(1) : TRUE
  IN  /\ task[t].pc = "create"
      /\ IF params[t].dry
         THEN Read(t, EndedAs(t, "changed"))
         ELSE Call(t, NewIds(1) # {}, Launched(1, params[t]),
                   [At(t, "await") EXCEPT !.goal = "RUNNING", !.todo = <<i>>, !.target = i])

\* _start, _stop, _reboot.
Power(t) ==
  LET i == task[t].target
      v == Verb(params[t].kind)
  IN  /\ task[t].pc = "power"
      /\ Call(t, inst[i].state = v.from,
              [inst EXCEPT ![i].state = v.to, ![i].asked = v.to = v.from],
              [At(t, "await") EXCEPT !.goal = v.goal, !.todo = <<i>>])

\* TerminateInstances under delete_resource: "not found" goes straight to the
\* report, which is changed=true all the same.
Delete(t) ==
  LET i == task[t].target
  IN  /\ task[t].pc = "delete"
      /\ IF inst[i].state \in {"TERMINATED", "GONE"}
         THEN Read(t, EndedAs(t, "changed"))
         ELSE Call(t, Killable(i), Killed(i, t),
                   [At(t, "await") EXCEPT !.goal = "GONE", !.todo = <<i>>])

\* Mutant: what was just written is not waited for.
WrittenAtOnce(t, k) == [k EXCEPT !.pc = "done", !.result = "changed"]

\* After the last write: an instance found stopped is not waited for.
Written(t, k) ==
  IF k.writes # <<>> THEN k
  ELSE IF k.snap = "STOPPED" THEN [k EXCEPT !.pc = "refind"]
  ELSE [k EXCEPT !.pc = "await", !.goal = "RUNNING", !.todo = <<k.target>>]

\* The next of _update_attributes, _apply_tags, _reset_type, _reset_password.
Write(t) ==
  LET i == task[t].target
      f == Head(task[t].writes)
  IN  /\ task[t].pc = "write"
      /\ Call(t, Listed(i) /\ (f = "type" => inst[i].state = "STOPPED"),
              [inst EXCEPT ![i].conf[f] = params[t].want[f]],
              Written(t, [task[t] EXCEPT !.tries = 0, !.writes = Tail(@)]))

\* The describe for the report.
Refind(t) ==
  /\ task[t].pc = "refind"
  /\ Read(t, EndedAs(t, "changed"))

\* The play starts the task.
Start(t) ==
  /\ task[t].pc = "start"
  /\ \A u \in params[t].after : task[u].pc = "done"
  /\ Set(t, [At(t, IF params[t].kind = "pool" THEN "count" ELSE "find")
             EXCEPT !.clean = \A i \in Ids : inst[i].state \notin {"TERMINATING", "TERMINATED"}])
  /\ UNCHANGED <<params, inst, start>>

Step(t) ==
  \/ Start(t) \/ Page(t) \/ RunBatch(t) \/ TerminateOldest(t) \/ Poll(t) \/ TimeOut(t)
  \/ Find(t) \/ Create(t) \/ Power(t) \/ Delete(t) \/ Write(t) \/ Refind(t)

CvmNext == (\E t \in Tasks : Step(t)) \/ (\E i \in Ids : Settle(i))

CvmSpec == CvmInit /\ [][CvmNext]_cvmVars

-----------------------------------------------------------------------------
(* Properties.                                                             *)

\* The other tasks all ended before t began, or begin after it.
Alone(t) == \A u \in Tasks \ {t} : u \in params[t].after \/ t \in params[u].after

\* The step in which t reports success for real.
Reports(t, result) ==
  /\ task[t].pc # "done"
  /\ task'[t].result = result
  /\ ~params[t].check

\* exact_count: whatever failed, overshot or half-finished runs left behind, a
\* task that has the pool to itself, met nobody on the way out and whose calls were
\* answered reports success only with exactly that many members.
ExactWhenAlone ==
  [][\A t \in Tasks :
       /\ params[t].kind = "pool" /\ Alone(t) /\ task[t].clean
       /\ Reports(t, "changed") \/ Reports(t, "unchanged")
       /\ ~task'[t].lost
       => Cardinality(Pool') = params[t].count]_cvmVars

\* Tasks that scale one pool at the same time, each from its own stale count,
\* never take it below both what it was and every exact_count among them.
NeverBelowTarget ==
  (\A t \in Tasks : params[t].kind = "pool") =>
    \/ Cardinality(Serving) >= Cardinality(start)
    \/ \E t \in Tasks : Cardinality(Serving) >= params[t].count

\* A task that has the pool to itself, and met nobody on the way out, only
\* terminates the oldest member left, and no task terminates a PREPAID one to
\* shrink the pool.
OldestFirst ==
  [][\A t \in Tasks, i \in Ids :
       /\ params[t].kind = "pool"
       /\ inst[i].killer = None /\ inst'[i].killer = t
       => /\ ~inst[i].prepaid
          /\ Alone(t) /\ task[t].clean => \A j \in Serving : inst[i].batch <= inst[j].batch]_cvmVars

\* When a task reports that it started, stopped, rebooted or terminated an
\* instance, and nobody else was at it, the instance has settled there; when it
\* reports an update, all of it is in place.
SettledWhenReported ==
  [][\A t \in Tasks :
       Alone(t) /\ Reports(t, "changed") /\ params[t].kind # "pool" /\ task[t].target # None =>
         LET now == inst'[task[t].target]
         IN  CASE params[t].kind = "absent"  -> now.state \in {"TERMINATED", "GONE"}
               [] params[t].kind = "present" ->
                    /\ \A f \in Fields : params[t].want[f] # None => now.conf[f] = params[t].want[f]
                    /\ now.state \in {"RUNNING", task[t].snap}
               [] OTHER -> now.state = Verb(params[t].kind).goal /\ ~now.asked]_cvmVars

=============================================================================
