------------------------------ MODULE Reconcile ------------------------------
(***************************************************************************)
(* The two modules that bring a set of entries to what a task lists:       *)
(* route_table (routes of a table) and clb_listener_target (targets of a   *)
(* listener).  Both read once, compute what to add and what to remove, and *)
(* send one bulk call each way: route_table deletes first, for a CIDR may  *)
(* have one route; clb_listener_target registers first, and each of its    *)
(* calls starts an asynchronous task that it waits for.                    *)
(*                                                                         *)
(* A key is a CIDR, or a backend and port; its value the gateway and       *)
(* description, or the weight.  The cloud is external: it refuses a route  *)
(* that exists and the deletion of one that does not, all or nothing.      *)
(***************************************************************************)
EXTENDS Integers, Sequences, FiniteSets

CONSTANTS
  Tasks,      \* task executions
  Keys, Vals, \* entries
  System,     \* keys of routes that are not USER routes
  Retries,    \* the module parameter "retries"
  Faults,     \* [done, retry]: done: after the work; retry: retry_on retries
  Scenarios,  \* what the tasks ask for, and the account they find
  None        \* no entry; not listed

Entries == [Keys -> Vals \cup {None}]
Cloud   == [exists : BOOLEAN, twins : BOOLEAN, label : Vals, entries : Entries]
Param   == [kind : {"routes", "targets"}, state : {"present", "absent"}, label : Vals,
            listed : BOOLEAN, want : Entries, purge : BOOLEAN, check : BOOLEAN,
            after : SUBSET Tasks]

ASSUME ReconcileAssumption ==
  /\ None \notin Vals /\ System \subseteq Keys /\ Retries \in Int
  /\ Faults \subseteq [done : BOOLEAN, retry : BOOLEAN]
  /\ Scenarios \subseteq [asks : [Tasks -> Param], cloud : Cloud]
  /\ \A s \in Scenarios :
       ~s.cloud.exists => ~s.cloud.twins /\ s.cloud.entries = [k \in Keys |-> None]

VARIABLES
  params,   \* the parameters of every task
  cloud,    \* the route table, or the listener
  jobs,     \* the asynchronous tasks of the load balancer
  task,     \* what each task knows and where it is
  start     \* the entries the run found (history)

vars == <<params, cloud, jobs, task, start>>

Begun == [pc |-> "start", tries |-> 0, todo |-> <<>>, add |-> {}, remove |-> {}, seen |-> <<>>,
          job |-> 0, result |-> "none", calm |-> TRUE]

Init ==
  /\ \E s \in Scenarios : params = s.asks /\ cloud = s.cloud
  /\ jobs = <<>>
  /\ task = [t \in Tasks |-> Begun]
  /\ start = cloud.entries

NoEntries        == [k \in Keys |-> None]
Set(t, k)        == task' = [task EXCEPT ![t] = k]
Ended(t, result) == [task[t] EXCEPT !.pc = "done", !.result = result]
At(t, pc)        == [task[t] EXCEPT !.pc = pc, !.tries = 0]

-----------------------------------------------------------------------------
(* What to do.                                                             *)

\* Mutant: system routes are routes like the others.
OwnAll(p) == Keys

\* The entries the module considers: not the system routes.
Own(p) == IF p.kind = "routes" THEN Keys \ System ELSE Keys

\* Mutant: purge is not asked for.
PurgedAlways(p, surplus) == surplus

\* The targets a task that does not list them deregisters.
Purged(p, surplus) == IF p.purge THEN surplus ELSE {}

\* diff_routes, with nothing removed and re-added that stays the same, and
\* reconcile_targets, which updates a weight in place.
Diff(p, entries) ==
  LET has   == {k \in Own(p) : entries[k] # None}
      wants == {k \in Keys : p.want[k] # None}
      moved == {k \in wants \cap has : entries[k] # p.want[k]}
  IN  IF p.kind = "routes"
      THEN IF ~p.listed THEN [add |-> {}, remove |-> {}]
           ELSE [add |-> (wants \ has) \cup moved, remove |-> moved \cup (has \ wants)]
      ELSE IF p.state = "absent" THEN [add |-> {}, remove |-> wants \cap has]
      ELSE [add |-> (wants \ has) \cup moved, remove |-> Purged(p, has \ wants)]

\* Mutant: a listener loses its old targets before it has the new ones.
OrderRemoving(p, d) ==
  (IF d.remove = {} THEN <<>> ELSE <<"remove">>) \o (IF d.add = {} THEN <<>> ELSE <<"add">>)

\* Which bulk call comes first.
Order(p, d) ==
  LET add    == IF d.add = {} THEN <<>> ELSE <<"add">>
      remove == IF d.remove = {} THEN <<>> ELSE <<"remove">>
  IN  IF p.kind = "routes" THEN remove \o add ELSE add \o remove

Decide(t, calls, d) ==
  IF calls = <<>> THEN Ended(t, "unchanged")
  ELSE IF params[t].check THEN Ended(t, "changed")
  ELSE [At(t, "call") EXCEPT !.todo = calls, !.add = d.add, !.remove = d.remove,
                             !.seen = cloud.entries]

\* After find_route_table or find_targets.
Plan(t) ==
  LET p == params[t]
      d == Diff(p, cloud.entries)
      n == Diff(p, NoEntries)
      name == IF cloud.label = p.label THEN <<>> ELSE <<"label">>
  IN  IF p.kind = "targets" THEN Decide(t, Order(p, d), d)
      ELSE IF p.state = "absent"
           THEN Decide(t, IF cloud.exists THEN <<"delete">> ELSE <<>>, d)
      ELSE IF cloud.exists THEN Decide(t, name \o Order(p, d), d)
      ELSE Decide(t, <<"create">> \o Order(p, n), n)

-----------------------------------------------------------------------------
(* The calls.                                                              *)

Changed(entries, do, t) ==
  [k \in Keys |-> IF do = "add" /\ k \in task[t].add THEN params[t].want[k]
                  ELSE IF do = "remove" /\ k \in task[t].remove THEN None
                  ELSE entries[k]]

Accepted(t, do) ==
  CASE do = "create" -> TRUE
    [] do \in {"delete", "label"} -> cloud.exists
    [] params[t].kind = "targets" -> TRUE
    [] do = "add" -> cloud.exists /\ \A k \in task[t].add : cloud.entries[k] = None
    [] do = "remove" ->
         cloud.exists /\ \A k \in task[t].remove : cloud.entries[k] = task[t].seen[k]

\* A call on the table as a whole, or on its entries.  CreateRouteTable carries no
\* token: carried out twice it leaves a twin, and cloud is the newer one.
Effect(t, do) ==
  CASE do = "create" -> [exists |-> TRUE, twins |-> cloud.exists, label |-> params[t].label,
                         entries |-> NoEntries]
    [] do = "delete" -> [cloud EXCEPT !.exists = FALSE, !.entries = NoEntries]
    [] do = "label"  -> [cloud EXCEPT !.label = params[t].label]
    [] OTHER -> [cloud EXCEPT !.entries = Changed(@, do, t)]

\* The work of a call: now, or as a task of the load balancer.
Works(t, do) ==
  IF params[t].kind = "targets"
  THEN jobs' = Append(jobs, [by |-> t, do |-> do, status |-> "doing"]) /\ UNCHANGED cloud
  ELSE cloud' = Effect(t, do) /\ UNCHANGED jobs

\* A fault retries the call or ends the task.
Raise(t, f) ==
  IF f.retry /\ task[t].tries < Retries THEN [task[t] EXCEPT !.tries = @ + 1]
  ELSE Ended(t, "failed")

Onward(t) ==
  LET rest == Tail(task[t].todo)
  IN  IF Head(task[t].todo) = "delete" \/ task[t].todo = <<"create">> THEN Ended(t, "changed")
      ELSE IF rest = <<>> THEN At(t, "report") ELSE [At(t, "call") EXCEPT !.todo = rest]

\* One attempt of the next call; a table that is already gone is not deleted
\* again, which is no failure (delete_resource).
Call(t) ==
  /\ task[t].pc = "call"
  /\ LET do == Head(task[t].todo)
     IN  \/ /\ Accepted(t, do) /\ Works(t, do)
            /\ Set(t, IF params[t].kind = "routes" THEN Onward(t)
                      ELSE [At(t, "wait") EXCEPT !.job = Len(jobs) + 1])
         \/ /\ ~Accepted(t, do) /\ UNCHANGED <<cloud, jobs>>
            /\ Set(t, Ended(t, IF do = "delete" THEN "unchanged" ELSE "failed"))
         \/ \E f \in Faults :
              /\ IF f.done /\ Accepted(t, do) THEN Works(t, do) ELSE UNCHANGED <<cloud, jobs>>
              /\ Set(t, Raise(t, f))
  /\ UNCHANGED <<params, start>>

\* The load balancer carries a task out, or fails it.
Carry(j) ==
  /\ jobs[j].status = "doing"
  /\ \/ /\ jobs' = [jobs EXCEPT ![j].status = "done"]
        /\ cloud' = [cloud EXCEPT !.entries = Changed(@, jobs[j].do, jobs[j].by)]
     \/ jobs' = [jobs EXCEPT ![j].status = "failed"] /\ UNCHANGED cloud
  /\ UNCHANGED <<params, task, start>>

\* Mutant: a task that ended is a task that is done.
WaitForEnd(t) ==
  /\ task[t].pc = "wait" /\ jobs[task[t].job].status # "doing"
  /\ Set(t, Onward(t))
  /\ UNCHANGED <<params, cloud, jobs, start>>

\* _wait_task: done, failed, or out of time.
Wait(t) ==
  /\ task[t].pc = "wait"
  /\ \/ jobs[task[t].job].status = "done" /\ Set(t, Onward(t))
     \/ Set(t, Ended(t, "failed"))
  /\ UNCHANGED <<params, cloud, jobs, start>>

\* The describe before and the describe after; both may fail, and the first is
\* ambiguous when a lost reply has left two tables of the name.
Find(t) ==
  /\ task[t].pc = "find"
  /\ (~cloud.twins /\ Set(t, Plan(t))) \/ Set(t, Ended(t, "failed"))
  /\ UNCHANGED <<params, cloud, jobs, start>>

Report(t) ==
  /\ task[t].pc = "report"
  /\ Set(t, Ended(t, "changed")) \/ Set(t, Ended(t, "failed"))
  /\ UNCHANGED <<params, cloud, jobs, start>>

\* The play starts the task.
Start(t) ==
  /\ task[t].pc = "start"
  /\ \A u \in params[t].after : task[u].pc = "done"
  /\ Set(t, [At(t, "find") EXCEPT !.calm = \A j \in DOMAIN jobs : jobs[j].status # "doing"])
  /\ UNCHANGED <<params, cloud, jobs, start>>

Next ==
  \/ \E t \in Tasks : Start(t) \/ Find(t) \/ Call(t) \/ Wait(t) \/ Report(t)
  \/ \E j \in DOMAIN jobs : Carry(j)

Spec == Init /\ [][Next]_vars

-----------------------------------------------------------------------------
(* Properties.                                                             *)

Has(entries) == {k \in Keys : entries[k] # None}

\* The other tasks all ended before t began, or begin after it.
Alone(t) == \A u \in Tasks \ {t} : u \in params[t].after \/ t \in params[u].after

\* A listener that has targets, and whose tasks list targets, is never without:
\* the new ones are there before the old ones go, whatever fails in between, as
\* long as no task begins while a job that an earlier one gave up is still open.
NeverBare ==
  (\A t \in Tasks : /\ params[t].kind = "targets" /\ params[t].state = "present" /\ Alone(t)
                    /\ Has(params[t].want) # {} /\ task[t].calm)
    /\ Has(start) # {}
  => Has(cloud.entries) # {}

\* An entry that is as every task lists it, and a route that is not a USER
\* route, is never touched, not even for a moment, by any number of tasks.
UntouchedSurvive ==
  \A k \in Keys :
    /\ start[k] # None
    /\ \A t \in Tasks :
         /\ params[t].state = "present"
         /\ \/ params[t].want[k] = start[k]
            \/ params[t].kind = "routes" /\ k \in System /\ params[t].want[k] = None
    => cloud.entries[k] = start[k]

\* Whatever the tasks before it left half done, a task that has the table or the
\* listener to itself reports success only when it is as listed, provided no
\* asynchronous task that an earlier one gave up was still to be carried out when
\* it began.
ReportedIsThere ==
  [][\A t \in Tasks :
       LET p == params[t]
       IN  /\ Alone(t) /\ ~p.check /\ task[t].pc # "done" /\ task'[t].result \in {"changed", "unchanged"}
           /\ task[t].calm
           => IF p.kind = "routes"
              THEN /\ cloud'.exists = (p.state = "present")
                   /\ p.state = "present" => cloud'.label = p.label
                   /\ p.state = "present" /\ p.listed =>
                        \A k \in Own(p) : cloud'.entries[k] = p.want[k]
              ELSE \A k \in Keys :
                     LET now == cloud'.entries[k]
                     IN  IF p.state = "absent" THEN p.want[k] # None => now = None
                         ELSE now = p.want[k] \/ (p.want[k] = None /\ ~p.purge)]_vars

\* Tasks that add to one listener at the same time, none of them purging, do not
\* undo each other: what one reported as registered stays.
PlaysAddUp ==
  (\A t \in Tasks : params[t].kind = "targets" /\ params[t].state = "present" /\ ~params[t].purge) =>
    \A t \in Tasks : task[t].result = "changed" /\ ~params[t].check =>
      \A k \in Keys : params[t].want[k] # None => cloud.entries[k] # None

=============================================================================
