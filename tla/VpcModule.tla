------------------------------ MODULE VpcModule ------------------------------
(***************************************************************************)
(* The vpc module (plugins/modules/vpc.py) as run by the tasks of one or   *)
(* more plays against one account: resolve the VPC by id or name, create   *)
(* it, delete it, or bring its attributes and tags to the requested state, *)
(* every call of the API going through the retry loop of sdk_call.         *)
(*                                                                         *)
(* One step of a task is one attempt of one API call: the cloud carries it *)
(* out (or not) and the reply, or the error, reaches the module.  Between  *)
(* two steps of a task every other task may take steps.                    *)
(*                                                                         *)
(* The cloud is external: vpcs is the account as the API shows it.         *)
(***************************************************************************)
EXTENDS SdkErrors, FiniteSets, FiniteSetsExt

CONSTANTS
  Tasks,       \* task executions
  Ids,         \* VPC ids the cloud can hand out; an id is never used twice
  Names,       \* VPC names
  Attrs,       \* values of DnsServers and of DomainName, "" when empty
  TagKeys,     \* numbers: the order in which sorted() yields the keys
  TagVals,     \* values of a tag
  Substring,   \* {<<w, n>> : name w occurs in name n, case folded}
  Limit,       \* rows of a DescribeVpcs page (the request asks for 100)
  Retries,     \* the module parameter "retries"
  Faults,      \* {<<code, done>>}: errors a call may meet; done: after the work
  Scenarios,   \* what the tasks of a run are asked for: [Tasks -> Param]
  Accounts,    \* accounts a run may find: [Ids -> Vpc \cup {Unborn}]
  None,        \* an omitted parameter, an absent tag, no VPC
  Unborn,      \* an id the cloud has not handed out yet
  Gone         \* an id whose VPC was deleted

Tags  == [TagKeys -> TagVals \cup {None}]
Vpc   == [name : Names, dns : Attrs, domain : Attrs, tags : Tags]
Param == [state : {"present", "absent"}, check : BOOLEAN,
          id : Ids \cup {None}, name : Names \cup {None}, cidr : BOOLEAN,
          dns : Attrs \cup {None}, domain : Attrs \cup {None}, tags : Tags,
          after : SUBSET Tasks]   \* the tasks the play runs before this one

ASSUME VpcAssumption ==
  /\ TagKeys \subseteq Nat
  /\ IsFiniteSet(Ids) /\ IsFiniteSet(TagKeys)
  /\ "" \in Attrs
  /\ None \notin Attrs \cup Names \cup TagVals \cup Ids \cup Vpc
  /\ Unborn # Gone /\ Unborn \notin Vpc /\ Gone \notin Vpc
  /\ \A n \in Names : <<n, n>> \in Substring
  /\ Limit \in Nat \ {0}
  /\ Retries \in Int
  /\ Faults \subseteq ErrorCodes \X BOOLEAN
  /\ Scenarios \subseteq [Tasks -> Param]
  /\ \A s \in Scenarios, t \in Tasks : s[t].state = "present" => s[t].name # None
  /\ Accounts \subseteq [Ids -> Vpc \cup {Unborn}]

VARIABLES
  params,     \* the parameters of every task, fixed when the run starts
  vpcs,       \* the account: id -> VPC, Unborn or Gone
  pc,         \* where each task is
  attempt,    \* retry_on's counter in the call being made
  found,      \* "VpcId" of current, None when current is None
  snap,       \* the rest of current, as the first describe returned it
  toAdd,      \* tag keys still to attach
  toRemove,   \* tag keys still to detach
  result,     \* how the task ended
  wrote       \* the VPCs each task created, changed or deleted (history)

task == <<pc, attempt, found, snap, toAdd, toRemove, result>>
vars == <<params, vpcs, task, wrote>>

PCs     == {"start", "find", "create", "delete", "modify", "tags", "refind", "done"}
Results == {"none", "changed", "unchanged", "sdkError", "ambiguous", "invalid"}

Alive(i) == vpcs[i] \notin {Unborn, Gone}

Init ==
  /\ params \in Scenarios
  /\ vpcs \in Accounts
  /\ pc = [t \in Tasks |-> "start"]
  /\ attempt = [t \in Tasks |-> 0]
  /\ found = [t \in Tasks |-> None]
  /\ snap = [t \in Tasks |-> None]
  /\ toAdd = [t \in Tasks |-> {}]
  /\ toRemove = [t \in Tasks |-> {}]
  /\ result = [t \in Tasks |-> "none"]
  /\ wrote = [t \in Tasks |-> {}]

-----------------------------------------------------------------------------
(* The cloud and the resolver.                                             *)

\* The VPCs that satisfy the request: VpcIds and the vpc-name filter narrow it
\* together, and the filter is a substring match.
Matching(id, name) ==
  {i \in Ids : /\ Alive(i)
               /\ id # None => i = id
               /\ name # None => <<name, vpcs[i].name>> \in Substring}

\* The first page is all the module asks for.
Pages(rows) == IF Cardinality(rows) <= Limit THEN {rows} ELSE kSubset(Limit, rows)

\* resolve_one: the candidates it is left with.  One is the answer, none is
\* None, more than one is the ambiguity failure.
Candidates(id, name, rows) ==
  LET exact == {i \in rows : vpcs[i].name = name}
  IN  IF id # None THEN rows \cap {id}
      ELSE IF exact # {} THEN exact
      ELSE {i \in rows : <<name, vpcs[i].name>> \in Substring}

\* Mutant: a tag that is there with another value is not attached again.
AddMissingOnly(want, have) == {k \in TagKeys : want[k] # None /\ have[k] = None}

\* compare_tags: the keys to attach (missing or with another value) and the
\* keys to detach (not asked for).
TagsToAdd(want, have)    == {k \in TagKeys : want[k] # None /\ have[k] # want[k]}
TagsToRemove(want, have) == {k \in TagKeys : want[k] = None /\ have[k] # None}

\* Mutant: an omitted parameter is compared like any other.
ComparesOmitted(p, v) == p.name # v.name \/ p.dns # v.dns \/ p.domain # v.domain

\* plan_changes over name, DNS servers and domain name: None is not managed.
AttrsDiffer(p, v) ==
  \/ p.name # v.name
  \/ p.dns # None /\ p.dns # v.dns
  \/ p.domain # None /\ p.domain # v.domain

Or(value, default) == IF value # None THEN value ELSE default

-----------------------------------------------------------------------------
(* sdk_call and the ends of run_module.                                    *)

Goto(t, where) ==
  /\ pc' = [pc EXCEPT ![t] = where]
  /\ attempt' = [attempt EXCEPT ![t] = 0]
  /\ UNCHANGED result

Finish(t, how) ==
  /\ pc' = [pc EXCEPT ![t] = "done"]
  /\ attempt' = [attempt EXCEPT ![t] = 0]
  /\ result' = [result EXCEPT ![t] = how]

\* Mutants of Raise: a spent budget starts over; "not found" counts as a delete of
\* this task.
RaiseStartsOver(t, code) ==
  IF Retried(code)
  THEN /\ attempt' = [attempt EXCEPT ![t] = IF @ + 1 <= Retries THEN @ + 1 ELSE 0]
       /\ UNCHANGED <<pc, result>>
  ELSE Finish(t, "sdkError")
RaiseClaims(t, code) ==
  IF Retried(code) /\ attempt[t] + 1 <= Retries
  THEN attempt' = [attempt EXCEPT ![t] = @ + 1] /\ UNCHANGED <<pc, result>>
  ELSE Finish(t, IF pc[t] = "delete" /\ IsNotFound(code) THEN "changed" ELSE "sdkError")

\* The call failed with code: retry_on tries again, or lets the exception
\* through, which delete_resource catches when it says "not found".
Raise(t, code) ==
  IF Retried(code) /\ attempt[t] + 1 <= Retries
  THEN /\ attempt' = [attempt EXCEPT ![t] = @ + 1]
       /\ UNCHANGED <<pc, result>>
  ELSE IF pc[t] = "delete" /\ IsNotFound(code)
  THEN Finish(t, "unchanged")
  ELSE Finish(t, "sdkError")

Untouched == UNCHANGED <<vpcs, wrote>>

\* The write reaches VPC i and leaves it as v.
Store(t, i, v) ==
  /\ vpcs' = [vpcs EXCEPT ![i] = v]
  /\ wrote' = [wrote EXCEPT ![t] = @ \cup {i}]

\* One attempt of the write fails, perhaps after the cloud has done the work;
\* there says whether the VPC it is for (still) exists.
Fails(t, i, v, there) ==
  /\ \/ \E f \in Faults : /\ IF there /\ f[2] THEN Store(t, i, v) ELSE Untouched
                         /\ Raise(t, f[1])
     \/ ~there /\ Untouched /\ Raise(t, "InvalidVpcId.NotFound")
  /\ UNCHANGED <<toAdd, toRemove>>

\* One attempt on the VPC the task found works: the reply is on its way back.
Works(t, v) == Alive(found[t]) /\ Store(t, found[t], v)
Stalls(t, v) == Fails(t, found[t], v, Alive(found[t]))

-----------------------------------------------------------------------------
(* run_module.                                                             *)

\* The play reaches the task; the only check the module makes by itself.
Start(t) ==
  /\ pc[t] = "start"
  /\ \A u \in params[t].after : pc[u] = "done"
  /\ IF params[t].state = "absent" /\ params[t].name = None /\ params[t].id = None
     THEN Finish(t, "invalid")
     ELSE Goto(t, "find")
  /\ UNCHANGED <<params, vpcs, found, snap, toAdd, toRemove, wrote>>

\* state=absent once the lookup is answered.
PlanAbsent(t, hits) ==
  IF hits = {} THEN Finish(t, "unchanged")
  ELSE IF params[t].check THEN Finish(t, "changed")
  ELSE Goto(t, "delete")

\* Mutant: check mode answers before the arguments are checked.
CheckFirst(t) ==
  IF params[t].check THEN Finish(t, "changed")
  ELSE IF ~params[t].cidr THEN Finish(t, "invalid")
  ELSE Goto(t, "create")

\* state=present when there is no such VPC.
PlanCreate(t) ==
  IF ~params[t].cidr THEN Finish(t, "invalid")
  ELSE IF params[t].check THEN Finish(t, "changed")
  ELSE Goto(t, "create")

\* state=present when VPC v is there.
PlanUpdate(t, v) ==
  LET attrs == AttrsDiffer(params[t], v)
      tags  == params[t].tags # v.tags
  IN  IF ~attrs /\ ~tags THEN Finish(t, "unchanged")
      ELSE IF params[t].check THEN Finish(t, "changed")
      ELSE IF attrs THEN Goto(t, "modify")
      ELSE Goto(t, "tags")

\* find_vpc, and everything decided from its answer before the next call.
FindAnswered(t) ==
  /\ \E rows \in Pages(Matching(params[t].id, params[t].name)) :
       LET hits == Candidates(params[t].id, params[t].name, rows)
       IN  IF Cardinality(hits) > 1
           THEN /\ Finish(t, "ambiguous")
                /\ UNCHANGED <<found, snap, toAdd, toRemove>>
           ELSE IF hits = {}
           THEN /\ IF params[t].state = "absent" THEN PlanAbsent(t, hits) ELSE PlanCreate(t)
                /\ UNCHANGED <<found, snap, toAdd, toRemove>>
           ELSE \E i \in hits :
                /\ IF params[t].state = "absent" THEN PlanAbsent(t, hits)
                   ELSE PlanUpdate(t, vpcs[i])
                /\ found' = [found EXCEPT ![t] = i]
                /\ snap' = [snap EXCEPT ![t] = vpcs[i]]
                /\ toAdd' = [toAdd EXCEPT ![t] = TagsToAdd(params[t].tags, vpcs[i].tags)]
                /\ toRemove' = [toRemove EXCEPT ![t] = TagsToRemove(params[t].tags, vpcs[i].tags)]
  /\ UNCHANGED <<params, vpcs, wrote>>

Find(t) ==
  /\ pc[t] = "find"
  /\ \/ FindAnswered(t)
     \/ \E f \in Faults : Raise(t, f[1]) /\ UNCHANGED <<params, vpcs, found, snap, toAdd, toRemove, wrote>>

\* _create: CreateVpc carries no client token, so each attempt the cloud
\* carries out makes a VPC of its own.
Create(t) ==
  LET p == params[t]
      v == [name |-> p.name, dns |-> Or(p.dns, ""), domain |-> Or(p.domain, ""), tags |-> p.tags]
  IN  /\ pc[t] = "create"
      /\ \E i \in Ids :
           /\ vpcs[i] = Unborn
           /\ \/ Store(t, i, v) /\ Finish(t, "changed") /\ UNCHANGED <<toAdd, toRemove>>
              \/ Fails(t, i, v, TRUE)
      /\ UNCHANGED <<params, found, snap>>

\* delete_resource(_delete).
Delete(t) ==
  /\ pc[t] = "delete"
  /\ \/ Works(t, Gone) /\ Finish(t, "changed") /\ UNCHANGED <<toAdd, toRemove>>
     \/ Stalls(t, Gone)
  /\ UNCHANGED <<params, found, snap>>

\* Mutant: omitted attributes are sent empty.
ModifiedCleared(t) ==
  [vpcs[found[t]] EXCEPT !.name = params[t].name,
                         !.dns = Or(params[t].dns, ""),
                         !.domain = Or(params[t].domain, "")]

\* The VPC as ModifyVpcAttribute leaves it: all three attributes rewritten, the
\* ones the task does not manage as they were when it looked.
Modified(t) ==
  [vpcs[found[t]] EXCEPT !.name = params[t].name,
                         !.dns = Or(params[t].dns, snap[t].dns),
                         !.domain = Or(params[t].domain, snap[t].domain)]

\* _update_attributes, and on to the tags if they differ.
Modify(t) ==
  /\ pc[t] = "modify"
  /\ \/ /\ Works(t, Modified(t))
        /\ Goto(t, IF toAdd[t] \cup toRemove[t] = {} THEN "refind" ELSE "tags")
        /\ UNCHANGED <<toAdd, toRemove>>
     \/ Stalls(t, Modified(t))
  /\ UNCHANGED <<params, found, snap>>

\* _apply_tags: one key per call, in order, first those to attach and then
\* those to detach; a failure leaves the rest undone.
First(k, keys)   == k \in keys /\ \A j \in keys : k <= j
Tagged(t, k, value) == [vpcs[found[t]] EXCEPT !.tags[k] = value]

AttachTag(t) ==
  /\ pc[t] = "tags"
  /\ \E k \in toAdd[t] :
       /\ First(k, toAdd[t])
       /\ \/ /\ Works(t, Tagged(t, k, params[t].tags[k]))
             /\ toAdd' = [toAdd EXCEPT ![t] = @ \ {k}]
             /\ Goto(t, IF (toAdd[t] \ {k}) \cup toRemove[t] = {} THEN "refind" ELSE "tags")
             /\ UNCHANGED toRemove
          \/ Stalls(t, Tagged(t, k, params[t].tags[k]))
  /\ UNCHANGED <<params, found, snap>>

DetachTag(t) ==
  /\ pc[t] = "tags"
  /\ toAdd[t] = {}
  /\ \E k \in toRemove[t] :
       /\ First(k, toRemove[t])
       /\ \/ /\ Works(t, Tagged(t, k, None))
             /\ toRemove' = [toRemove EXCEPT ![t] = @ \ {k}]
             /\ Goto(t, IF toRemove[t] = {k} THEN "refind" ELSE "tags")
             /\ UNCHANGED toAdd
          \/ Stalls(t, Tagged(t, k, None))
  /\ UNCHANGED <<params, found, snap>>

\* find_vpc by id for the report; whatever it returns, the task has changed.
Refind(t) ==
  /\ pc[t] = "refind"
  /\ Finish(t, "changed") \/ \E f \in Faults : Raise(t, f[1])
  /\ UNCHANGED <<params, vpcs, found, snap, toAdd, toRemove, wrote>>

Step(t) == \/ Start(t) \/ Find(t) \/ Create(t) \/ Delete(t)
           \/ Modify(t) \/ AttachTag(t) \/ DetachTag(t) \/ Refind(t)

Next == \E t \in Tasks : Step(t)

\* Each task is a process of its own that runs until it ends.
Spec == Init /\ [][Next]_vars /\ \A t \in Tasks : WF_vars(Step(t))

-----------------------------------------------------------------------------
(* Properties.                                                             *)

\* The shapes of the variables; in particular no attribute of a VPC is ever left
\* without a value because a task omitted it.
TypeOK ==
  /\ params \in Scenarios
  /\ vpcs \in [Ids -> Vpc \cup {Unborn, Gone}]
  /\ pc \in [Tasks -> PCs]
  /\ attempt \in [Tasks -> Nat]
  /\ found \in [Tasks -> Ids \cup {None}]
  /\ snap \in [Tasks -> Vpc \cup {None}]
  /\ toAdd \in [Tasks -> SUBSET TagKeys]
  /\ toRemove \in [Tasks -> SUBSET TagKeys]
  /\ result \in [Tasks -> Results]
  /\ wrote \in [Tasks -> SUBSET Ids]

Reported == {"changed", "unchanged"}

\* changed=false is only reported by a task that changed nothing, and
\* changed=true outside check mode only by one that did (exit_json of
\* run_module, delete_resource).
HonestReport ==
  \A t \in Tasks :
    /\ result[t] = "unchanged" => wrote[t] = {}
    /\ result[t] = "changed" /\ ~params[t].check => wrote[t] # {}

\* A task in check mode, and one that refuses an ambiguous reference or its
\* own arguments, has written nothing.
ReadOnlyOutcomes ==
  \A t \in Tasks :
    params[t].check \/ result[t] \in {"ambiguous", "invalid"} => wrote[t] = {}

\* A task that resolved its reference writes to that VPC and to no other, in
\* particular it never makes a new one when the VPC goes away under it.
WritesWhatItFound ==
  \A t \in Tasks : found[t] # None => wrote[t] \subseteq {found[t]}

\* What the task asked for holds of the account.
AsAsked(t) ==
  LET p == params[t]
  IN  IF p.state = "absent"
      THEN found[t] # None => ~Alive(found[t])
      ELSE \E i \in Ids :
             /\ i = found[t] \/ i \in wrote[t]
             /\ Alive(i)
             /\ vpcs[i].name = p.name
             /\ vpcs[i].tags = p.tags
             /\ vpcs[i].dns = Or(p.dns, vpcs[i].dns)
             /\ vpcs[i].domain = Or(p.domain, vpcs[i].domain)

\* The play runs one task after the other.
InSequence ==
  \A t, u \in Tasks : t # u => t \in params[u].after \/ u \in params[t].after

\* A task that reports success outside check mode, alone on the account at the
\* time, leaves the account as it was asked to, whatever state a failed task
\* before it left the VPC in (run_module brings attributes and tags in line).
Converges ==
  [][InSequence =>
       \A t \in Tasks :
         pc[t] # "done" /\ result'[t] \in Reported /\ ~params[t].check => AsAsked(t)']_vars

\* In a play of one task after the other an attribute of an existing VPC only ever
\* changes to a value that a task asked for ("existing DNS servers are left
\* untouched", _update_attributes).
UnmanagedSurvives ==
  [][InSequence => \A i \in Ids :
       Alive(i) /\ Alive(i)' =>
         /\ vpcs'[i].dns # vpcs[i].dns => \E t \in Tasks : params[t].dns = vpcs'[i].dns
         /\ vpcs'[i].domain # vpcs[i].domain =>
              \E t \in Tasks : params[t].domain = vpcs'[i].domain]_vars

\* Task t runs after task u and asks for the same, check mode aside; any other
\* task ends before u begins, or begins after both have ended.
Repeats(t, u) ==
  /\ u \in params[t].after
  /\ \A w \in Tasks \ {t, u} : w \in params[u].after \/ {t, u} \subseteq params[w].after
  /\ ~params[t].check
  /\ [params[t] EXCEPT !.check = params[u].check, !.after = params[u].after] = params[u]

\* Running state=present again leaves everything as it is, and says so, unless the
\* first run was given the id of a VPC and did not find it.
SecondRunUnchanged ==
  \A t, u \in Tasks :
    /\ Repeats(t, u)
    /\ ~params[u].check
    /\ params[t].state = "present"
    /\ params[u].id = None \/ found[u] # None
    /\ result[u] \in Reported
    => wrote[t] = {} /\ result[t] \in {"none", "unchanged", "sdkError"}

\* The same of state=absent.
SecondDeleteUnchanged ==
  \A t, u \in Tasks :
    /\ Repeats(t, u)
    /\ ~params[u].check
    /\ params[t].state = "absent"
    /\ result[u] \in Reported
    => wrote[t] = {} /\ result[t] \in {"none", "unchanged", "sdkError"}

\* What check mode announces is what the run after it does.
CheckModePredicts ==
  \A t, u \in Tasks :
    Repeats(t, u) /\ params[u].check =>
      result[t] \in {"none", "sdkError", result[u]} \/ result[u] = "sdkError"

\* Of the tasks that race to delete a VPC at most one reports to have done it.
OneTaskClaimsADelete ==
  \A t, u \in Tasks :
    /\ t # u
    /\ found[t] # None /\ found[t] = found[u]
    /\ \A v \in {t, u} : params[v].state = "absent" /\ ~params[v].check
    => ~(result[t] = "changed" /\ result[u] = "changed")

\* However the cloud answers, each task comes to an end.
EveryTaskEnds == \A t \in Tasks : <>(pc[t] = "done")

=============================================================================
