# Verification of the Tencent Cloud Ansible collection

TLA+ specifications of the parts of `susunola/ansible-collection-tencentcloud`
whose correctness depends on an order of events: the retry loop every API call
goes through, the idempotent resource modules and their waits, the connection
plugin, the paged and cached inventory, and the long-running event sources of
Event-Driven Ansible. The specifications are translated from the
code under `plugins/`; TLC checks them on small instances and TLAPS proves the
main invariants for every value of the constants.

Paths below are relative to the repository's root (`src/` in `PROJECT.json`).

## 1. Inventory

| Part | Code | State | Operations | What makes it hard | What makes it correct |
|---|---|---|---|---|---|
| SDK call | `module_utils/base.py`, `retries.py`, `errors.py` | attempt counter, audit trail `_tc_calls` | call, classify, back off, retry, exit | the reply to a write that was carried out may be lost; the trail must survive retries | bounded attempts and sleep; every attempt audited; at least once, never silently zero times |
| Resource module | `modules/vpc.py` (and about 500 of its shape), `resolver.py`, `lifecycle.py`, `tagging.py` | none of its own: the account is the state | find, plan, create, modify, tag, delete, report | several API calls per task, any of which can fail; other tasks act between them; a reference that is a fuzzy match | idempotent; check mode predicts; `changed` tells the truth; touches only what it resolved |
| `cmq_queue` source | `event_source/cmq_queue.py` | message in hand | receive, yield, delete, report, pause | visibility timeout, lost replies, death between yield and delete, a full rulebook queue | no message deleted that was not yielded; redelivery only by timeout; the queue drains |
| `cos_bucket` source | `event_source/cos_bucket.py` | stamps seen so far | list page by page, compare, pause | objects come and go under a paged walk; a page fails; the cap | every lasting object listed, or the first `max_objects`; each version announced once; baseline silent |
| `tke_cluster` source | `event_source/tke_cluster.py` | last state of each cluster | describe, compare, announce, forget | clusters vanish and return between polls; events carry the previous state | events chain up to what was recorded |
| `cls_topic` source | `event_source/cls_topic.py` | time window, Context | search, shift, pause | logs become searchable late; answers are cut off; a search fails | no log twice; none skipped |
| Pagination | `module_utils/paging.py` | offset, last page | fetch page, stop | the list changes under the walk; APIs that ignore Offset | ends; no row lost or repeated in a list that stays or only grows at its end |
| Waiters | `module_utils/polling.py`, `waiters.py`, `action/tc_wait.py` | elapsed time, last state | poll, compare, sleep | failure states, timeouts racing a late answer | ends; success only in the wanted state |
| `cvm_instance` | `modules/cvm_instance.py` | the pool of instances | count, run, terminate, start, stop, reboot | two plays on one pool, lost reply of RunInstances, stale state after a reboot | a reported count is the count; plays at once never fall below all of their targets; a reported state is settled |
| TAT connection | `connection/tat.py` | command cache, invocation | create command, invoke, poll, chunked copy | a timeout while the command still runs; a chunk fails | a file is the old one or all of the new one; a command runs once, as asked; cache and eviction order agree |
| Inventory | `module_utils/inventory.py`, `inventory/*.py` | cache | list, merge, add hosts | cache key and merge precedence | the cache serves only its own query; one host per resource |
| Route tables, CLB targets | `modules/route_table.py`, `clb_listener_target.py` | the account | delete and create, register and deregister | a failure between the two halves | what all tasks agree on is never touched; a listener is never emptied on the way; success means as listed |
| Client, credentials, COS helpers, lookups, filters, info modules | see `PROJECT.json` | none | single reads, conversions | – | – |

How they interact: every module, lookup and inventory plugin calls the cloud
through `sdk_call` (or its read-only twin), so the retry loop's promise is what
the modules build on: *at least once*, with the effects of lost replies. The
resource modules compose resolver, lifecycle helpers, tag comparison and
`sdk_call`, and interact with each other only through the account. The event
sources are independent processes that interact with a cloud service on one
side and with ansible-rulebook's queue on the other; they make SDK calls
directly and have error handling of their own. So does the TAT connection, which
retries nothing: its counterpart is the agent on the instance, which goes on with
a command after the connection has given it up. The inventory plugins walk the
list APIs through the `Paginator` and share nothing but Ansible's cache.

## 2. Modules

| Module | Models | EXTENDS / INSTANCE |
|---|---|---|
| `SdkErrors` | the error buckets and the backoff | – |
| `AtLeastOnce` | abstract: what one call promises | – |
| `SdkCall` | one `sdk_call` from the first attempt to `exit_json` | `SdkErrors`; `Promise == INSTANCE AtLeastOnce` |
| `VpcModule` | `run_module` of `vpc` with resolver, lifecycle, tagging | `SdkErrors` |
| `CmqSource`, `CosSource`, `TkeSource`, `ClsSource` | the four event sources | – |
| `Waiter` | the waits on asynchronous operations | – |
| `CvmInstance` | `run_module` of `cvm_instance`: pools and single instances | – |
| `TatConnection` | the TAT connection plugin and the agent it talks to | – |
| `Inventory` | `tc_inventory` with its cache, `merge_entries` and the `Paginator` | – |
| `Reconcile` | `run_module` of `route_table` and of `clb_listener_target` | – |
| `MC*` | instances for TLC | the module |
| `VpcModule_proofs`, `Reconcile_proofs`, `CmqSource_proofs`, `CosSource_proofs`, `TkeSource_proofs`, `ClsSource_proofs` | the theorems about the module of that name | the module and `TLAPS` |
| `Client_proofs` | the theorems about `SdkCall`, `Waiter` and `Inventory` | the three and `TLAPS` |
| `Instances_proofs` | the theorems about `TatConnection` and `CvmInstance` | the two and `TLAPS` |

### SdkCall

`attempt`, `trail` and `payload` are the loop counter of `retry_on`, `_tc_calls`
and the `tc_api_calls` of the result; `pc` is the position. `Succeed`,
`FailForGood` and `FailAndRetry` are one pass of `invoke()` with the entry it
records; the guards of the two failures are the two re-raises of `retry_on`
(`except` block, `retries.py:58-66`). `Exit` is `_drain_tc_calls` in
`exit_json`/`fail_json`. `applied`, `lastCode`, `slept` are history. A code is a
representative of the codes that `errors.py` treats alike; two of each bucket
are kept where the code tests a prefix and a literal. A failure may come after
the work (`done`) only for codes that do not say the request was refused.

`KeepsPromise` says that this loop implements `AtLeastOnce`: the variables map
to `status`, the number of attempts, and `applied`; fairness included.

### VpcModule

A step of a task is one attempt of one API call; between two steps of a task
every other task may step. `Start`, `Find`, `Create`, `Delete`, `Modify`,
`AttachTag`, `DetachTag`, `Refind` are the calls in the order of `run_module`;
what the code decides between two calls belongs to the step of the call that
was answered (`PlanAbsent`, `PlanCreate`, `PlanUpdate` after the describe).
`Candidates` is `resolve_one`, `TagsToAdd`/`TagsToRemove` are `compare_tags`,
`AttrsDiffer` is `plan_changes`, `Raise` is `retry_on` together with the
not-found handling of `delete_resource`. `vpcs` is the account as the API shows
it and is external: `Matching` narrows by id and by the substring filter, and
`Pages` returns a page of `Limit` rows. The second describe after a change
(`Refind`) matters because it can fail after the work. The sleep between two
attempts changes no state other tasks can see, and is left to `SdkCall`.

### CmqSource

`Receive`, `ReceiveNothing`, `ReceiveFails`, `Put`, `Delete`, `DeleteFails`,
`Report` and `Wake` are the statements of `main`'s loop that can wait or fail.
`queue` is the bounded `asyncio.Queue` of ansible-rulebook, `Put` its awaited
`put`. CMQ hides a received message (`hidden`) until `Expire`. A request may
fail (nothing happened) or its reply may be lost (it did); `Crash` loses the
queued events, `Restart` starts `main` again.

### CosSource

`Walk` is one ListObjects page of `list_bucket_objects` with the cap; `Begin`,
`Compare` and `Sleep` are the rest of the loop, `WalkFails` its error path.
`Upload` and `Remove` are others' writes between any two steps. Keys are
numbers in listing order. `first_poll` is computed as in the code, from the
record being empty. `present`, `baseline`, `polls` are history.

### TkeSource

`Describe`/`DescribeFails`, `Compare`, `Sleep`. A cluster is its signature (the
pair the code compares) with its node counts. `Compare` stands for both loops of
the code, over the answer and over the recorded clusters. `relapsed` (history)
says that a later poll was taken for the first one, see below.

### ClsSource

Time is a counter. `Search` answers with at most `Batch` logs of the window or,
when a Context is passed along, of the search it came from: CLS does not say
which of the two wins when both are given, so both are possible. `Shift` is the
assignment of the next window, `Sleep` the pause. `Index` makes a log searchable
within `MaxLag` of its stamp. `excused` (history) holds the stamps of windows
not answered in full.

### Waiter

One wait, of one of four kinds: `state` is `wait_for_state` and `tc_wait` the
action plugin, both on `poll_until`; `gone` and `task` are the loops of
`wait_until_gone` and `wait_for_task`. `InTime` is the condition of the loop: all
kinds count the seconds slept, the first two also look at the clock. `Poll` is
the moment a call observes the resource; time passes before it, after it (until
`Judge`) and in the sleep. `Report` is the extra poll with which
`wait_for_state` fills `last_state` before it fails. `Change` is the resource: it
may leave the wanted state again, but a deletion and a task are final. `since`
and `read` are history.

### CvmInstance

A step of a task is one attempt of one call. `Page` is one page of
`find_instances_by_tags`; with the last one the task decides (`Decide`) or
reports. `RunBatch` is one RunInstances (one zone's share), `TerminateOldest`
one TerminateInstances of the list made by `ByAge`; `Poll` and `TimeOut` are the
waits, whose loop is `Waiter`'s and is not repeated here: a wait polls any number
of times and may time out at any of them. `Find`, `Create`, `Power`, `Delete`,
`Write` and `Refind` are the single instance, `Plan*` the code between the
describe and the first write. A task may omit any field but its tags: `tags`
defaults to `{}`, so that an update that names none removes those there are. The
cloud is external: `Settle` carries out what was accepted, `Verb` says in which
state it accepts what. An instance has five fields (`Drifts` gives their order),
each written by one call; the calls per tag key are one. The ids a RunInstances
returns are those the cloud gives next.
`NewestFirst` (the API's listing), `ByAge` (`sorted`) and `NonZero` (the zones that
get instances) are sequences defined by ranks, so that they can be proved about.
`clean` says that no instance was on its way out when a task began, `lost` that
a call of it was carried out and its reply lost; `start` and `killer` are history.

### TatConnection

`Begin`, `Ensure`, `Invoke`, `Ended` and `GiveUp` are `_connect`,
`_ensure_command`, `_invoke` and the two ends of `_poll_task`; an operation is a
sequence of such commands (`Content`), `put_file` one per chunk and one that
decodes. `cache` and `order` are the two fields of the plugin. `AgentRuns` is
the agent: an invocation is carried out, or fails and leaves something behind
(`Remains`), whenever it likes. A file is the sequence of its chunks, chunk 0 a
piece of one. `calm` (history) says that nothing given up was still to run when
an operation began; `seen` holds what the file was while the operation ran.

### Inventory

`Parse` is `parse` up to the cache; `Page` is one call of a `Paginator`, and with
the last page of the last listing the rest of `parse` (merge, cache, hosts).
`todo` is the loop over regions and sources; a finished walk of TKE clusters puts
the walks of their nodes in front. `api` is how the list calls behave: whether
they honour Offset, report a total, and how many rows they serve at most.
`ListChange` adds a row at either end of a list or removes one, so a list keeps its
rows distinct, as `InventoryAssumption` has it of the accounts found: a list API
returns a resource once. `moved`, `began` and
`fetches` are history. The call for a cluster's node pools changes nothing and is
part of `Fail` when it fails.

### Reconcile

Both modules read the entries, compute a `Diff` and send the bulk calls in the
order of `Order`. A call of `route_table` takes effect at once (or is refused:
`Accepted`); one of `clb_listener_target` starts a job that `Carry` ends, and
`Wait` is `_wait_task`, which may time out and leave the job behind. `calm` says
that no such job was open when a task began. CreateRouteTable carried out twice
leaves `twins`, over which every later lookup by name fails as ambiguous. A task
that creates a table gives its `vpc_id`; tags are left out.

## 3. Runs

Run one with `tlc -config X.cfg MCModule`.

| Run | What it shows | Bounds |
|---|---|---|
| `sdk_call` | every attempt audited, implements `AtLeastOnce`: bounded attempts, never silently zero times | 7 retries: past the fourth, where the delay reaches its cap; all error classes |
| `vpc` | idempotence, check mode predicts, convergence over failed calls, unmanaged attributes survive, a delete is claimed once, every task ends | two tasks: in sequence (six requests on accounts with no VPC, one, an exact and a fuzzy match, two exact ones) or at once (18 pairs of requests, every interleaving); one retry; errors before the work |
| `vpc_absent_twice` (violation) | the finding | `prod` and `prod-old`, no faults |
| `cmq` | at least once, one redelivery per timeout, no loss without a crash, the queue drains | two messages, queue of one, two faults, a crash, a timeout while the message is in hand; with and without acknowledge |
| `cos` | walks under a changing bucket are full, or list the first `max_objects`; each version once, lasting objects are recorded | four keys on pages of two, with changes between the pages and an overwritten or a new object; one fault; no cap, one at the end of the first page and one inside the second; with and without `initial` |
| `tke` | events chain, lasting states are seen | two clusters, two signatures, two node counts, three changes, one fault |
| `cls` | no log twice; none lost from a window answered in full | three logs, answers of two, lag up to the pause of two, one failed search, seven ticks: three windows |
| `waiter` | reports are true, no wait gives up early, those on `poll_until` end on time, all end | timeouts of 2 to 4 and delays of 1 to 3 of every kind, so that the sleeps fit the timeout or overrun it; timeouts of 0 and -1, which the waiters accept, and a delay of 0; check mode; polls of up to 2; three changes of the resource; the clock's bound of 20 is not reached |
| `cvm` | a reported count is right when the task was alone, plays at once never take a pool below both what it was and all of their targets, the oldest go first, a reported state has settled | five instances, pages of two, pools scaled up (over zones too) and down by two tasks in sequence or at once, single instances in every power state; one retry; errors before and after the work; failed launches |
| `tat` | the cache serves the right command, a command runs once, files are whole or untouched, transfers deliver | scripts of up to three operations, files of zero to three chunks, a cache of two commands so that it evicts, an output limit of two chunks; every call may fail, with or without the work |
| `inventory` | rows once and in full, one host per resource, the cache serves its own query, every run ends | one or two runs, pages of two over lists of up to four rows, a flat source, one or two clusters with their nodes, two regions, one change under the walk, all eight kinds of API: honouring Offset or not, with a total or not, serving one row or two |
| `reconcile` | entries all agree on are untouched, a listener is never bare, plays add up, success means as listed | two tasks on three entries (for route tables one of them a system route), in sequence or at once; one retry; errors before and after the work; failing, slow and abandoned jobs |

Why the bounds suffice. The loops have no state beyond what is in the model, so
one fault shows the error path in every position, and the second poll, window or
task after it shows the recovery. The interactions involve two actors (a
retried call and its lost reply; two tasks; a walk and a writer); a third adds no
new order of two. The theorems of section 5 hold without any of these bounds.
Deadlock is checked in the runs of `CmqSource`, `CosSource` and `TkeSource`,
whose loops never stop. Calls end, time is bounded in `ClsSource`,
and tasks, transfers and inventory runs end too, so the other runs do not check
it.

Every property of every passing run is also tried against a variant of a
definition that has a plausible bug (`Mutant` comments; `mutants` in
`PROJECT.json`), and TLC finds it violated. The type invariants and the simpler
properties that TLAPS proves (`HonestReport`, `ReadOnlyOutcomes`,
`BaselineIsSilent` and others, section 5) are in no run. `CosSource`, `Reconcile`,
`Inventory`, `CvmInstance` and `TatConnection` say what each variable holds where it
is declared; the shapes their proofs need are part of the invariants there.

### Fairness

* `SdkCall`: `WF(Next)`. The process runs and waits for nobody.
* `VpcModule`: `WF(Step(t))` for each task. Each is a process of its own; a
  play's order is the guard of `Start`.
* `CmqSource`: the loop, the rulebook's consumer, the restart and the timeouts
  each weakly fair. The loop's only waits are on a call with a timeout, on the
  rulebook's queue and on a sleep; the number of failing calls, slow deliveries
  and crashes is bounded, so liveness says what follows once they stop.
* `CosSource`, `TkeSource`: `WF(Poll)`, and nothing of the cloud's changes.
* `Waiter`: `WF(Step)`, `SF(Tick)`: a call is answered within `MaxPoll` and real
  time goes on. Strong, because time stands still in the model between two
  calls.
* `Inventory`: `WF(Parse \/ Page)`: the plugin runs, calls are answered or fail,
  and nothing of the account's changes.
* `ClsSource`, `CvmInstance`, `TatConnection`, `Reconcile`: safety only. Their
  loops are bounded by the lists they walk, and their waits are `Waiter`'s.

## 4. Finding and departures

**`state=absent` is not idempotent by name** (`vpc_absent_twice`). Once the exact
match is gone, a lone fuzzy match is accepted, and the second run deletes it:
`prod` first, then `prod-old`.

Departures the models contain but no run reports (the properties are stated
under the condition that excludes them):

`vpc`, resolver

* A CreateVpc whose reply is lost is retried without a client token and makes a
  second VPC of the name; the next run fails as ambiguous.
* A DeleteVpc whose reply is lost is retried, answered "not found" and reported
  as `changed=false`; so `HonestReport` is proved for errors that
  come before the work. With `<<"InternalError", TRUE>>` in `Faults` the `vpc` run
  violates `SecondRunUnchanged` and `CheckModePredicts`.
* ModifyVpcAttribute writes back unmanaged attributes as they were when the task
  looked, over another task's change. `UnmanagedSurvives` is for tasks in sequence.
* Only the first page of DescribeVpcs is read: with `Limit = 1` the `vpc`
  run violates `SecondRunUnchanged`, since an exact match on a later page loses
  against a fuzzy one. The runs keep the matches of a name within one page.
* `vpc_id` with a new name creates a VPC: the request carries the id and the name
  filter together, so the VPC is filtered out of its own lookup (`vpc.py:180`;
  `resolver.py:250` promises the opposite).

Event sources and waiters

* `cos_bucket` computes `first_poll` from an empty record, so after a first poll of
  an empty bucket the next objects are taken for the baseline and never announced.
* `cls_topic` moves its window on after a failed search, so the logs of that
  window are never asked for again; `excused` in `NoneSkipped`.
* `tke_cluster` takes a poll for the first again whenever no cluster was
  recorded, also after all clusters were gone; `~relapsed` excludes it.
* `tke_cluster` neither announces nor records a node count that moves while the
  state stays, which the plugin's documentation gives as an example.
* `wait_until_gone` and `wait_for_task` count only the seconds they slept: slow
  polls stretch the timeout, which the documentation calls the maximum wait, and
  with a delay of 0 they never time out. `EndsOnTime` is for the other two,
  `EveryWaitEnds` excludes the delay of 0.
* On a timeout `wait_for_state` polls again for its message, which may then name
  the state it waited for.
* `cls_topic` moves its window on also when more than `batch_size` logs matched,
  and sends the Context of one window with the bounds of the next; `excused`.

`cvm_instance`

* An instance in `TERMINATING` or `LAUNCH_FAILED` counts as a member of the pool, so
  a run that meets one leaves too few that serve. `ExactWhenAlone` counts members
  as the module does, and with `clean` none that is on its way out.
* A `TERMINATED` row may leave the list while it is walked: every later row moves up
  one, and the next page skips a member, so that the run counts one too few and
  launches one too many, or passes over the oldest. `clean` leaves this out too.
* RunInstances carries no client token: a lost reply overshoots the pool and the
  run reports success over the refreshed, wrong count. The next run repairs it.
* Two plays at once both report success with a count that neither asked for.
* `state=absent` reports `changed=true` also when `delete_resource` found the
  instance gone, which `vpc` reports as unchanged.
* Scale-down documents a return value `terminated` that only check mode returns.
* With `EagerReboot = FALSE`, where the API shows `RUNNING` for a while after
  RebootInstances, the wait ends before the reboot and `SettledWhenReported` fails.

TAT connection

* A command given up may still run and append to the staging file of a later
  transfer, which then decodes into a wrong file and reports success; `calm`.
* An empty file has no first chunk, so nothing truncates the staging file and a
  leftover is decoded in its place; the comment at `tat.py:417` promises
  otherwise. `Delivered` and `NeverTorn` leave empty files out.
* `fetch_file` returns the part of a file that the output of one invocation holds.
* `max_command_chars` at or below the size of a chunk and its `printf` makes every
  transfer of a full chunk fail before it starts.
* `_poll_task` returns the exit code whatever the state, so a state other than
  `SUCCESS` with exit code 0 is a success to the caller; `FailedCodes`.

Inventory

* Rows inserted before the offset, or removed, repeat or skip rows, or make two
  pages equal and raise `PaginationError` although the API honours Offset.
* An API that serves fewer rows than `Limit` and no total ends the walk after its
  first page.
* A region listed twice is fetched twice and the second result replaces the first;
  `InventoryAssumption` leaves it out.
* `filters` of `tke` narrow both the clusters and their nodes.
* The cache key has neither account nor profile; `parse(cache=False)` neither reads
  nor writes the cache.
* `merge_entries` raises `TypeError` on list fields of dicts (`inventory.py:840`),
  which the model does not have.

`route_table`, `clb_listener_target`

* A replaced route is missing between DeleteRoutes and CreateRoutes, and until the
  next run if the second fails.
* A desired CIDR that a system route has is created, and refused, in every run.
* CreateRouteTable repeated after a lost reply leaves a twin of the name.
* A target listed twice never matches twice and is registered again in every run.
* A job that a task gave up may be carried out under a later one: the later one
  may then report what does not stay, and the two together may empty the listener;
  `calm` in `ReportedIsThere` and `NeverBare`.
* `targets` defaults to none and `purge` to true: a task that lists nothing empties
  the listener, which `NeverBare` excludes.

## 5. Proofs

`tlapm X_proofs.tla` checks the theorems of `X_proofs`. They hold for every value
of the constants under the modules' named assumptions (`CallAssumption`,
`VpcAssumption`, `CvmAssumption`, `TatAssumption`, `InventoryAssumption` and so on;
TLC evaluates them too) and, where a theorem names one, a hypothesis on the
constants that the text below gives the reason for. Each file has the same shape:
an inductive invariant, one lemma per action (or group of like actions) that it is
preserved, its invariance, and a theorem per property. An action property follows
from the invariant before the step. Three files hold the proofs of more than one
module: `Client_proofs` those of `SdkCall`, `Waiter` and `Inventory`, and
`Instances_proofs` those of `TatConnection` and `CvmInstance`.

`Client_proofs`

* **SdkCall**: type correctness, `GivesUpOnTime`, `AtLeastOnceAudited`,
  `SleepBudget`, for any number of retries (a negative one included), and
  `ImplementsPromise`: each step maps to a step or a stutter of `AtLeastOnce`.
  `IInv` relates `Len(trail)` to `attempt` at each `pc`, says that all entries
  before the last are errors and that `slept` is at most ten times the retries
  made.
* **Waiter**: type correctness, `OutcomeIsTrue`, `NoEarlyTimeout`, `EndsOnTime`, for
  every timeout, delay and duration of a poll. `Watched` says that between two
  polls the latest was at most a poll and a delay ago and that a resource that is
  ready got ready after it; `Punctual` how far past the deadline each place of the
  loop can be.
* **Inventory**, `ServedOwn`: `FInv` says that whatever is in the cache was
  put there by a run that finished its fetch, had its cache on and has that key;
  and runs with one key ask the account the same (`SameKeySameQuery`), because the
  key is made of every option that the listings and the merge depend on.
* **Inventory**, `WalkedInFull`, for every page size, cap, filter, number of lists
  and of changes. `GInv` says of a walk whose list so far only grew at its end
  that the rows walked are a prefix of what the filter lets through now, and of an
  API that ignores Offset that there was one full page (`Kept`). What makes it
  inductive is that a page is never taken for the one before (`NoPageTwice`), for
  which the rows of a list must be distinct: `InventoryAssumption`. `Pick`, the
  filter, is defined by ranks, so that the facts about it (`Place`, `RowAdded`,
  `VisibleGrows`) need no induction over the list.

`VpcModule_proofs`

* Type correctness, `ReadOnlyOutcomes`, `WritesWhatItFound` and
  `OneTaskClaimsADelete`, for any number of concurrent tasks and any faults.
  `IInv` says what each place in `run_module` knows (`Planned`) and what the task
  has written so far (`Blameless`); `DInv` that what a task's delete hit is gone
  for good and no other task's.
* `HonestReport` under `NoLostReplies` (errors come before the work): `HInv` adds
  that `wrote` is empty before the first write and not at the report
  (`Accounted`), which a lost reply breaks: section 4.
* `UnmanagedSurvives`, and `Converges` under `TruthfulFaults` (the API says "not
  found" only of what is not there, since `delete_resource` takes its word), lost
  replies included. `TInv` is about tasks in sequence: `Turns` says who has ended,
  `Holds` what the one that runs knows of its VPC at each place, which is still
  true of the account because nobody else is at work.
* `CheckModePredicts` and `SecondRunUnchanged` under `NoLostReplies`,
  `TruthfulFaults` (the first only) and `[]OnePage`, that is, the matches of a name
  fit on the page that is read; section 4 says what a lost reply and a second page
  do. `CInv` ties the two runs by what the account told the first and still tells
  (`Foretold`, in terms of `Outlook`: what a run without faults would report from
  here); `LInv` says that after a run with `state=present` the VPC is the only exact
  match and has nothing left to change (`Settled`, `Sole`), and stays so until the
  repetition looks (`Repeated`).

`Instances_proofs`

* **TatConnection**, `RunsAsAsked`, `RunsOnce`: `CInv` says that every command in
  the cache is the one its key names and that `order` lists the keys once each, so
  that evicting the first is evicting one that is there; `OInv` that invocations
  belong to operations begun, that an operation that is over left none that counts
  as unrun, and that one that executes has one.
* **TatConnection**, `Delivered`, `NeverTorn` under `Truthful` (a failed command has
  an exit code other than 0, as shells have it; `_poll_task` looks at nothing else,
  section 4). `Staged` says that between two chunks the staging file is exactly the
  chunks sent, for an operation that began with no command at large (`Solo`);
  `Untorn` that at most one command is at large and that a decode meets a whole file.
* **CvmInstance**, `SettledWhenReported` for single instances under `EagerReboot`
  and `NobodyAsked` (a reboot shows at once, also one asked for before the play:
  the API promises neither, and section 4 says what happens without). `SInv` has
  what each place of a task knows of its instance (`Placed`, `Armed`), and, for a
  task that has it to itself, that every wish is in place or still on the list of
  writes (`Kept`) and the state is the one to report (`Settled`).
* **CvmInstance**, `NeverBelowTarget` for pools under `OrderlyAccounts`: the
  instances an account begins with were launched in order, so that a larger id never
  has an earlier batch, and none is on its way out (with one that is, the property
  is false: section 4). Any number of tasks may walk, launch and terminate at once.
  What makes the property inductive is that a task can only terminate what it has
  counted, less its own count of those it spares: `Tallied` says of a walk under way
  that it has met no more entries which `sorted` puts after a given instance than
  there are or were younger members, `Marked` the same of a list of the doomed, and
  `Spared` that whoever was terminated left as many younger ones as its killer asked
  for. `PageTallied` is the heart: pages are of a list with the newest first, which
  grows at its front and loses rows anywhere, so a page may repeat a row or skip one,
  but a repeated one is never counted as younger than itself. In a state that falls
  short of every target, the youngest that was terminated (`YoungestOut`) then has
  more survivors than its killer left.
* **CvmInstance**, `ExactWhenAlone` and `OldestFirst`, for any scenario, faults
  and page size. `JInv` puts the tasks in turn (`InTurn`) and says what a task that
  has the pool to itself goes by at each place (`Duty`): while it counts, nobody
  leaves the list and the walk has met the first rows once each (`Walked`), which a
  further page extends (`WalksOn`) until it has met all; each instance on the list
  of the doomed is no younger than any that stays but those before it (`Ripe`,
  `OldestAre`); and, unless a reply was lost, the launches and terminations that are
  left bring the pool to `exact_count` (`Exact`, where `Holds` says what
  `_spread_counts` spreads). All of it is about the account, so it needs that the
  others are at rest meanwhile (`RestMeanwhile`). Without `TERMINATED` in `clean`
  both are false (section 4).

`Reconcile_proofs`, for any number of tasks, entries, retries and jobs

* `UntouchedSurvive`: `IInv` has the shapes of tasks and jobs and, for every entry
  that all tasks list as it is (or that is a system route none lists): the table
  exists, the entry is as it was at the start, no plan deletes the table, and no
  plan or open job removes the entry or writes another value to it. The last part
  is what makes it inductive: a plan is made from one reading and carried out
  later, when other tasks have changed the rest.
* `OInv` puts tasks and jobs in order: which job is whose, that a task at work waits
  for at most the last of its own, and that no calm task begins beside an open one.
  On it rest `PlaysAddUp` (`AInv`: tasks that purge nothing only add, and a task
  past its call is stocked for good), `NeverBare` (`BInv`: all open jobs are one
  task's, and one that removes was posted only when what its task lists was there)
  and `ReportedIsThere` (`RInv`: `Due`, the calls a plan has left bring the account to
  what the task lists, from any place and also when one is made twice).

The event sources

* **CmqSource**: type correctness (the rulebook's queue is never over-filled),
  `YieldedFirst`, `OnlyACrashLoses`, `OncePerTimeout`, `LeavesUnacknowledged`.
  `OncePerTimeout` needs `Paid`: the deliveries of a message so far, plus one if
  it is in hand or visible, are at most its timeouts plus one.
* **CosSource**: `WalksInFull`, `OnceEach`, `BaselineIsSilent`,
  `RecordsAreAnnounced`. `IInv` says that while a walk goes on it has room left, and
  that what it has listed lies at or below `marker` and includes all of `present`
  there. `PageIsPrefix` and `RoomIsFilled` are the facts about a page it rests on;
  the latter, that a page either fits or fills the room to the last place, follows
  from `FirstOnes`, by counting and without an induction over the page.
* **TkeSource**: type correctness, `RecordsAreAnnounced`, `EventsAreChained`. They
  are one argument (`UpToDate`): an event continues from what the earlier ones
  told because that is what is recorded. `Fresh` says that nothing is recorded
  before the first comparison.
* **ClsSource**: type correctness, `NeverTwice`, `NoneSkipped`. The heart of the
  last is `LagWithinPause`: with `MaxLag <= Interval` a log is searchable by the
  time the window that holds its stamp is searched, because the window ends
  before the pause.

Only model-checked:

* Liveness (`EveryTaskEnds`, `Drains`, `EveryMessageYielded`, `EveryObjectSeen`,
  `EveryStateSeen`, `EveryWaitEnds`, `EveryRunEnds`) and the fairness half of
  `KeepsPromise`, which are beyond the prover.
* `OneHostEach` of `Inventory`: `merge_entries` is a fold over the entries, and what
  a fold yields for every sequence needs an induction the prover does not do.

## 6. Not modelled

Conversions and request building (tag normalisation, filters, diffs, the
inventory's field normalizers, host names and groups), client construction and
credentials, the audit callback's sums, lookups, filters, the generated info
modules and the generators and quality gates under `scripts/`: stateless, or
tools of the repository rather than of the collection. Resource modules other
than the four modelled: the same find, plan, write, find, of which `vpc` is the
example. The tag selectors and `resolve_all` of the resolver, `soft_delete` and
the immutability checks of the lifecycle helpers: the modelled modules do not use
them. Argument checks that fail before the first call. COS stamps have a
resolution of one second; the model gives every upload its own stamp.

## 7. Plan

Done: the retry loop, `vpc`, the event sources, the waits, `cvm_instance`, the TAT
connection, the inventory with its pagination and cache, route tables and CLB
targets, and a theorem for every safety invariant and every action property of the
runs but `OneHostEach`. Left: `OneHostEach` of `Inventory`, if the merge can be stated
without a fold and the two shown to agree.
