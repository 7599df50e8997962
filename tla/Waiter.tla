-------------------------------- MODULE Waiter --------------------------------
(***************************************************************************)
(* Waiting for an asynchronous operation: poll_until (polling.py) as run   *)
(* by wait_for_state (waiters.py) and by the tc_wait action plugin, and    *)
(* the loops of wait_until_gone and wait_for_task, which count only the    *)
(* seconds they slept.  Time is a counter that starts when the wait does.  *)
(* A poll takes time; what it reports was true at one moment of it.  The   *)
(* names that SdkCall uses too begin with Wait here.                       *)
(***************************************************************************)
EXTENDS Integers

CONSTANTS
  Waits,          \* the waits to try: a subset of Wait
  MaxPoll,        \* how long a call may take (the client's own timeout)
  MaxChanges,     \* bound: how often the resource changes
  MaxClock        \* bound: the time the model runs, longer than any of Waits

Kinds == {"state", "tc_wait", "gone", "task"}
Wait  == [kind : Kinds, check : BOOLEAN, timeout : Int, delay : Nat]

ASSUME WaiterAssumption ==
  /\ Waits \subseteq Wait /\ MaxPoll \in Nat /\ MaxChanges \in Nat /\ MaxClock \in Nat

VARIABLES
  wait,           \* the parameters
  resource,       \* "open", "met" (what is waited for) or "failed"
  since,          \* history: when it was last met
  changes,
  clock,
  at,             \* "start", "test", "poll", "reply", "sleep", "report" or "done"
  sent,           \* when the call or the sleep in progress began
  value,          \* what the latest poll observed
  read,           \* history: when it did
  waited,         \* the seconds slept so far
  outcome

external == <<resource, since, changes>>
waitVars == <<wait, external, clock, at, sent, value, read, waited, outcome>>

kind  == wait.kind
delay == wait.delay

\* The two loops on poll_until also look at the clock.
Clocked == kind \in {"state", "tc_wait"}

WaitInit ==
  /\ wait \in Waits
  /\ resource \in {"open", "met"} /\ since = 0 /\ changes = 0
  /\ clock = 0 /\ at = "start" /\ sent = 0 /\ value = "open" /\ read = 0
  /\ waited = 0 /\ outcome = "none"

\* The resource gets there, or away from there again; a task and a deletion end.
Change ==
  /\ changes < MaxChanges /\ changes' = changes + 1
  /\ \/ resource = "open" /\ resource' = "met" /\ since' = clock
     \/ resource = "open" /\ kind = "task" /\ resource' = "failed" /\ UNCHANGED since
     \/ resource = "met" /\ Clocked /\ resource' = "open" /\ UNCHANGED since
  /\ UNCHANGED <<wait, clock, at, sent, value, read, waited, outcome>>

\* Time passes while a call is answered and during a sleep.
Tick ==
  /\ \/ at \in {"poll", "reply", "report"} /\ clock < sent + MaxPoll
     \/ at = "sleep" /\ clock < sent + delay
  /\ clock < MaxClock /\ clock' = clock + 1
  /\ UNCHANGED <<wait, external, at, sent, value, read, waited, outcome>>

Finish(how) == at' = "done" /\ outcome' = how
Go(where)   == at' = where /\ UNCHANGED outcome

\* In check mode the waiters return at once and tc_wait polls once.
Start ==
  /\ at = "start"
  /\ IF ~wait.check THEN Go("test")
     ELSE IF kind = "tc_wait" THEN Go("poll") ELSE Finish("skipped")
  /\ UNCHANGED <<wait, external, clock, sent, value, read, waited>>

\* Mutants: poll_until counts the slept seconds only; no poll follows the last sleep.
SleptInTime == waited < wait.timeout
SleepsInTime == waited + delay < wait.timeout /\ (Clocked => clock < wait.timeout)

\* The condition of the loop.
InTime == waited < wait.timeout /\ (Clocked => clock < wait.timeout)

\* Another poll; or the time is up, and wait_for_state polls for its report.
Test ==
  /\ at = "test"
  /\ IF InTime THEN Go("poll")
     ELSE IF kind = "state" THEN Go("report") ELSE Finish("timeout")
  /\ sent' = clock
  /\ UNCHANGED <<wait, external, clock, value, read, waited>>

\* The call is carried out; the reply follows.
Poll ==
  /\ at = "poll" /\ Go("reply")
  /\ value' = resource /\ read' = clock
  /\ UNCHANGED <<wait, external, clock, sent, waited>>

\* The poll raises: the exception, or the failure of tc_wait's module, ends the wait.
PollFails ==
  /\ at \in {"poll", "report"} /\ Finish("error")
  /\ UNCHANGED <<wait, external, clock, sent, value, read, waited>>

\* Mutant: a task that has ended counts as done.
JudgeEnded ==
  /\ at = "reply"
  /\ IF wait.check THEN Finish("observed")
     ELSE IF value # "open" THEN Finish("success") ELSE Go("sleep")
  /\ sent' = clock
  /\ UNCHANGED <<wait, external, clock, value, read, waited>>

\* The observation is judged.
Judge ==
  /\ at = "reply"
  /\ IF wait.check THEN Finish("observed")
     ELSE IF value = "met" THEN Finish("success")
     ELSE IF value = "failed" THEN Finish("failure")
     ELSE Go("sleep")
  /\ sent' = clock
  /\ UNCHANGED <<wait, external, clock, value, read, waited>>

\* Mutant: the sleep is not counted.
WakeUncounted ==
  /\ at = "sleep" /\ clock = sent + delay /\ Go("test")
  /\ UNCHANGED <<wait, external, clock, sent, value, read, waited>>

Wake ==
  /\ at = "sleep" /\ clock = sent + delay /\ Go("test")
  /\ waited' = waited + delay
  /\ UNCHANGED <<wait, external, clock, sent, value, read>>

\* wait_for_state polls once more, for last_state, and fails whatever it reads.
Report ==
  /\ at = "report" /\ Finish("timeout")
  /\ UNCHANGED <<wait, external, clock, sent, value, read, waited>>

Step == Start \/ Test \/ Poll \/ PollFails \/ Judge \/ Wake \/ Report

WaitNext == Step \/ Tick \/ Change

WaitSpec == WaitInit /\ [][WaitNext]_waitVars

\* A call is answered within MaxPoll, and real time goes on.
FairSpec == WaitSpec /\ WF_waitVars(Step) /\ SF_waitVars(Tick)

-----------------------------------------------------------------------------
\* The shapes of the variables: an outcome is set when the wait is over.
WaitTypeOK ==
  /\ wait \in Waits
  /\ resource \in {"open", "met", "failed"} /\ since \in 0..clock /\ changes \in 0..MaxChanges
  /\ clock \in Nat /\ sent \in 0..clock /\ read \in 0..clock /\ waited \in 0..clock
  /\ at \in {"start", "test", "poll", "reply", "sleep", "report", "done"}
  /\ value \in {"open", "met", "failed"}
  /\ outcome \in {"none", "skipped", "observed", "success", "failure", "error", "timeout"}
  /\ outcome = "none" <=> at # "done"

\* What cannot be undone is reported as it is: success means that the resource
\* is gone or the task has succeeded, failure that the task has failed.
OutcomeIsTrue ==
  ~Clocked => /\ outcome = "success" => resource = "met"
              /\ outcome = "failure" => resource = "failed"

\* No wait gives up early: not before its time is up, and not on a resource
\* that got there long enough before for a poll to see it.
NoEarlyTimeout ==
  outcome = "timeout" =>
    /\ clock >= wait.timeout
    /\ resource = "met" => since + delay + MaxPoll >= wait.timeout

\* "At most N seconds": a wait on poll_until is over when the poll and the
\* sleep in progress at the deadline are, and the poll for the report.
EndsOnTime ==
  Clocked /\ wait.timeout > 0 => clock < wait.timeout + 2 * MaxPoll + delay

\* Every wait ends, but for a loop that counts its sleeps and takes none.
EveryWaitEnds == Clocked \/ delay > 0 ~> at = "done"

=============================================================================
