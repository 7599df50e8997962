------------------------------- MODULE SdkCall -------------------------------
(***************************************************************************)
(* One TencentCloudModule.sdk_call (plugins/module_utils/base.py) under    *)
(* the retry loop of plugins/module_utils/retries.py, up to the exit_json  *)
(* or fail_json that hands the audit trail to the callback plugin.         *)
(*                                                                         *)
(* The cloud is external.  It may carry out a request and still answer     *)
(* with an error: the reply was lost, or the failure came after the work.  *)
(* The loop cannot see the difference, so it sends the request again.      *)
(***************************************************************************)
EXTENDS SdkErrors, Sequences

CONSTANTS
  Retries,      \* the module parameter "retries" (any integer is accepted)
  Retry         \* the "retry" argument of sdk_call

ASSUME CallAssumption == Retries \in Int /\ Retry \in BOOLEAN

VARIABLES
  pc,           \* "call" | "sleep" | "returned" | "raised" | "exited"
  attempt,      \* the loop's counter of failed attempts
  trail,        \* _tc_calls: one entry per attempt
  payload,      \* tc_api_calls as reported by exit_json or fail_json
  applied,      \* how often the cloud carried the request out (history)
  lastCode,     \* code of the last failed attempt, "ok" before any (history)
  slept         \* seconds slept so far (history)

vars == <<pc, attempt, trail, payload, applied, lastCode, slept>>

\* The attempts one sdk_call may make: the first, and one more per retry.
Budget == IF Retry /\ Retries > 0 THEN Retries + 1 ELSE 1

Entry == [status : {"ok", "error"}]

Init ==
  /\ pc = "call"
  /\ attempt = 0
  /\ trail = <<>>
  /\ payload = <<>>
  /\ applied = 0
  /\ lastCode = "ok"
  /\ slept = 0

\* _record_sdk_call: one entry per attempt.
Record(status) == trail' = Append(trail, [status |-> status])

\* invoke(): the request is carried out and the reply arrives.
Succeed ==
  /\ pc = "call"
  /\ Record("ok")
  /\ applied' = applied + 1
  /\ lastCode' = "ok"
  /\ pc' = "returned"
  /\ UNCHANGED <<attempt, payload, slept>>

\* invoke(): the SDK raises.  done tells whether the cloud did the work; a
\* request refused for what it says (denied, in use, not found) was not done.
Error(code, done) ==
  /\ pc = "call"
  /\ done => code \in TransientCodes \cup {NoCode}
  /\ Record("error")
  /\ applied' = IF done THEN applied + 1 ELSE applied
  /\ lastCode' = code

\* retry_on (or sdk_call with retry=False) lets the exception through.
FailForGood(code, done) ==
  /\ Error(code, done)
  /\ \/ ~Retry
     \/ ~Retried(code)
     \/ attempt + 1 > Retries
  /\ pc' = "raised"
  /\ attempt' = IF Retry /\ Retried(code) THEN attempt + 1 ELSE attempt
  /\ UNCHANGED <<payload, slept>>

\* Mutant: the bound of the retries is one off.
RetryOneMore(code, done) ==
  /\ Error(code, done)
  /\ Retry
  /\ Retried(code)
  /\ attempt <= Retries
  /\ attempt' = attempt + 1
  /\ pc' = "sleep"
  /\ UNCHANGED <<payload, slept>>

\* retry_on counts the attempt and goes to sleep.
FailAndRetry(code, done) ==
  /\ Error(code, done)
  /\ Retry
  /\ Retried(code)
  /\ attempt + 1 <= Retries
  /\ attempt' = attempt + 1
  /\ pc' = "sleep"
  /\ UNCHANGED <<payload, slept>>

Sleep ==
  /\ pc = "sleep"
  /\ slept' = slept + Backoff(attempt)
  /\ pc' = "call"
  /\ UNCHANGED <<attempt, trail, payload, applied, lastCode>>

\* Mutant: the trail is cleared before it is copied.
ExitDrained ==
  /\ pc \in {"returned", "raised"}
  /\ payload' = <<>>
  /\ trail' = <<>>
  /\ pc' = "exited"
  /\ UNCHANGED <<attempt, applied, lastCode, slept>>

\* exit_json / fail_json: _drain_tc_calls moves the trail into the payload.
Exit ==
  /\ pc \in {"returned", "raised"}
  /\ payload' = trail
  /\ trail' = <<>>
  /\ pc' = "exited"
  /\ UNCHANGED <<attempt, applied, lastCode, slept>>

Next ==
  \/ Succeed
  \/ \E code \in ErrorCodes, done \in BOOLEAN :
        FailForGood(code, done) \/ FailAndRetry(code, done)
  \/ Sleep
  \/ Exit

\* The process runs until it ends: nothing in it waits for anybody.
Spec == Init /\ [][Next]_vars /\ WF_vars(Next)

-----------------------------------------------------------------------------
\* Every attempt of the call, before and after the trail is handed over.
Attempts == IF pc = "exited" THEN payload ELSE trail

Ended == pc \in {"returned", "raised", "exited"}

\* Types: the trail and the payload hold entries of finished attempts, and the
\* counters never leave the naturals.
TypeOK ==
  /\ pc \in {"call", "sleep", "returned", "raised", "exited"}
  /\ attempt \in Nat
  /\ trail \in Seq(Entry)
  /\ payload \in Seq(Entry)
  /\ applied \in Nat
  /\ lastCode \in ErrorCodes \cup {"ok"}
  /\ slept \in Nat

\* The loop gives up neither early nor late: a call that ends with an error it
\* retries has used its whole budget, and no call exceeds the budget.
GivesUpOnTime ==
  /\ Len(Attempts) <= Budget
  /\ Ended /\ Retried(lastCode) => Len(Attempts) = Budget

\* A call that returned was carried out at least once, and the audit trail
\* handed to the callback accounts for every time it was: the last entry is
\* the success and all entries before it are the failures.
AtLeastOnceAudited ==
  /\ applied <= Len(Attempts)
  /\ Ended /\ lastCode = "ok" =>
       /\ applied >= 1
       /\ \A i \in 1..Len(Attempts) :
            (Attempts[i].status = "ok") <=> (i = Len(Attempts))

\* The time slept is bounded by the retries, whatever the cloud answers.
SleepBudget == slept <= 10 * (Budget - 1)

\* The promise of AtLeastOnce, kept by the loop.
Promise == INSTANCE AtLeastOnce WITH
  status   <- IF ~Ended THEN "open" ELSE IF lastCode = "ok" THEN "ok" ELSE "failed",
  attempts <- Len(Attempts),
  effects  <- applied

\* The retry loop implements the abstract promise, its fairness included: the
\* call comes to an end however often the cloud throttles it.
KeepsPromise == Promise!Spec

=============================================================================
